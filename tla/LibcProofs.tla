----------------------------- MODULE LibcProofs -----------------------------
(***************************************************************************)
(* The table of streams of libc/stdio.c (Stdio) implements the streams that *)
(* a program expects (Streams), for every number of slots, every file and   *)
(* every width of size_t.                                                   *)
(*                                                                         *)
(* fread and fgets take one character after another until one says stop;    *)
(* Streams takes the front of the rest at once.  So the proof goes turn by  *)
(* turn: what was got after i turns is the first i characters of a rest, or *)
(* fewer if the loop was left (GatherShape, by induction over the turns).   *)
(*                                                                         *)
(* The functions of libc/time.c (Calendar) agree with the calendar for every *)
(* time: days are counted from the 1 March that begins an era of 400 years, *)
(* each of them is day n of a year (Start, MarchLength), and what gmtime and *)
(* mktime compute are the parts of that.                                    *)
(***************************************************************************)
EXTENDS Stdio, Calendar, ModuloFacts, SequenceTheorems

-----------------------------------------------------------------------------
\* What a slot holds.
StreamState == [data : DOMAIN Content \cup {NoFile}, pos : Nat, push : Byte \cup {Eof}]

\* The streams keep the types of their parts.
StdioTypeOK == st \in [{Console} \cup Stream -> StreamState]

\* A stream that a call may read: the console, or a file that is open.
Readable(f, r) == f = Console \/ (f \in Stream /\ r.data \in DOMAIN Content)

\* What is still to be read of a stream in state r, as Streams has it.
RestOf(f, r) ==
  {(IF r.push = Eof THEN <<>> ELSE <<r.push>>) \o t :
     t \in IF f = Console THEN [1 .. SizeMax -> Key]
           ELSE {SubSeq(Content[r.data], r.pos + 1, Len(Content[r.data]))}}

\* The state after k characters of it were read.
Moved(f, r, k) ==
  IF k = 0 THEN r
  ELSE [r EXCEPT !.pos = IF f = Console THEN @ ELSE Place(r) + k, !.push = Eof]

LEMMA MovedType ==
  ASSUME NEW f, NEW r \in StreamState, NEW k \in Nat
  PROVE  Moved(f, r, k) \in StreamState /\ Moved(f, r, k).data = r.data
<1>1. CASE k = 0
  BY <1>1 DEF Moved
<1>2. CASE k # 0
  <2>1. Place(r) + k \in Nat
    BY <1>2 DEF Place, StreamState
  <2>2. Moved(f, r, k) = [r EXCEPT !.pos = IF f = Console THEN r.pos ELSE Place(r) + k, !.push = Eof]
    BY <1>2 DEF Moved
  <2> QED
    BY <2>1, <2>2 DEF StreamState
<1> QED
  BY <1>1, <1>2

\* What an element of RestOf is.
LEMMA RestShape ==
  ASSUME NEW f, NEW r \in StreamState, Readable(f, r), NEW R \in RestOf(f, r)
  PROVE  \E t \in Seq(Byte) :
           /\ f = Console => t \in [1 .. SizeMax -> Key]
           /\ f # Console => t = SubSeq(Content[r.data], r.pos + 1, Len(Content[r.data]))
           /\ R = (IF r.push = Eof THEN <<>> ELSE <<r.push>>) \o t
           /\ R \in Seq(Byte)
<1> USE StdioAssumption
<1>1. PICK t \in IF f = Console THEN [1 .. SizeMax -> Key]
                 ELSE {SubSeq(Content[r.data], r.pos + 1, Len(Content[r.data]))} :
         R = (IF r.push = Eof THEN <<>> ELSE <<r.push>>) \o t
  BY DEF RestOf
<1>2. t \in Seq(Byte)
  <2>1. CASE f = Console
    <3>1. t \in [1 .. SizeMax -> Byte]
      BY <1>1, <2>1
    <3> QED
      BY <3>1
  <2>2. CASE f # Console
    <3>1. Content[r.data] \in Seq(Byte) /\ r.pos \in Nat
      BY <2>2 DEF Readable, StreamState
    <3>2. t = SubSeq(Content[r.data], r.pos + 1, Len(Content[r.data]))
      BY <1>1, <2>2
    <3> QED
      BY <3>1, <3>2, SMTT(30)
  <2> QED
    BY <2>1, <2>2
<1>3. (IF r.push = Eof THEN <<>> ELSE <<r.push>>) \in Seq(Byte)
  BY DEF StreamState
<1> QED
  BY <1>1, <1>2, <1>3, SMTT(30)

\* Characters of a rest, by their place.
LEMMA RestPlaces ==
  ASSUME NEW f, NEW r \in StreamState, NEW t \in Seq(Byte), NEW R,
         R = (IF r.push = Eof THEN <<>> ELSE <<r.push>>) \o t, r.push \in Byte \cup {Eof}
  PROVE  /\ r.push = Eof => Len(R) = Len(t) /\ \A i \in 1 .. Len(t) : R[i] = t[i]
         /\ r.push # Eof => /\ Len(R) = 1 + Len(t) /\ R[1] = r.push
                            /\ \A i \in 2 .. 1 + Len(t) : R[i] = t[i - 1]
<1>1. CASE r.push = Eof
  <2>1. R = t
    BY <1>1
  <2> QED
    BY <1>1, <2>1
<1>2. CASE r.push # Eof
  <2>1. R = <<r.push>> \o t /\ <<r.push>> \in Seq(Byte)
    BY <1>2
  <2> QED
    BY <1>2, <2>1
<1> QED
  BY <1>1, <1>2

\* fgetc gives the next character of some rest that agrees with what was read.
LEMMA NextCharacter ==
  ASSUME NEW f, NEW r \in StreamState, Readable(f, r), NEW R \in RestOf(f, r),
         NEW k \in 0 .. Len(R), f = Console => k < SizeMax,
         NEW o \in fgetc(f, Moved(f, r, k))
  PROVE  \/ o.c = Eof /\ k = Len(R) /\ o.to = Moved(f, r, k)
         \/ /\ o.c \in Byte /\ o.to = Moved(f, r, k + 1)
            /\ \E Q \in RestOf(f, r) : /\ k < Len(Q) /\ Q[k + 1] = o.c
                                       /\ \A i \in 1 .. k : Q[i] = R[i]
<1> USE StdioAssumption
<1>1. PICK t \in Seq(Byte) :
        /\ f = Console => t \in [1 .. SizeMax -> Key]
        /\ f # Console => t = SubSeq(Content[r.data], r.pos + 1, Len(Content[r.data]))
        /\ R = (IF r.push = Eof THEN <<>> ELSE <<r.push>>) \o t
        /\ R \in Seq(Byte)
  BY RestShape
<1>2. /\ r.push = Eof => Len(R) = Len(t) /\ \A i \in 1 .. Len(t) : R[i] = t[i]
      /\ r.push # Eof => /\ Len(R) = 1 + Len(t) /\ R[1] = r.push
                         /\ \A i \in 2 .. 1 + Len(t) : R[i] = t[i - 1]
  <2>1. r.push \in Byte \cup {Eof}
    BY DEF StreamState
  <2> QED
    BY <1>1, <2>1, RestPlaces
<1>3. k \in Nat /\ Len(R) \in Nat /\ Len(t) \in Nat
  BY <1>1
<1> DEFINE q == Moved(f, r, k)
<1>4. q \in StreamState /\ q.data = r.data
  BY <1>3, MovedType
<1>5. CASE q.push # Eof
  <2>1. k = 0 /\ q = r
    BY <1>5 DEF Moved, StreamState
  <2>2. o.c = r.push /\ o.to = [r EXCEPT !.push = Eof]
    BY <1>5, <2>1 DEF fgetc
  <2>3. Moved(f, r, 1) = [r EXCEPT !.push = Eof]
    <3>1. Place(r) + 1 = r.pos
      BY <1>5, <2>1 DEF Place, StreamState
    <3>2. Moved(f, r, 1) = [r EXCEPT !.pos = IF f = Console THEN r.pos ELSE Place(r) + 1, !.push = Eof]
      BY DEF Moved
    <3> QED
      BY <3>1, <3>2 DEF StreamState
  <2>4. r.push \in Byte /\ 0 < Len(R) /\ R[1] = r.push
    BY <1>2, <1>3, <1>5, <2>1 DEF StreamState
  <2> QED
    BY <2>1, <2>2, <2>3, <2>4
<1>6. CASE q.push = Eof
  \* As many characters of t as the rest has moved on without the one pushed.
  <2>1. PICK j \in Nat : j = k - (IF r.push = Eof THEN 0 ELSE 1)
    <3>1. r.push # Eof => k > 0
      BY <1>3, <1>6 DEF Moved
    <3> QED
      BY <1>3, <3>1
  <2>2. j <= Len(t)
    BY <1>2, <1>3, <2>1
  <2>3. CASE f = Console
    <3>1. PICK c \in Key : o = [c |-> c, to |-> q]
      BY <1>6, <2>3 DEF fgetc
    <3>2. o.c \in Byte /\ o.to = q /\ q = Moved(f, r, k + 1)
      <4>1. CASE k = 0
        <5>1. r.push = Eof
          BY <1>6, <4>1 DEF Moved
        <5>2. Moved(f, r, 1) = [r EXCEPT !.pos = r.pos, !.push = Eof]
          BY <2>3 DEF Moved
        <5>3. Moved(f, r, 1) = r
          BY <5>1, <5>2 DEF StreamState
        <5> QED
          BY <3>1, <4>1, <5>3 DEF Moved
      <4>2. CASE k # 0
        BY <1>3, <2>3, <3>1, <4>2 DEF Moved
      <4> QED
        BY <4>1, <4>2
    <3> DEFINE t2 == [t EXCEPT ![j + 1] = c]
    <3>3. t2 \in [1 .. SizeMax -> Key] /\ t2 \in Seq(Byte) /\ Len(t2) = SizeMax /\ Len(t) = SizeMax
      <4>1. t2 \in [1 .. SizeMax -> Key]
        BY <1>1, <2>3
      <4>2. t2 \in [1 .. SizeMax -> Byte]
        BY <4>1
      <4>3. t2 \in Seq(Byte) /\ Len(t2) = SizeMax
        <5> HIDE DEF t2
        <5> QED
          BY <4>2
      <4>4. Len(t) = SizeMax
        <5>1. t \in [1 .. SizeMax -> Byte]
          BY <1>1, <2>3
        <5> QED
          BY <5>1
      <4> QED
        BY <4>1, <4>3, <4>4
    <3>4. j + 1 \in 1 .. SizeMax /\ t2[j + 1] = c /\ \A i \in 1 .. SizeMax : i # j + 1 => t2[i] = t[i]
      <4>1. j + 1 \in 1 .. SizeMax
        BY <1>3, <2>1, <2>3
      <4> QED
        BY <1>1, <2>3, <4>1
    <3> HIDE DEF t2
    <3> DEFINE Q == (IF r.push = Eof THEN <<>> ELSE <<r.push>>) \o t2
    <3>5. Q \in RestOf(f, r)
      BY <2>3, <3>3 DEF RestOf
    <3>6. /\ r.push = Eof => Len(Q) = Len(t2) /\ \A i \in 1 .. Len(t2) : Q[i] = t2[i]
          /\ r.push # Eof => /\ Len(Q) = 1 + Len(t2) /\ Q[1] = r.push
                             /\ \A i \in 2 .. 1 + Len(t2) : Q[i] = t2[i - 1]
      <4>1. r.push \in Byte \cup {Eof}
        BY DEF StreamState
      <4> QED
        BY <3>3, <4>1, RestPlaces
    <3> HIDE DEF Q
    <3>7. k < Len(Q) /\ Q[k + 1] = c
      <4>1. PICK m : m = Len(Q)
        OBVIOUS
      <4>2. CASE r.push = Eof
        <5>1. m = SizeMax /\ \A i \in 1 .. SizeMax : Q[i] = t2[i]
          BY <3>3, <3>6, <4>1, <4>2
        <5>2. j = k
          BY <1>3, <2>1, <4>2
        <5> QED
          BY <1>3, <3>4, <4>1, <5>1, <5>2
      <4>3. CASE r.push # Eof
        <5>1. m = 1 + SizeMax /\ \A i \in 2 .. 1 + SizeMax : Q[i] = t2[i - 1]
          BY <3>3, <3>6, <4>1, <4>3
        <5>2. j + 1 = k /\ k + 1 \in 2 .. 1 + SizeMax /\ (k + 1) - 1 = j + 1
          BY <1>3, <2>1, <3>4, <4>3, SMTT(30)
        <5> QED
          BY <1>3, <3>4, <4>1, <5>1, <5>2, SMTT(30)
      <4> QED
        BY <4>2, <4>3
    <3>8. ASSUME NEW i \in 1 .. k PROVE Q[i] = R[i]
      <4>1. CASE r.push = Eof
        <5>1. j = k /\ i \in 1 .. SizeMax /\ i # j + 1
          BY <1>3, <2>1, <3>4, <4>1
        <5> QED
          BY <1>2, <3>3, <3>4, <3>6, <4>1, <5>1
      <4>2. CASE r.push # Eof
        <5>1. j + 1 = k
          BY <1>3, <2>1, <4>2
        <5>2. CASE i = 1
          BY <1>2, <3>6, <4>2, <5>2
        <5>3. CASE i # 1
          <6>1. i \in 2 .. 1 + SizeMax /\ i - 1 \in 1 .. SizeMax /\ i - 1 # j + 1
            BY <1>3, <3>4, <5>1, <5>3
          <6>2. Q[i] = t2[i - 1] /\ R[i] = t[i - 1]
            BY <1>2, <3>3, <3>6, <4>2, <6>1
          <6> QED
            BY <3>4, <6>1, <6>2
        <5> QED
          BY <5>2, <5>3
      <4> QED
        BY <4>1, <4>2
    <3> QED
      BY <3>1, <3>2, <3>5, <3>7, <3>8
  <2>4. CASE f # Console
    <3>1. Content[r.data] \in Seq(Byte) /\ r.pos \in Nat /\ Size(r) = Len(Content[r.data])
      BY <2>4 DEF Readable, StreamState, Size
    <3>2. q.pos = r.pos + j /\ Size(q) = Len(Content[r.data])
      <4>1. CASE k = 0
        BY <1>6, <2>1, <3>1, <4>1 DEF Moved
      <4>2. CASE k # 0
        <5>1. q.pos = Place(r) + k
          BY <2>4, <4>2 DEF Moved, StreamState
        <5> QED
          BY <1>3, <1>4, <2>1, <3>1, <5>1, SMTT(30) DEF Place, Size
      <4> QED
        BY <4>1, <4>2
    <3>3. Len(t) = (IF r.pos + 1 <= Size(r) THEN Size(r) - r.pos ELSE 0)
          /\ \A i \in 1 .. Len(t) : t[i] = Content[r.data][r.pos + i]
      <4>1. PICK C \in Seq(Byte) : C = Content[r.data]
        BY <3>1
      <4>2. PICK n \in Nat, a \in Nat : n = Len(C) /\ a = r.pos + 1
        BY ONLY <3>1, C \in Seq(Byte), SMTT(30)
      <4>3. t = SubSeq(C, a, n)
        BY <1>1, <2>4, <4>1, <4>2
      <4>4. Len(t) = (IF a <= n THEN n - a + 1 ELSE 0) /\ \A i \in 1 .. Len(t) : t[i] = C[a + i - 1]
        <5>1. \A i \in a .. n : C[i] \in Byte
          <6>1. a >= 1
            BY <3>1, <4>2, SMTT(30)
          <6>2. \A i \in 1 .. Len(C) : C[i] \in Byte
            BY ElementOfSeq
          <6> QED
            BY <4>2, <6>1, <6>2
        <5>2. /\ Len(SubSeq(C, a, n)) = IF a <= n THEN n - a + 1 ELSE 0
              /\ \A i \in 1 .. n - a + 1 : SubSeq(C, a, n)[i] = C[a + i - 1]
          <6>1. a \in Int /\ n \in Int
            OBVIOUS
          <6> QED
            BY ONLY <5>1, <6>1, SubSeqProperties
        <5>3. \A i \in 1 .. Len(t) : i \in 1 .. n - a + 1
          BY <4>3, <5>2
        <5> QED
          BY <4>3, <5>2, <5>3
      <4>5. (IF r.pos + 1 <= Size(r) THEN Size(r) - r.pos ELSE 0) = (IF a <= n THEN n - a + 1 ELSE 0)
        BY <3>1, <4>1, <4>2, SMTT(30)
      <4>6. ASSUME NEW i \in 1 .. Len(t) PROVE t[i] = Content[r.data][r.pos + i]
        <5>1. r.pos + i = a + i - 1
          BY <1>3, <3>1, <4>2
        <5> QED
          BY <4>1, <4>4, <5>1
      <4> QED
        BY <4>4, <4>5, <4>6
    <3>6. PICK n, p, m : n = Size(r) /\ p = r.pos /\ m = Len(t)
      OBVIOUS
    <3>7. n \in Nat /\ p \in Nat /\ m \in Nat /\ j \in Nat /\ k \in Nat
          /\ m = (IF p + 1 <= n THEN n - p ELSE 0)
      <4>1. n \in Nat
        BY <3>1, <3>6
      <4> QED
        BY <1>3, <2>1, <3>1, <3>3, <3>6, <4>1
    <3>8. q.pos = p + j /\ Size(q) = n
      BY <3>1, <3>2, <3>6
    <3>4. CASE q.pos < Size(q)
      <4>1. o.c = Content[r.data][r.pos + j + 1] /\ o.to = [q EXCEPT !.pos = q.pos + 1]
        BY <1>4, <1>6, <2>4, <3>2, <3>4 DEF fgetc
      <4>2. j < Len(t) /\ j + 1 \in 1 .. Len(t)
        <5>1. p + j < n
          BY <3>4, <3>8
        <5>2. j < m /\ j + 1 \in 1 .. m
          BY <3>7, <5>1, SMTT(30)
        <5> QED
          BY <3>6, <5>2
      <4>3. t[j + 1] = o.c
        <5>1. r.pos + (j + 1) = r.pos + j + 1
          BY <2>1, <3>1
        <5> QED
          BY <3>3, <4>1, <4>2, <5>1
      <4>4. k < Len(R) /\ R[k + 1] = o.c
        <5>1. CASE r.push = Eof
          <6>1. j = k /\ Len(R) = m /\ R[j + 1] = t[j + 1]
            BY <1>2, <2>1, <3>6, <3>7, <4>2, <5>1
          <6> QED
            BY <3>6, <4>2, <4>3, <6>1
        <5>2. CASE r.push # Eof
          <6>1. j + 1 = k /\ Len(R) = 1 + m
            BY <1>2, <2>1, <3>6, <3>7, <5>2
          <6>2. k + 1 \in 2 .. 1 + m /\ (k + 1) - 1 = j + 1 /\ k < 1 + m
            <7>1. j < m
              BY <3>6, <4>2
            <7> QED
              BY ONLY <3>7, <6>1, <7>1
          <6>3. R[k + 1] = t[(k + 1) - 1]
            BY <1>2, <3>6, <5>2, <6>2
          <6> QED
            BY <4>3, <6>1, <6>2, <6>3
        <5> QED
          BY <5>1, <5>2
      <4>5. o.to = Moved(f, r, k + 1)
        <5>1. Moved(f, r, k + 1) = [r EXCEPT !.pos = Place(r) + (k + 1), !.push = Eof]
          BY <1>3, <2>4 DEF Moved
        <5>2. Place(r) + (k + 1) = q.pos + 1
          <6>1. PICK e \in {0, 1} : Place(r) = p - e /\ j = k - e
            BY <2>1, <3>6, <3>7 DEF Place
          <6> QED
            BY ONLY <3>7, <3>8, <6>1, SMTT(30)
        <5>3. q.push = Eof /\ q.data = r.data /\ q \in StreamState /\ q.pos + 1 \in Nat
          BY <1>4, <1>6, <3>1, <3>2
        <5> HIDE DEF q
        <5>4. PICK y \in Nat : y = q.pos + 1
          BY <5>3
        <5>5. o.to = [q EXCEPT !.pos = y] /\ Moved(f, r, k + 1) = [r EXCEPT !.pos = y, !.push = Eof]
          BY <4>1, <5>1, <5>2, <5>4
        <5>6. o.to = [data |-> q.data, pos |-> y, push |-> q.push]
          BY ONLY <5>3, <5>5 DEF StreamState
        <5>7. Moved(f, r, k + 1) = [data |-> r.data, pos |-> y, push |-> Eof]
          BY ONLY <5>5, r \in StreamState DEF StreamState
        <5> QED
          BY <5>3, <5>6, <5>7
      <4>6. o.c \in Byte
        BY <1>1, <4>2, <4>3
      <4> QED
        BY <4>4, <4>5, <4>6
    <3>5. CASE ~ (q.pos < Size(q))
      <4>1. o.c = Eof /\ o.to = q
        BY <1>6, <2>4, <3>5 DEF fgetc
      <4>2. j = Len(t)
        <5>1. ~ (p + j < n) /\ j <= m
          BY <2>2, <3>5, <3>6, <3>8
        <5>2. j = m
          BY <3>7, <5>1, SMTT(30)
        <5> QED
          BY <3>6, <5>2
      <4>3. k = Len(R)
        <5>1. CASE r.push = Eof
          BY <1>2, <2>1, <3>6, <3>7, <4>2, <5>1
        <5>2. CASE r.push # Eof
          <6>1. Len(R) = 1 + m /\ j = k - 1
            BY <1>2, <2>1, <3>6, <5>2
          <6>2. j = m
            BY <3>6, <4>2
          <6> QED
            BY ONLY <3>7, <6>1, <6>2
        <5> QED
          BY <5>1, <5>2
      <4> QED
        BY <4>1, <4>3
    <3> QED
      BY <3>4, <3>5
  <2> QED
    BY <2>3, <2>4
<1> QED
  BY <1>5, <1>6

LEMMA FgetcType ==
  ASSUME NEW f, NEW q \in StreamState, Readable(f, q), NEW o \in fgetc(f, q)
  PROVE  o.c \in Byte \cup {Eof} /\ o.to \in StreamState /\ o.to.data = q.data
<1> USE StdioAssumption
<1>1. CASE q.push # Eof
  <2>1. o.c = q.push /\ o.to = [q EXCEPT !.push = Eof]
    BY <1>1 DEF fgetc
  <2> QED
    BY <2>1 DEF StreamState
<1>2. CASE q.push = Eof /\ f = Console
  BY <1>2 DEF fgetc
<1>3. CASE q.push = Eof /\ f # Console
  <2>1. Content[q.data] \in Seq(Byte) /\ q.pos \in Nat /\ Size(q) = Len(Content[q.data])
    BY <1>3 DEF Readable, StreamState, Size
  <2>2. CASE q.pos < Size(q)
    <3>1. o.c = Content[q.data][q.pos + 1] /\ o.to = [q EXCEPT !.pos = q.pos + 1]
      BY <1>3, <2>2 DEF fgetc
    <3>2. q.pos + 1 \in 1 .. Len(Content[q.data])
      BY <2>1, <2>2
    <3>3. o.c \in Byte
      BY <2>1, <3>1, <3>2, ElementOfSeq
    <3> QED
      BY <2>1, <3>1, <3>3, SMTT(30) DEF StreamState
  <2>3. CASE ~ (q.pos < Size(q))
    BY <1>3, <2>3 DEF fgetc
  <2> QED
    BY <2>2, <2>3
<1> QED
  BY <1>1, <1>2, <1>3

LEMMA SomeRest ==
  ASSUME NEW f, NEW r
  PROVE  RestOf(f, r) # {}
<1>1. PICK k \in Key : TRUE
  BY StdioAssumption
<1>2. [i \in 1 .. SizeMax |-> k] \in [1 .. SizeMax -> Key]
  OBVIOUS
<1>3. PICK t : t \in IF f = Console THEN [1 .. SizeMax -> Key]
                     ELSE {SubSeq(Content[r.data], r.pos + 1, Len(Content[r.data]))}
  BY <1>2
<1> QED
  BY <1>3 DEF RestOf

\* What the loop has after i turns.
Gathered(f, r, line, i) ==
  {g \in [got : Seq(Byte), to : StreamState, more : BOOLEAN] :
     \E R \in RestOf(f, r), k \in Nat :
       /\ k <= Len(R) /\ k <= i /\ g.to = Moved(f, r, k)
       /\ Len(g.got) = k /\ \A j \in 1 .. k : g.got[j] = R[j]
       /\ IF g.more THEN k = i ELSE k = Len(R) \/ (line /\ k > 0 /\ R[k] = NL)
       /\ line => \A j \in 1 .. k : R[j] = NL => j = k /\ ~ g.more}

LEMMA OneTurn ==
  ASSUME NEW f, NEW r \in StreamState, Readable(f, r), NEW line \in BOOLEAN,
         NEW i \in Nat, f = Console => i < SizeMax,
         NEW g \in Gathered(f, r, line, i), g.more, NEW o \in fgetc(f, g.to)
  PROVE  Turn(g, o, line) \in Gathered(f, r, line, i + 1)
<1> USE StdioAssumption
<1>1. g \in [got : Seq(Byte), to : StreamState, more : BOOLEAN]
  BY DEF Gathered
<1>2. PICK R \in RestOf(f, r) :
        /\ i <= Len(R) /\ g.to = Moved(f, r, i)
        /\ Len(g.got) = i /\ \A j \in 1 .. i : g.got[j] = R[j]
        /\ line => \A j \in 1 .. i : R[j] # NL
  BY DEF Gathered
<1>3. R \in Seq(Byte)
  BY RestShape
<1>4. i \in 0 .. Len(R)
  BY <1>2, <1>3
<1>5. o.to \in StreamState
  <2>1. Readable(f, g.to) /\ g.to \in StreamState
    BY <1>2, MovedType DEF Readable
  <2> QED
    BY <2>1, FgetcType
<1>6. CASE o.c = Eof /\ i = Len(R) /\ o.to = Moved(f, r, i)
  <2>0. PICK t : t = Turn(g, o, line)
    OBVIOUS
  <2>1. t = [g EXCEPT !.to = o.to, !.more = FALSE]
    BY <1>6, <2>0 DEF Turn
  <2>2. t \in [got : Seq(Byte), to : StreamState, more : BOOLEAN]
        /\ t.got = g.got /\ t.to = Moved(f, r, i) /\ t.more = FALSE
    BY <1>1, <1>5, <1>6, <2>1
  <2>3. \E Q \in RestOf(f, r), k \in Nat :
          /\ k <= Len(Q) /\ k <= i + 1 /\ t.to = Moved(f, r, k)
          /\ Len(t.got) = k /\ \A j \in 1 .. k : t.got[j] = Q[j]
          /\ IF t.more THEN k = i + 1 ELSE k = Len(Q) \/ (line /\ k > 0 /\ Q[k] = NL)
          /\ line => \A j \in 1 .. k : Q[j] = NL => j = k /\ ~ t.more
    <3>1. i <= i + 1 /\ i \in Nat
      OBVIOUS
    <3> WITNESS R \in RestOf(f, r), i \in Nat
    <3> QED
      BY <1>2, <1>6, <2>2, <3>1
  <2> QED
    BY <2>0, <2>2, <2>3 DEF Gathered
<1>7. CASE /\ o.c \in Byte /\ o.to = Moved(f, r, i + 1)
           /\ \E Q \in RestOf(f, r) : /\ i < Len(Q) /\ Q[i + 1] = o.c
                                      /\ \A j \in 1 .. i : Q[j] = R[j]
  <2>1. PICK Q \in RestOf(f, r) : i < Len(Q) /\ Q[i + 1] = o.c /\ \A j \in 1 .. i : Q[j] = R[j]
    BY <1>7
  <2>0. PICK t : t = Turn(g, o, line)
    OBVIOUS
  <2> DEFINE got == Append(g.got, o.c)
  <2>2. t = [got |-> got, to |-> o.to, more |-> ~ (line /\ o.c = NL)]
    <3>1. o.c # Eof
      BY <1>7
    <3> QED
      BY <2>0, <3>1 DEF Turn
  <2>3. /\ got \in Seq(Byte) /\ Len(got) = i + 1 /\ got[i + 1] = o.c
        /\ \A j \in 1 .. i : got[j] = g.got[j]
    BY <1>1, <1>2, <1>7
  <2>4. \A j \in 1 .. i + 1 : got[j] = Q[j]
    <3>1. \A j \in 1 .. i + 1 : j = i + 1 \/ j \in 1 .. i
      OBVIOUS
    <3> HIDE DEF got
    <3> QED
      BY <1>2, <2>1, <2>3, <3>1
  <2> HIDE DEF got
  <2>5. t \in [got : Seq(Byte), to : StreamState, more : BOOLEAN]
    BY <1>5, <2>2, <2>3
  <2>6. t.got = got /\ t.to = Moved(f, r, i + 1) /\ t.more = ~ (line /\ o.c = NL)
    BY <1>7, <2>2
  <2>7. PICK k \in Nat : k = i + 1
    OBVIOUS
  <2>8. k <= Len(Q) /\ k <= i + 1 /\ k > 0 /\ Q[k] = o.c
    <3>1. Q \in Seq(Byte)
      BY RestShape
    <3> QED
      BY <2>1, <2>7, <3>1
  <2>9. line => \A j \in 1 .. k : Q[j] = NL => j = k /\ ~ t.more
    <3>1. \A j \in 1 .. k : j = k \/ j \in 1 .. i
      BY <2>7
    <3>2. \A j \in 1 .. i : line => Q[j] # NL
      BY <1>2, <2>1
    <3> QED
      BY <2>6, <2>8, <3>1, <3>2
  <2>10. IF t.more THEN k = i + 1 ELSE k = Len(Q) \/ (line /\ k > 0 /\ Q[k] = NL)
    BY <2>6, <2>7, <2>8
  <2>11. t.to = Moved(f, r, k) /\ Len(t.got) = k /\ \A j \in 1 .. k : t.got[j] = Q[j]
    BY <2>3, <2>4, <2>6, <2>7
  <2> QED
    <3>1. \E P \in RestOf(f, r), n \in Nat :
            /\ n <= Len(P) /\ n <= i + 1 /\ t.to = Moved(f, r, n)
            /\ Len(t.got) = n /\ \A j \in 1 .. n : t.got[j] = P[j]
            /\ IF t.more THEN n = i + 1 ELSE n = Len(P) \/ (line /\ n > 0 /\ P[n] = NL)
            /\ line => \A j \in 1 .. n : P[j] = NL => j = n /\ ~ t.more
      <4> WITNESS Q \in RestOf(f, r), k \in Nat
      <4> QED
        BY <2>8, <2>9, <2>10, <2>11
    <3> QED
      BY <2>0, <2>5, <3>1 DEF Gathered
<1>8. o \in fgetc(f, Moved(f, r, i)) /\ (f = Console => i < SizeMax)
  BY <1>2
<1>9. \/ o.c = Eof /\ i = Len(R) /\ o.to = Moved(f, r, i)
      \/ /\ o.c \in Byte /\ o.to = Moved(f, r, i + 1)
         /\ \E Q \in RestOf(f, r) : /\ i < Len(Q) /\ Q[i + 1] = o.c
                                    /\ \A j \in 1 .. i : Q[j] = R[j]
  BY ONLY <1>4, <1>8, r \in StreamState, Readable(f, r), R \in RestOf(f, r), NextCharacter
<1> QED
  BY <1>6, <1>7, <1>9

\* The loop of fread and fgets takes the front of a rest: all of it that is
\* asked for, to the end of the file or of the line.
LEMMA GatherShape ==
  ASSUME NEW f, NEW r \in StreamState, Readable(f, r), NEW line \in BOOLEAN,
         NEW z \in Nat, f = Console => z <= SizeMax, NEW g \in Gather(f, r, z, line)
  PROVE  /\ g.got \in Seq(Byte) /\ g.to \in StreamState /\ g.to.data = r.data
         /\ \E R \in RestOf(f, r), k \in Nat :
              /\ k <= Len(R) /\ k <= z /\ g.got = SubSeq(R, 1, k) /\ g.to = Moved(f, r, k)
              /\ k = z \/ k = Len(R) \/ (line /\ k > 0 /\ R[k] = NL)
              /\ line => \A j \in 1 .. k - 1 : R[j] # NL
<1> DEFINE G == {u \in [got : Seq(Byte), to : StreamState, more : BOOLEAN] : u.to.data = r.data}
           first == {[got |-> <<>>, to |-> r, more |-> TRUE]}
           Turns(W) == UNION {IF u.more THEN {Turn(u, o, line) : o \in fgetc(f, u.to)} ELSE {u} : u \in W}
           h == [i \in 1 .. z |-> [W \in SUBSET G |-> Turns(W)]]
<1>1. first \in SUBSET G
  OBVIOUS
<1>2. \A W \in SUBSET G : Turns(W) \in SUBSET G
  <2> SUFFICES ASSUME NEW W \in SUBSET G, NEW u \in W, u.more, NEW o \in fgetc(f, u.to)
               PROVE  Turn(u, o, line) \in G
    OBVIOUS
  <2>1. u \in [got : Seq(Byte), to : StreamState, more : BOOLEAN] /\ u.to.data = r.data
    OBVIOUS
  <2>2. u.to \in StreamState /\ Readable(f, u.to)
    BY <2>1 DEF Readable
  <2>3. o.c \in Byte \cup {Eof} /\ o.to \in StreamState /\ o.to.data = r.data
    BY <2>1, <2>2, FgetcType
  <2>4. CASE o.c = Eof
    <3>1. Turn(u, o, line) = [u EXCEPT !.to = o.to, !.more = FALSE]
      BY <2>4 DEF Turn
    <3> QED
      BY <2>1, <2>3, <3>1
  <2>5. CASE o.c # Eof
    <3>1. Turn(u, o, line) = [got |-> Append(u.got, o.c), to |-> o.to, more |-> ~ (line /\ o.c = NL)]
      BY <2>5 DEF Turn
    <3>2. Append(u.got, o.c) \in Seq(Byte)
      BY <2>1, <2>3, <2>5
    <3> QED
      BY <2>3, <3>1, <3>2
  <2> QED
    BY <2>4, <2>5
<1>3. h \in [1 .. z -> [SUBSET G -> SUBSET G]]
  <2> HIDE DEF G, Turns
  <2> QED
    BY <1>2
<1> DEFINE At(after, i) == IF i = 0 THEN first ELSE Turns(after[i - 1])
           T == CHOOSE after : after = [i \in 0 .. z |-> At(after, i)]
<1>4. T \in [0 .. z -> SUBSET G] /\ T = [i \in 0 .. z |-> At(T, i)]
  <2>1. PICK a \in [0 .. z -> SUBSET G] : a[0] = first /\ \A i \in 1 .. z : a[i] = h[i][a[i - 1]]
    <3> HIDE DEF G, h, first
    <3>1. PICK V : V = SUBSET G
      OBVIOUS
    <3>2. first \in V /\ h \in Steps(z, V)
      BY <1>1, <1>3, <3>1 DEF Steps
    <3>3. PICK a : a \in Iterates(z, V, first, h)
      BY ONLY <3>2, z \in Nat, Iteration
    <3> QED
      BY <3>1, <3>3 DEF Iterates
  <2>2. \A i \in 0 .. z : a[i] = At(a, i)
    <3>0. a[0] = At(a, 0)
      BY <2>1
    <3> SUFFICES ASSUME NEW i \in 0 .. z, i # 0 PROVE a[i] = Turns(a[i - 1])
      BY <3>0
    <3>1. i \in 1 .. z /\ i - 1 \in 0 .. z
      OBVIOUS
    <3>2. a[i - 1] \in SUBSET G
      BY <3>1
    <3>3. h[i][a[i - 1]] = Turns(a[i - 1])
      <4> HIDE DEF G, Turns
      <4> QED
        BY <3>1, <3>2
    <3> HIDE DEF h, Turns
    <3> QED
      BY <2>1, <3>1, <3>3
  <2>3. a = [i \in 0 .. z |-> At(a, i)]
    <3>1. DOMAIN a = 0 .. z /\ a = [i \in 0 .. z |-> a[i]]
      OBVIOUS
    <3> HIDE DEF At, h, first
    <3> QED
      BY <2>2, <3>1
  <2>4. T = [i \in 0 .. z |-> At(T, i)]
    <3> HIDE DEF At
    <3> QED
      BY ONLY <2>3, Zenon
  \* T is typed as a is: they agree at every place.
  <2> DEFINE I == {i \in Nat : i <= z => T[i] = a[i]}
  <2> HIDE DEF T
  <2>5. \A i \in 0 .. z : T[i] = At(T, i) /\ a[i] = At(a, i)
    <3> HIDE DEF At
    <3> QED
      BY ONLY <2>3, <2>4, Zenon
  <2>6. \A n \in Nat : n \in I
    <3>1. 0 \in I
      <4>1. 0 \in 0 .. z
        OBVIOUS
      <4>2. T[0] = first /\ a[0] = first
        BY <2>5, <4>1
      <4> QED
        BY <4>2
    <3>2. ASSUME NEW n \in Nat, n \in I PROVE n + 1 \in I
      <4>1. n + 1 <= z => n <= z /\ n + 1 \in 0 .. z /\ n + 1 # 0 /\ (n + 1) - 1 = n
        OBVIOUS
      <4>2. n + 1 <= z => T[n + 1] = Turns(T[n]) /\ a[n + 1] = Turns(a[n])
        <5> HIDE DEF Turns
        <5> QED
          BY <2>5, <4>1
      <4> HIDE DEF Turns
      <4> QED
        BY <3>2, <4>1, <4>2
    <3> HIDE DEF I
    <3> QED
      BY ONLY <3>1, <3>2, Induction
  <2>7. \A i \in 0 .. z : T[i] = a[i]
    BY <2>6
  <2>8. DOMAIN T = 0 .. z
    <3> HIDE DEF At
    <3> QED
      BY ONLY <2>4, Zenon
  <2>9. \A i \in 0 .. z : T[i] \in SUBSET G
    <3> HIDE DEF G
    <3> QED
      BY <2>1, <2>7
  <2>10. T = [i \in 0 .. z |-> T[i]]
    <3> HIDE DEF At
    <3> QED
      BY <2>4, <2>5
  <2> HIDE DEF G, At
  <2> QED
    BY <2>4, <2>8, <2>9, <2>10
<1>5. g \in T[z]
  BY DEF Gather
<1> HIDE DEF T
<1> DEFINE I == {i \in Nat : i <= z => T[i] \subseteq Gathered(f, r, line, i)}
<1>6. 0 \in I
  <2>1. T[0] = first
    BY <1>4
  <2>2. PICK R : R \in RestOf(f, r)
    BY SomeRest
  <2>3. Len(R) \in Nat
    BY <2>2, RestShape, EmptySeq
  <2> SUFFICES [got |-> <<>>, to |-> r, more |-> TRUE] \in Gathered(f, r, line, 0)
    BY <2>1
  <2>4. PICK u : u = [got |-> <<>>, to |-> r, more |-> TRUE]
    OBVIOUS
  <2>5. \E Q \in RestOf(f, r), k \in Nat :
          /\ k <= Len(Q) /\ k <= 0 /\ u.to = Moved(f, r, k)
          /\ Len(u.got) = k /\ \A j \in 1 .. k : u.got[j] = Q[j]
          /\ IF u.more THEN k = 0 ELSE k = Len(Q) \/ (line /\ k > 0 /\ Q[k] = NL)
          /\ line => \A j \in 1 .. k : Q[j] = NL => j = k /\ ~ u.more
    <3>1. 0 \in Nat /\ Moved(f, r, 0) = r
      BY DEF Moved
    <3> WITNESS R \in RestOf(f, r), 0 \in Nat
    <3> QED
      BY <2>3, <2>4, <3>1
  <2> QED
    BY <2>4, <2>5 DEF Gathered
<1>7. ASSUME NEW n \in Nat, n \in I PROVE n + 1 \in I
  <2> SUFFICES ASSUME n + 1 <= z, NEW u \in T[n + 1] PROVE u \in Gathered(f, r, line, n + 1)
    OBVIOUS
  <2>1. n <= z /\ n + 1 \in 0 .. z /\ n + 1 # 0 /\ (n + 1) - 1 = n
    OBVIOUS
  <2>2. T[n + 1] = Turns(T[n])
    <3> HIDE DEF Turns
    <3> QED
      BY <1>4, <2>1
  <2>3. PICK v \in T[n] : u \in IF v.more THEN {Turn(v, o, line) : o \in fgetc(f, v.to)} ELSE {v}
    BY <2>2
  <2>4. v \in Gathered(f, r, line, n)
    BY <1>7, <2>1, <2>3
  <2>5. CASE v.more
    <3>1. f = Console => n < SizeMax
      BY <2>1, StdioAssumption
    <3>2. PICK o \in fgetc(f, v.to) : u = Turn(v, o, line)
      BY <2>3, <2>5
    <3> QED
      BY <2>4, <2>5, <3>1, <3>2, OneTurn
  <2>6. CASE ~ v.more
    <3>1. u = v
      BY <2>3, <2>6
    <3>2. \A k : (k \in Nat /\ k <= n) => k <= n + 1
      OBVIOUS
    <3> QED
      BY <2>4, <2>6, <3>1, <3>2 DEF Gathered
  <2> QED
    BY <2>5, <2>6
<1>8. g \in Gathered(f, r, line, z)
  <2>1. \A n \in Nat : n \in I
    <3> HIDE DEF I
    <3> QED
      BY ONLY <1>6, <1>7, Induction
  <2> QED
    BY <1>5, <2>1
<1>9. PICK R \in RestOf(f, r), k \in Nat :
        /\ k <= Len(R) /\ k <= z /\ g.to = Moved(f, r, k)
        /\ Len(g.got) = k /\ \A j \in 1 .. k : g.got[j] = R[j]
        /\ IF g.more THEN k = z ELSE k = Len(R) \/ (line /\ k > 0 /\ R[k] = NL)
        /\ line => \A j \in 1 .. k : R[j] = NL => j = k /\ ~ g.more
  BY <1>8 DEF Gathered
<1>10. g.got \in Seq(Byte) /\ g.to \in StreamState /\ g.more \in BOOLEAN
  BY <1>8 DEF Gathered
<1>11. g.to.data = r.data
  BY <1>9, MovedType
<1>12. R \in Seq(Byte) /\ Len(R) \in Nat
  <2>1. R \in Seq(Byte)
    BY RestShape
  <2> QED
    BY <2>1
<1>13. g.got = SubSeq(R, 1, k)
  <2>1. SubSeq(R, 1, k) \in Seq(Byte) /\ Len(SubSeq(R, 1, k)) = k
        /\ \A j \in 1 .. k : SubSeq(R, 1, k)[j] = R[j]
    BY <1>9, <1>12
  <2> QED
    BY <1>9, <1>10, <2>1, SeqEqual
<1>14. k \in 0 .. Len(R)
  BY <1>9, <1>12
<1>15. line => \A j \in 1 .. k - 1 : R[j] # NL
  <2>1. \A j \in 1 .. k - 1 : j \in 1 .. k /\ j # k
    OBVIOUS
  <2> QED
    BY <1>9, <2>1
<1> QED
  BY <1>9, <1>10, <1>11, <1>13, <1>14, <1>15

-----------------------------------------------------------------------------
\* The streams keep their types.

LEMMA ReadSize ==
  ASSUME NEW z \in Nat, NEW n \in Nat
  PROVE  /\ Bytes(z, n) \in 0 .. SizeMax /\ z * n \in Nat
         /\ Bytes(z, n) <= z * n /\ (z * n <= SizeMax => Bytes(z, n) = z * n)
<1>1. z * n \in Nat
  OBVIOUS
<1>2. PICK p \in Nat : p = z * n
  BY <1>1
<1>3. PICK m \in Nat \ {0} : m = SizeMax + 1
  BY StdioAssumption
<1>4. PICK q \in Int : p = q * m + (p % m) /\ p % m \in 0 .. m - 1
  <2>1. p \in Int
    OBVIOUS
  <2> QED
    BY ONLY <2>1, m \in Nat \ {0}, Division
<1>5. p <= SizeMax => p % m = p
  <2>1. p <= SizeMax => p \in 0 .. m - 1
    <3>1. p \in Nat /\ SizeMax \in Nat
      BY <1>1, <1>2, StdioAssumption
    <3> QED
      BY ONLY <1>3, <3>1
  <2> QED
    BY ONLY <2>1, m \in Nat \ {0}, Wrap
<1>6. p % m <= p
  <2>1. CASE q >= 0
    <3>1. q * m >= 0
      BY <2>1
    <3> QED
      BY <1>4, <3>1
  <2>2. CASE q <= -1
    <3>1. q * m <= - m
      BY <2>2
    <3> QED
      BY <1>4, <3>1
  <2> QED
    BY <2>1, <2>2
<1>7. p % m \in 0 .. SizeMax
  BY <1>3, <1>4, StdioAssumption
<1> QED
  BY <1>1, <1>2, <1>3, <1>5, <1>6, <1>7 DEF Bytes

LEMMA StdioTypes ==
  StdioSpec => []StdioTypeOK
<1> USE StdioAssumption
<1>1. StdioInit => StdioTypeOK
  BY DEF StdioInit, StdioTypeOK, StreamState, Fresh
<1>2. StdioTypeOK /\ [StdioNext]_stdioVars => StdioTypeOK'
  <2> SUFFICES ASSUME StdioTypeOK, [StdioNext]_stdioVars PROVE StdioTypeOK'
    OBVIOUS
  <2>1. \A f, r : r \in StreamState /\ st' = [st EXCEPT ![f] = r] => StdioTypeOK'
    BY DEF StdioTypeOK
  <2>2. st' = st => StdioTypeOK'
    BY DEF StdioTypeOK
  <2>3. \A f \in {Console} \cup Stream : st[f] \in StreamState
    BY DEF StdioTypeOK
  <2>4. \A n \in DOMAIN Content \cup {NoFile} : Fresh(n) \in StreamState
    BY DEF Fresh, StreamState
  <2>5. \A f \in Stream \ Free : st[f].data \in DOMAIN Content
    BY <2>3 DEF Free, StreamState
  <2>6. CASE UNCHANGED stdioVars
    BY <2>2, <2>6 DEF stdioVars
  <2>7. CASE Taken
    BY <2>2, <2>7 DEF Taken
  <2>8. CASE OpenFails
    BY <2>2, <2>8 DEF OpenFails
  <2>9. ASSUME NEW n \in DOMAIN Content, fopen(n) PROVE StdioTypeOK'
    <3>1. CASE Free = {}
      BY <2>2, <2>9, <3>1 DEF fopen
    <3>2. CASE Free # {}
      <4>1. PICK i : st' = [st EXCEPT ![i] = Fresh(n)]
        BY <2>9, <3>2 DEF fopen
      <4> QED
        BY <2>1, <2>4, <4>1
    <3> QED
      BY <3>1, <3>2
  <2>10. ASSUME NEW f \in Stream \ Free,
                \/ fclose(f) \/ ftell(f) \/ feof(f)
                \/ \E off \in Offsets, w \in 0 .. 3 : fseek(f, off, w)
         PROVE  StdioTypeOK'
    <3>1. CASE fclose(f)
      BY <2>1, <2>4, <3>1 DEF fclose
    <3>2. CASE ftell(f) \/ feof(f)
      BY <2>2, <3>2 DEF ftell, feof
    <3>3. ASSUME NEW off \in Offsets, NEW w \in 0 .. 3, fseek(f, off, w) PROVE StdioTypeOK'
      <4>1. PICK p : /\ p = Target(st[f], off, w)
                     /\ IF p < 0 THEN UNCHANGED st /\ Says("fseek", f, -1)
                        ELSE /\ st' = [st EXCEPT ![f].pos = p, ![f].push = Eof]
                             /\ Says("fseek", f, 0)
        BY <3>3 DEF fseek
      <4>2. p \in Int
        <5>1. st[f] \in StreamState /\ Content[st[f].data] \in Seq(Byte)
          BY <2>3, <2>5
        <5>2. Place(st[f]) \in Int /\ Size(st[f]) \in Int /\ off \in Int
          BY <5>1 DEF Place, Size, StreamState
        <5>3. \A i \in Int : Long(i) \in Int
          <6>1. PlaceMax \in Int
            BY StdioAssumption
          <6> QED
            BY ONLY <6>1 DEF Long
        <5>4. Long(Place(st[f]) + off) \in Int /\ Long(Size(st[f]) + off) \in Int
          BY <5>2, <5>3
        <5>5. Target(st[f], off, w) \in Int
          BY ONLY <5>2, <5>4 DEF Target
        <5> QED
          BY <4>1, <5>5
      <4>3. CASE p < 0
        BY <2>2, <4>1, <4>3
      <4>4. CASE ~ (p < 0)
        <5>1. PICK r : r = [st[f] EXCEPT !.pos = p, !.push = Eof]
          OBVIOUS
        <5>2. st' = [st EXCEPT ![f] = r]
          BY <4>1, <4>4, <5>1 DEF StdioTypeOK
        <5>3. r \in StreamState
          <6>1. p \in Nat /\ st[f] \in StreamState
            BY <2>3, <4>2, <4>4
          <6> QED
            BY <5>1, <6>1 DEF StreamState
        <5> QED
          BY <2>1, <5>2, <5>3
      <4> QED
        BY <4>3, <4>4
    <3> QED
      BY <2>10, <3>1, <3>2, <3>3
  <2>11. ASSUME NEW f \in {Console} \cup (Stream \ Free),
                \/ \E n \in DOMAIN Content : freopen(f, n)
                \/ \E z, n \in Counts : fread(f, z, n)
                \/ \E n \in Counts : fgets(f, n)
                \/ \E c \in Pushes \cup {Eof} : ungetc(f, c)
         PROVE  StdioTypeOK'
    <3>0. st[f] \in StreamState /\ Readable(f, st[f])
      BY <2>3, <2>5 DEF Readable
    <3>1. ASSUME NEW n \in DOMAIN Content, freopen(f, n) PROVE StdioTypeOK'
      BY <2>1, <2>4, <3>1 DEF freopen
    <3>2. ASSUME NEW z \in Counts, NEW n \in Counts, fread(f, z, n) PROVE StdioTypeOK'
      <4>1. PICK m : m = IF z = 0 THEN 0 ELSE Bytes(z, n)
        OBVIOUS
      <4>2. PICK g \in Gather(f, st[f], m, FALSE) : st' = [st EXCEPT ![f] = g.to]
        BY <3>2, <4>1 DEF fread
      <4>3. m \in 0 .. SizeMax
        BY <4>1, ReadSize
      <4>4. g.to \in StreamState
        <5>1. m \in Nat /\ m <= SizeMax /\ FALSE \in BOOLEAN
          BY <4>3
        <5> QED
          BY ONLY <3>0, <4>2, <5>1, GatherShape
      <4> QED
        BY <2>1, <4>2, <4>4
    <3>3. ASSUME NEW n \in Counts, fgets(f, n) PROVE StdioTypeOK'
      <4>1. PICK m : m = IF n <= 0 THEN 0 ELSE n - 1
        OBVIOUS
      <4>2. PICK g \in Gather(f, st[f], m, TRUE) : st' = [st EXCEPT ![f] = g.to]
        BY <3>3, <4>1 DEF fgets
      <4>3. m \in 0 .. SizeMax
        BY <4>1
      <4>4. g.to \in StreamState
        <5>1. m \in Nat /\ m <= SizeMax /\ TRUE \in BOOLEAN
          BY <4>3
        <5> QED
          BY ONLY <3>0, <4>2, <5>1, GatherShape
      <4> QED
        BY <2>1, <4>2, <4>4
    <3>4. ASSUME NEW c \in Pushes \cup {Eof}, ungetc(f, c) PROVE StdioTypeOK'
      <4>1. CASE st' = st
        BY <2>2, <4>1
      <4>2. CASE st' = [st EXCEPT ![f].push = c]
        <5>1. PICK r : r = [st[f] EXCEPT !.push = c]
          OBVIOUS
        <5>2. st' = [st EXCEPT ![f] = r] /\ r \in StreamState
          BY <3>0, <4>2, <5>1 DEF StdioTypeOK, StreamState
        <5> QED
          BY <2>1, <5>2
      <4> QED
        BY <3>4, <4>1, <4>2 DEF ungetc
    <3> QED
      BY <2>11, <3>1, <3>2, <3>3, <3>4
  <2>12. ASSUME NEW f \in {Console, stdout},
                (\E z, n \in Counts : fwrite(f, z, n)) \/ ConsoleRefuses(f)
         PROVE  StdioTypeOK'
    BY <2>2, <2>12 DEF fwrite, ConsoleRefuses
  <2> QED
    BY <2>6, <2>7, <2>8, <2>9, <2>10, <2>11, <2>12 DEF StdioNext, StdioCalls
<1> QED
  BY <1>1, <1>2, PTL DEF StdioSpec

-----------------------------------------------------------------------------
\* A place is one that a long can hold: the sums of fseek overflow by less than
\* a turn.
PlacesFit == \A f \in {Console} \cup Stream : st[f].pos <= PlaceMax

\* A read goes no farther than the end of the file.
LEMMA MovedFits ==
  ASSUME NEW f, NEW r \in StreamState, Readable(f, r), NEW R \in RestOf(f, r),
         NEW k \in Nat, k <= Len(R), r.pos <= PlaceMax
  PROVE  Moved(f, r, k).pos <= PlaceMax
<1>1. CASE k = 0
  BY <1>1 DEF Moved
<1>2. CASE k # 0 /\ f = Console
  BY <1>2 DEF Moved, StreamState
<1>3. CASE k # 0 /\ f # Console
  <2>1. PICK t \in Seq(Byte) :
          /\ t = SubSeq(Content[r.data], r.pos + 1, Len(Content[r.data]))
          /\ R = (IF r.push = Eof THEN <<>> ELSE <<r.push>>) \o t
          /\ R \in Seq(Byte)
    BY <1>3, RestShape
  <2>2. /\ r.push = Eof => Len(R) = Len(t)
        /\ r.push # Eof => Len(R) = 1 + Len(t)
    BY <2>1, RestPlaces, SMTT(30) DEF StreamState
  <2>3. PICK n : n = Len(Content[r.data])
    OBVIOUS
  <2>4. r.pos \in Nat /\ Content[r.data] \in Seq(Byte) /\ n \in Nat /\ n <= PlaceMax
    BY <1>3, <2>3, StdioAssumption DEF Readable, StreamState
  <2>5. PICK l : l = Len(t)
    OBVIOUS
  <2>6. l = (IF r.pos < n THEN n - r.pos ELSE 0)
    BY <2>1, <2>3, <2>4, <2>5, SMTT(30)
  <2>7. Moved(f, r, k).pos = Place(r) + k
    BY <1>3 DEF Moved, StreamState
  <2>8. CASE r.push = Eof
    <3>1. Place(r) = r.pos - 0 /\ k <= l
      BY <2>2, <2>5, <2>8 DEF Place
    <3> QED
      BY <2>4, <2>6, <2>7, <3>1, StdioAssumption
  <2>9. CASE r.push # Eof
    <3>1. Place(r) = r.pos - 1 /\ k <= 1 + l
      BY <2>2, <2>5, <2>9 DEF Place
    <3> QED
      BY <2>4, <2>6, <2>7, <3>1, StdioAssumption
  <2> QED
    BY <2>8, <2>9
<1> QED
  BY <1>1, <1>2, <1>3

\* What the loop leaves does, too.
LEMMA GatherFits ==
  ASSUME NEW f, NEW r \in StreamState, Readable(f, r), r.pos <= PlaceMax,
         NEW m \in Nat, m <= SizeMax, NEW line \in BOOLEAN, NEW g \in Gather(f, r, m, line)
  PROVE  g.to.pos <= PlaceMax
<1>1. PICK R \in RestOf(f, r), k \in Nat : k <= Len(R) /\ g.to = Moved(f, r, k)
  BY GatherShape
<1> QED
  BY <1>1, MovedFits

\* A place that fseek reaches can be held by a long.
LEMMA TargetFits ==
  ASSUME NEW r \in StreamState, r.data \in DOMAIN Content, r.pos <= PlaceMax,
         NEW off \in Offsets, NEW w
  PROVE  /\ Target(r, off, w) \in Int /\ Target(r, off, w) <= PlaceMax
         /\ Place(r) \in Int /\ Place(r) <= PlaceMax /\ -1 <= Place(r)
         /\ Size(r) \in Nat /\ Size(r) <= PlaceMax
         /\ off \in Int /\ - PlaceMax - 1 <= off /\ off <= PlaceMax
<1>1. Size(r) \in Nat /\ Size(r) <= PlaceMax
  BY StdioAssumption DEF Size
<1>2. r.pos \in Nat /\ Place(r) \in Int /\ Place(r) <= PlaceMax /\ -1 <= Place(r)
  BY StdioAssumption DEF Place, StreamState
<1>3. off \in Int /\ - PlaceMax - 1 <= off /\ off <= PlaceMax /\ PlaceMax \in Nat
  BY StdioAssumption
<1>4. \A i \in Int : - PlaceMax - 2 <= i /\ i <= 2 * PlaceMax
                     => Long(i) \in Int /\ Long(i) <= PlaceMax
  BY <1>3 DEF Long
<1>5. Long(Place(r) + off) \in Int /\ Long(Place(r) + off) <= PlaceMax
  BY <1>2, <1>3, <1>4
<1>6. Long(Size(r) + off) \in Int /\ Long(Size(r) + off) <= PlaceMax
  BY <1>1, <1>3, <1>4
<1>7. Target(r, off, w) \in Int /\ Target(r, off, w) <= PlaceMax
  BY <1>3, <1>5, <1>6 DEF Target
<1> QED
  BY <1>1, <1>2, <1>3, <1>7

LEMMA Places == StdioSpec => []PlacesFit
<1> USE StdioAssumption
<1>1. StdioInit => PlacesFit
  BY DEF StdioInit, PlacesFit, Fresh
<1>2. StdioTypeOK /\ PlacesFit /\ [StdioNext]_stdioVars => PlacesFit'
  <2> SUFFICES ASSUME StdioTypeOK, PlacesFit, [StdioNext]_stdioVars PROVE PlacesFit'
    OBVIOUS
  <2>1. \A f, r : r.pos <= PlaceMax /\ st' = [st EXCEPT ![f] = r] => PlacesFit'
    BY DEF StdioTypeOK, PlacesFit
  <2>2. st' = st => PlacesFit'
    BY DEF PlacesFit
  <2>3. \A f \in {Console} \cup Stream : st[f] \in StreamState /\ st[f].pos <= PlaceMax
    BY DEF StdioTypeOK, PlacesFit
  <2>4. \A n : Fresh(n).pos <= PlaceMax
    BY DEF Fresh
  <2>5. \A f \in Stream \ Free : st[f].data \in DOMAIN Content
    BY <2>3 DEF Free, StreamState
  <2>6. CASE UNCHANGED stdioVars \/ Taken \/ OpenFails
    BY <2>2, <2>6 DEF stdioVars, Taken, OpenFails
  <2>7. ASSUME NEW n \in DOMAIN Content, fopen(n) PROVE PlacesFit'
    <3>1. CASE Free = {}
      BY <2>2, <2>7, <3>1 DEF fopen
    <3>2. CASE Free # {}
      <4>1. PICK i : st' = [st EXCEPT ![i] = Fresh(n)]
        BY <2>7, <3>2 DEF fopen
      <4> QED
        BY <2>1, <2>4, <4>1
    <3> QED
      BY <3>1, <3>2
  <2>8. ASSUME NEW f \in Stream \ Free, fclose(f) \/ ftell(f) \/ feof(f) PROVE PlacesFit'
    BY <2>1, <2>2, <2>4, <2>8 DEF fclose, ftell, feof
  <2>9. ASSUME NEW f \in Stream \ Free, NEW off \in Offsets, NEW w \in 0 .. 3, fseek(f, off, w)
        PROVE  PlacesFit'
    <3>1. CASE Target(st[f], off, w) < 0
      BY <2>2, <2>9, <3>1 DEF fseek
    <3>2. CASE ~ (Target(st[f], off, w) < 0)
      <4>1. PICK p : p = Target(st[f], off, w)
        OBVIOUS
      <4>2. p <= PlaceMax
        BY <2>3, <2>5, <4>1, TargetFits
      <4>3. st' = [st EXCEPT ![f].pos = p, ![f].push = Eof]
        BY <2>9, <3>2, <4>1 DEF fseek
      <4>4. PICK r : r = [st[f] EXCEPT !.pos = p, !.push = Eof]
        OBVIOUS
      <4>5. st' = [st EXCEPT ![f] = r]
        BY <4>3, <4>4 DEF StdioTypeOK
      <4>6. r.pos = p
        BY <2>3, <4>4 DEF StreamState
      <4> QED
        BY <2>1, <4>2, <4>5, <4>6
    <3> QED
      BY <3>1, <3>2
  <2>10. ASSUME NEW f \in {Console} \cup (Stream \ Free),
                \/ \E n \in DOMAIN Content : freopen(f, n)
                \/ \E z, n \in Counts : fread(f, z, n)
                \/ \E n \in Counts : fgets(f, n)
                \/ \E c \in Pushes \cup {Eof} : ungetc(f, c)
         PROVE  PlacesFit'
    <3>1. st[f] \in StreamState /\ Readable(f, st[f]) /\ st[f].pos <= PlaceMax
      BY <2>3, <2>5 DEF Readable
    <3>2. ASSUME NEW n, freopen(f, n) PROVE PlacesFit'
      BY <2>1, <2>4, <3>2 DEF freopen
    <3>3. ASSUME NEW z \in Counts, NEW n \in Counts, fread(f, z, n) PROVE PlacesFit'
      <4>1. PICK m, line : m = (IF z = 0 THEN 0 ELSE Bytes(z, n)) /\ line = FALSE
        OBVIOUS
      <4>2. PICK g \in Gather(f, st[f], m, line) : st' = [st EXCEPT ![f] = g.to]
        BY <3>3, <4>1 DEF fread
      <4>3. m \in Nat /\ m <= SizeMax /\ line \in BOOLEAN
        <5>1. SizeMax \in Nat /\ z \in Nat /\ n \in Nat
          BY StdioAssumption
        <5>2. Bytes(z, n) \in 0 .. SizeMax
          BY <5>1, ReadSize
        <5>3. m \in 0 .. SizeMax
          BY ONLY <4>1, <5>1, <5>2
        <5>4. m \in Nat /\ m <= SizeMax
          BY ONLY <5>1, <5>3
        <5> QED
          BY <4>1, <5>4
      <4>4. g.to.pos <= PlaceMax
        BY <3>1, <4>2, <4>3, GatherFits
      <4> QED
        BY <2>1, <4>2, <4>4
    <3>4. ASSUME NEW n \in Counts, fgets(f, n) PROVE PlacesFit'
      <4>1. PICK m, line : m = (IF n <= 0 THEN 0 ELSE n - 1) /\ line = TRUE
        OBVIOUS
      <4>2. PICK g \in Gather(f, st[f], m, line) : st' = [st EXCEPT ![f] = g.to]
        BY <3>4, <4>1 DEF fgets
      <4>3. m \in Nat /\ m <= SizeMax /\ line \in BOOLEAN
        BY <4>1
      <4>4. g.to.pos <= PlaceMax
        BY <3>1, <4>2, <4>3, GatherFits
      <4> QED
        BY <2>1, <4>2, <4>4
    <3>5. ASSUME NEW c, ungetc(f, c) PROVE PlacesFit'
      <4>1. CASE st' = st
        BY <2>2, <4>1
      <4>2. CASE st' = [st EXCEPT ![f].push = c]
        <5>1. PICK r : r = [st[f] EXCEPT !.push = c]
          OBVIOUS
        <5>2. st' = [st EXCEPT ![f] = r] /\ r.pos = st[f].pos
          BY <3>1, <4>2, <5>1 DEF StdioTypeOK, StreamState
        <5> QED
          BY <2>1, <3>1, <5>2
      <4> QED
        BY <3>5, <4>1, <4>2 DEF ungetc
    <3> QED
      BY <2>10, <3>2, <3>3, <3>4, <3>5
  <2>11. ASSUME NEW f, (\E z, n \in Counts : fwrite(f, z, n)) \/ ConsoleRefuses(f)
         PROVE  PlacesFit'
    BY <2>2, <2>11 DEF fwrite, ConsoleRefuses
  <2> QED
    BY <2>6, <2>7, <2>8, <2>9, <2>10, <2>11 DEF StdioNext, StdioCalls
<1> QED
  BY <1>1, <1>2, StdioTypes, PTL DEF StdioSpec

-----------------------------------------------------------------------------
\* The streams as Streams sees them.

Seen(f, r) == [file |-> r.data, pushed |-> r.push,
               place |-> IF f = Console THEN 0 ELSE Place(r)]

AtNow == [f \in {Console} \cup Stream |->
            [file |-> st[f].data, pushed |-> st[f].push,
             place |-> IF f = Console THEN 0 ELSE Place(st[f])]]

EndNow == [f \in {Console} \cup Stream |-> f # Console /\ AtEnd(st[f])]

LEMMA SeenNow ==
  ASSUME NEW f \in {Console} \cup Stream
  PROVE  AtNow[f] = Seen(f, st[f])
BY DEF AtNow, Seen

LEMMA SeenSame ==
  ASSUME st' = st
  PROVE  AtNow' = AtNow /\ EndNow' = EndNow
BY DEF AtNow, Place, EndNow, AtEnd, Size

LEMMA SeenChanged ==
  ASSUME StdioTypeOK, NEW f \in {Console} \cup Stream, NEW r, st' = [st EXCEPT ![f] = r]
  PROVE  AtNow' = [AtNow EXCEPT ![f] = Seen(f, r)]
<1>1. st'[f] = r /\ \A g \in {Console} \cup Stream : g # f => st'[g] = st[g]
  BY DEF StdioTypeOK
<1>2. AtNow'[f] = Seen(f, r)
  <2>1. AtNow'[f] = [file |-> st'[f].data, pushed |-> st'[f].push,
                     place |-> IF f = Console THEN 0 ELSE Place(st'[f])]
    BY DEF AtNow, Place
  <2> QED
    BY <1>1, <2>1 DEF Seen
<1>3. \A g \in {Console} \cup Stream : g # f => AtNow'[g] = AtNow[g]
  BY <1>1 DEF AtNow, Place
<1>4. /\ AtNow = [g \in {Console} \cup Stream |-> AtNow[g]]
      /\ AtNow' = [g \in {Console} \cup Stream |-> AtNow'[g]]
  BY DEF AtNow
<1> HIDE DEF AtNow
<1> QED
  BY <1>2, <1>3, <1>4

\* A call that leaves the stream f in the state r marks the end as C has it.
LEMMA Marked ==
  ASSUME StdioTypeOK, NEW f \in {Console} \cup Stream, NEW r \in StreamState,
         st' = [st EXCEPT ![f] = r], NEW met, met => f # Console /\ AtEnd(r)
  PROVE  S!Marks(f, met)
<1>1. st'[f] = r /\ \A g \in {Console} \cup Stream : g # f => st'[g] = st[g]
  BY DEF StdioTypeOK
<1>2. PICK e \in BOOLEAN : e <=> f # Console /\ AtEnd(r)
  OBVIOUS
<1>3. EndNow' = [EndNow EXCEPT ![f] = e]
  <2>1. EndNow'[f] = e
    BY <1>1, <1>2 DEF EndNow, AtEnd, Size
  <2>2. \A g \in {Console} \cup Stream : g # f => EndNow'[g] = EndNow[g]
    BY <1>1 DEF EndNow, AtEnd, Size
  <2>3. /\ EndNow = [g \in {Console} \cup Stream |-> EndNow[g]]
        /\ EndNow' = [g \in {Console} \cup Stream |-> EndNow'[g]]
    BY DEF EndNow
  <2> HIDE DEF EndNow
  <2> QED
    BY <2>1, <2>2, <2>3
<1>4. AtNow'[f] = [file |-> r.data, pushed |-> r.push,
                   place |-> IF f = Console THEN 0 ELSE Place(r)]
  BY <1>1 DEF AtNow, Place
<1>5. e => /\ f # Console /\ AtNow'[f].file # NoFile /\ AtNow'[f].pushed = Eof
           /\ AtNow'[f].place >= Len(Content[AtNow'[f].file])
  <2> SUFFICES ASSUME e
               PROVE  /\ f # Console /\ AtNow'[f].file # NoFile /\ AtNow'[f].pushed = Eof
                      /\ AtNow'[f].place >= Len(Content[AtNow'[f].file])
    OBVIOUS
  <2>1. f # Console /\ r.data # NoFile /\ r.push = Eof /\ r.pos >= Len(Content[r.data])
    BY <1>2 DEF AtEnd, Size
  <2>2. Place(r) = r.pos
    BY <2>1 DEF Place, StreamState
  <2>3. /\ AtNow'[f].file = r.data /\ AtNow'[f].pushed = r.push
        /\ AtNow'[f].place = Place(r)
    BY <1>4, <2>1
  <2> QED
    BY <2>1, <2>2, <2>3
<1>6. met => e
  BY <1>2
<1> QED
  BY <1>3, <1>5, <1>6 DEF S!Marks, AtNow, EndNow, S!Console, Console

\* A read that takes all of the rest leaves the stream at its end.
LEMMA RestGone ==
  ASSUME NEW f, f # Console, NEW r \in StreamState, Readable(f, r), NEW R \in RestOf(f, r)
  PROVE  AtEnd(Moved(f, r, Len(R)))
<1>1. PICK t \in Seq(Byte) :
        /\ t = SubSeq(Content[r.data], r.pos + 1, Len(Content[r.data]))
        /\ R = (IF r.push = Eof THEN <<>> ELSE <<r.push>>) \o t
        /\ R \in Seq(Byte)
  BY RestShape
<1>2. /\ r.push = Eof => Len(R) = Len(t)
      /\ r.push # Eof => Len(R) = 1 + Len(t)
  BY <1>1, RestPlaces, SMTT(30) DEF StreamState
<1>3. /\ r.data \in DOMAIN Content /\ r.data # NoFile /\ r.pos \in Nat
      /\ Content[r.data] \in Seq(Byte) /\ Size(r) = Len(Content[r.data])
  BY StdioAssumption DEF Readable, StreamState, Size
<1>4. Len(t) = (IF r.pos < Size(r) THEN Size(r) - r.pos ELSE 0)
  BY <1>1, <1>3, SMTT(30)
<1>5. PICK k, l, n : k = Len(R) /\ l = Len(t) /\ n = Size(r)
  OBVIOUS
<1>6. k \in Nat /\ l \in Nat /\ n \in Nat /\ l = (IF r.pos < n THEN n - r.pos ELSE 0)
      /\ (r.push = Eof => k = l) /\ (r.push # Eof => k = 1 + l)
  BY <1>1, <1>2, <1>3, <1>4, <1>5
<1>7. PICK q : q = Moved(f, r, k)
  OBVIOUS
<1>8. q \in StreamState /\ q.data = r.data
  BY <1>6, <1>7, MovedType
<1>9. Size(q) = n
  BY <1>5, <1>8 DEF Size
<1>10. q.push = Eof /\ q.pos >= n
  <2>1. CASE k = 0
    <3>1. q = r /\ r.push = Eof
      BY <1>6, <1>7, <2>1 DEF Moved
    <3> QED
      BY <1>3, <1>6, <2>1, <3>1
  <2>2. CASE k # 0
    <3>1. q.push = Eof /\ q.pos = Place(r) + k
      BY <1>7, <2>2 DEF Moved, StreamState
    <3>2. Place(r) = r.pos - (IF r.push # Eof THEN 1 ELSE 0)
      BY DEF Place
    <3> QED
      BY <1>3, <1>6, <3>1, <3>2
  <2> QED
    BY <2>1, <2>2
<1> QED
  BY <1>3, <1>5, <1>7, <1>8, <1>9, <1>10 DEF AtEnd

LEMMA RestKnown ==
  ASSUME StdioTypeOK, NEW f \in {Console} \cup Stream, Readable(f, st[f])
  PROVE  RestOf(f, st[f]) \subseteq S!Rests(f)
<1>1. st[f] \in StreamState
  BY DEF StdioTypeOK
<1>2. S!Rests(f) =
        {(IF AtNow[f].pushed = Eof THEN <<>> ELSE <<AtNow[f].pushed>>) \o t :
           t \in (IF f = Console THEN [1 .. SizeMax -> Key] ELSE {})
                 \cup (IF AtNow[f].file = NoFile THEN {}
                       ELSE {SubSeq(Content[AtNow[f].file],
                                    IF AtNow[f].pushed = Eof THEN AtNow[f].place + 1
                                    ELSE AtNow[f].place + 2,
                                    Len(Content[AtNow[f].file]))})}
  BY DEF S!Rests, AtNow, S!Console, Console
<1>0. AtNow[f] = Seen(f, st[f])
  BY SeenNow
<1>3. AtNow[f].pushed = st[f].push /\ AtNow[f].file = st[f].data
  BY <1>0 DEF Seen
<1>4. CASE f = Console
  BY <1>2, <1>3, <1>4 DEF RestOf
<1>5. CASE f # Console
  <2>1. AtNow[f].place = Place(st[f])
    BY <1>0, <1>5 DEF Seen
  <2>2. (IF st[f].push = Eof THEN Place(st[f]) + 1 ELSE Place(st[f]) + 2) = st[f].pos + 1
    BY <1>1 DEF Place, StreamState
  <2>3. st[f].data # NoFile
    BY <1>5, StdioAssumption DEF Readable
  <2> QED
    BY <1>2, <1>3, <1>5, <2>1, <2>2, <2>3 DEF RestOf
<1> QED
  BY <1>4, <1>5

LEMMA Advances ==
  ASSUME StdioTypeOK, NEW f \in {Console} \cup Stream, NEW k \in Nat,
         st' = [st EXCEPT ![f] = Moved(f, st[f], k)]
  PROVE  S!Advance(f, k)
<1>1. AtNow' = [AtNow EXCEPT ![f] = Seen(f, Moved(f, st[f], k))]
  BY SeenChanged
<1>2. st[f] \in StreamState
  BY DEF StdioTypeOK
<1>3. AtNow[f] = Seen(f, st[f])
  BY SeenNow
<1>4. S!Advance(f, k) <=>
        AtNow' = IF k = 0 THEN AtNow
                 ELSE [AtNow EXCEPT ![f].place = IF f = Console THEN 0 ELSE @ + k,
                                    ![f].pushed = Eof]
  BY DEF S!Advance, AtNow, S!Console, Console
<1>5. AtNow = [g \in {Console} \cup Stream |-> AtNow[g]]
  BY DEF AtNow
<1>6. CASE k = 0
  <2>1. Moved(f, st[f], k) = st[f]
    BY <1>6 DEF Moved
  <2>2. AtNow' = AtNow
    <3> HIDE DEF AtNow
    <3> QED
      BY <1>1, <1>3, <1>5, <2>1
  <2> QED
    BY <1>4, <1>6, <2>2
<1>7. CASE k # 0
  <2>1. PICK r : r = Moved(f, st[f], k)
    OBVIOUS
  <2>2. Place(st[f]) \in Int
    BY <1>2 DEF Place, StreamState
  <2>3. /\ r.data = st[f].data /\ r.push = Eof
        /\ f # Console => r.pos = Place(st[f]) + k
    BY <1>2, <1>7, <2>1 DEF Moved, StreamState
  <2>4. Place(r) = r.pos - 0 /\ r.pos \in Nat
    BY <1>2, <2>1, <2>3, MovedType DEF Place, StreamState
  <2>5. f # Console => Place(r) = Place(st[f]) + k
    BY <2>3, <2>4
  <2>6. Seen(f, r) = [Seen(f, st[f]) EXCEPT !.place = IF f = Console THEN 0 ELSE @ + k,
                                            !.pushed = Eof]
    <3>2. PICK d : d = IF f = Console THEN 0 ELSE Seen(f, st[f]).place + k
      OBVIOUS
    <3>3. Seen(f, st[f]) = [file |-> st[f].data, pushed |-> st[f].push,
                            place |-> IF f = Console THEN 0 ELSE Place(st[f])]
      BY DEF Seen
    <3>4. d = IF f = Console THEN 0 ELSE Place(st[f]) + k
      BY <3>2, <3>3
    <3>5. Seen(f, r) = [file |-> st[f].data, pushed |-> Eof, place |-> d]
      BY <2>3, <2>5, <3>4 DEF Seen
    <3>6. [Seen(f, st[f]) EXCEPT !.place = d, !.pushed = Eof]
            = [file |-> st[f].data, pushed |-> Eof, place |-> d]
      <4>1. PICK u, v : u = Seen(f, st[f]) /\ v = [Seen(f, st[f]) EXCEPT !.place = d]
        OBVIOUS
      <4>2. v = [file |-> st[f].data, pushed |-> st[f].push, place |-> d]
        BY <3>3, <4>1
      <4>3. [v EXCEPT !.pushed = Eof] = [file |-> st[f].data, pushed |-> Eof, place |-> d]
        BY <4>2
      <4>4. [u EXCEPT !.place = d, !.pushed = Eof] = [[u EXCEPT !.place = d] EXCEPT !.pushed = Eof]
        OBVIOUS
      <4>5. [u EXCEPT !.place = d] = v
        BY <4>1
      <4> QED
        BY ONLY <4>1, <4>3, <4>4, <4>5, Zenon
    <3> QED
      BY <3>2, <3>5, <3>6
  <2>7. AtNow' = [AtNow EXCEPT ![f].place = IF f = Console THEN 0 ELSE @ + k,
                               ![f].pushed = Eof]
    <3> HIDE DEF AtNow
    <3> QED
      BY <1>1, <1>3, <1>5, <2>1, <2>6
  <2> QED
    BY <1>4, <1>7, <2>7
<1> QED
  BY <1>6, <1>7

LEMMA LesserOfTwo ==
  ASSUME NEW a \in Int, NEW b \in Int
  PROVE  S!Min({a, b}) = IF a <= b THEN a ELSE b
BY DEF S!Min

-----------------------------------------------------------------------------
\* Each call is a call of Streams.

LEMMA OpenSlots ==
  ASSUME StdioTypeOK
  PROVE  /\ \A f \in Stream : S!IsOpen(f) <=> f \notin Free
         /\ S!IsOpen(Console)
         /\ S!Stream = Stream /\ S!Console = Console /\ S!Out = stdout
<1>1. S!Stream = Stream /\ S!Console = Console /\ S!Out = stdout
  BY DEF S!Stream, Stream, S!Console, Console, S!Out, stdout
<1>2. \A f : S!IsOpen(f) <=> f = Console \/ AtNow[f].file # NoFile
  BY DEF S!IsOpen, AtNow, S!Console, Console
<1>3. \A f \in Stream : f # Console /\ AtNow[f] = Seen(f, st[f])
  BY SeenNow, StdioAssumption DEF Stream, Console
<1>4. \A f \in Stream : S!IsOpen(f) <=> st[f].data # NoFile
  <2> TAKE f \in Stream
  <2>1. AtNow[f] = Seen(f, st[f]) /\ f # Console
    BY <1>3
  <2>2. AtNow[f].file = st[f].data
    BY <2>1 DEF Seen
  <2> QED
    BY <1>2, <2>1, <2>2
<1> QED
  BY <1>1, <1>2, <1>4 DEF Free

LEMMA Unchanged ==
  ASSUME NEW fn, NEW f, NEW v, UNCHANGED st, Says(fn, f, v)
  PROVE  S!Nothing(fn, f, v)
<1>1. AtNow' = AtNow /\ EndNow' = EndNow
  BY SeenSame
<1> QED
  BY <1>1 DEF S!Nothing, S!Called, Says, AtNow, EndNow

LEMMA FreshSeen ==
  ASSUME NEW f, NEW n
  PROVE  Seen(f, Fresh(n)) = S!Opened(n)
BY DEF Seen, Fresh, Place, S!Opened

LEMMA FreshType ==
  ASSUME NEW n \in DOMAIN Content \cup {NoFile}
  PROVE  Fresh(n) \in StreamState
BY DEF Fresh, StreamState

LEMMA Opens ==
  ASSUME StdioTypeOK, NEW n \in DOMAIN Content, fopen(n)
  PROVE  S!Open(n)
<1>1. CASE Free = {}
  <2>1. S!Nothing("fopen", 0, n)
    BY <1>1, Unchanged DEF fopen
  <2>2. \A f \in S!Stream : S!IsOpen(f)
    BY <1>1, OpenSlots
  <2> QED
    BY <2>1, <2>2 DEF S!Open
<1>2. CASE Free # {}
  <2>0. PICK i : /\ i = (CHOOSE f \in Free : \A g \in Free : f <= g)
                 /\ st' = [st EXCEPT ![i] = Fresh(n)] /\ Says("fopen", i, n)
    BY <1>2 DEF fopen
  <2>1. Free \in SUBSET Nat
    BY StdioAssumption DEF Free, Stream
  <2>2. \E f \in Free : \A g \in Free : f <= g
    BY <1>2, <2>1, LeastNatural
  <2>3. i \in Free
    BY <2>0, <2>2
  <2>4. i \in Stream /\ ~ S!IsOpen(i)
    BY <2>3, OpenSlots DEF Free
  <2>5. AtNow' = [AtNow EXCEPT ![i] = S!Opened(n)]
    <3>1. i \in {Console} \cup Stream /\ Seen(i, Fresh(n)) = S!Opened(n)
      BY <2>4, FreshSeen
    <3>2. PICK r : r = Fresh(n)
      OBVIOUS
    <3>3. st' = [st EXCEPT ![i] = r]
      BY <2>0, <3>2
    <3>4. AtNow' = [AtNow EXCEPT ![i] = Seen(i, r)]
      BY ONLY <3>1, <3>3, StdioTypeOK, SeenChanged
    <3> QED
      BY <3>1, <3>2, <3>4
  <2>8. S!Marks(i, FALSE)
    <3>1. i \in {Console} \cup Stream /\ Fresh(n) \in StreamState
      BY <2>4, FreshType
    <3>2. PICK r \in StreamState : r = Fresh(n)
      BY <3>1
    <3>3. st' = [st EXCEPT ![i] = r]
      BY <2>0, <3>2
    <3>4. PICK met \in BOOLEAN : met = FALSE
      OBVIOUS
    <3>5. S!Marks(i, met)
      BY <3>1, <3>3, <3>4, Marked
    <3> QED
      BY <3>4, <3>5
  <2>6. S!Called("fopen", i) /\ ret' = n
    BY <2>0 DEF Says, S!Called
  <2>7. i \in S!Stream
    BY <2>4, OpenSlots
  <2> QED
    BY <2>4, <2>5, <2>6, <2>7, <2>8 DEF S!Open, AtNow
<1> QED
  BY <1>1, <1>2

\* freopen and fclose.
LEMMA Becoming ==
  ASSUME StdioTypeOK, NEW f \in {Console} \cup Stream, NEW n \in DOMAIN Content \cup {NoFile},
         NEW fn, NEW v, st' = [st EXCEPT ![f] = Fresh(n)], Says(fn, f, v)
  PROVE  S!Becomes(fn, f, n, v)
<1>1. PICK r \in StreamState : r = Fresh(n)
  <2>1. Fresh(n) \in StreamState
    BY FreshType
  <2> QED
    BY <2>1
<1>2. st' = [st EXCEPT ![f] = r]
  BY <1>1
<1>3. AtNow' = [AtNow EXCEPT ![f] = S!Opened(n)]
  <2>1. AtNow' = [AtNow EXCEPT ![f] = Seen(f, r)]
    BY <1>2, SeenChanged
  <2>2. Seen(f, r) = S!Opened(n)
    BY <1>1, FreshSeen
  <2> QED
    BY <2>1, <2>2
<1>4. PICK met \in BOOLEAN : met = FALSE
  OBVIOUS
<1>5. S!Marks(f, met)
  BY <1>2, <1>4, Marked
<1> QED
  BY <1>3, <1>4, <1>5 DEF S!Becomes, Says, S!Called, AtNow

LEMMA Reopens ==
  ASSUME StdioTypeOK, NEW f \in {Console} \cup Stream, NEW n \in DOMAIN Content, freopen(f, n)
  PROVE  S!Reopen(f, n)
BY Becoming DEF freopen, S!Reopen

LEMMA Closes ==
  ASSUME StdioTypeOK, NEW f \in {Console} \cup Stream, fclose(f)
  PROVE  S!Close(f)
BY Becoming DEF fclose, S!Close

LEMMA ReadableNow ==
  ASSUME StdioTypeOK, NEW f \in {Console} \cup (Stream \ Free)
  PROVE  /\ f \in {Console} \cup Stream /\ st[f] \in StreamState /\ Readable(f, st[f])
         /\ S!IsOpen(f) /\ f \in S!Stream \cup {S!Console}
<1>1. f \in {Console} \cup Stream /\ st[f] \in StreamState
  BY DEF StdioTypeOK
<1> QED
  BY <1>1, OpenSlots DEF Readable, Free, StreamState

LEMMA Reads ==
  ASSUME StdioTypeOK, NEW f \in {Console} \cup (Stream \ Free),
         NEW z \in Counts, NEW n \in Counts, fread(f, z, n)
  PROVE  S!Read(f, z, n)
<1>0. z \in Nat /\ n \in Nat
  BY StdioAssumption
<1>1. PICK m : m = IF z = 0 THEN 0 ELSE Bytes(z, n)
  OBVIOUS
<1>2. PICK g \in Gather(f, st[f], m, FALSE) :
        /\ st' = [st EXCEPT ![f] = g.to]
        /\ Says("fread", f, <<IF z = 0 THEN 0 ELSE Len(g.got) \div z, g.got>>)
  BY <1>1 DEF fread
<1>3. PICK p : p = z * n
  OBVIOUS
<1>4. /\ m \in Nat /\ m <= SizeMax /\ p \in Nat /\ m <= p /\ (p <= SizeMax => m = p)
      /\ FALSE \in BOOLEAN
  <2>1. CASE z = 0
    <3>1. p = 0 /\ m = 0
      BY <1>0, <1>1, <1>3, <2>1
    <3> QED
      BY <3>1, StdioAssumption
  <2>2. CASE z # 0
    <3>1. m \in 0 .. SizeMax /\ p \in Nat /\ m <= p /\ (p <= SizeMax => m = p)
      BY <1>0, <1>1, <1>3, <2>2, ReadSize
    <3> QED
      BY <3>1
  <2> QED
    BY <2>1, <2>2
<1>5. f \in {Console} \cup Stream /\ st[f] \in StreamState /\ Readable(f, st[f])
  BY ReadableNow
<1>6. PICK R \in RestOf(f, st[f]), k \in Nat :
        /\ k <= Len(R) /\ k <= m /\ g.got = SubSeq(R, 1, k) /\ g.to = Moved(f, st[f], k)
        /\ k = m \/ k = Len(R)
  <2>1. PICK line : line = FALSE
    OBVIOUS
  <2>2. line \in BOOLEAN /\ g \in Gather(f, st[f], m, line)
    BY <1>2, <2>1
  <2>3. \E R \in RestOf(f, st[f]), k \in Nat :
              /\ k <= Len(R) /\ k <= m /\ g.got = SubSeq(R, 1, k) /\ g.to = Moved(f, st[f], k)
              /\ k = m \/ k = Len(R) \/ (line /\ k > 0 /\ R[k] = NL)
              /\ line => \A j \in 1 .. k - 1 : R[j] # NL
    BY ONLY <1>4, <1>5, <2>2, GatherShape
  <2> QED
    BY <2>1, <2>3
<1>7. R \in Seq(Byte)
  BY <1>5, RestShape
<1>8. PICK l \in Nat : l = Len(R)
  BY <1>7
<1>9. Len(g.got) = k
  BY <1>6, <1>7
<1>10. S!Advance(f, k)
  BY <1>2, <1>5, <1>6, Advances
<1>11. R \in S!Rests(f)
  BY <1>5, <1>6, RestKnown
<1>12. k \in 0 .. Len(R) /\ k <= z * n
  BY <1>3, <1>4, <1>6, <1>8
<1>13. z * n <= SizeMax => k = S!Min({z * n, Len(R)})
  <2>1. S!Min({p, l}) = IF p <= l THEN p ELSE l
    BY <1>4, LesserOfTwo
  <2>2. p <= SizeMax => k = IF p <= l THEN p ELSE l
    BY <1>4, <1>6, <1>8
  <2> QED
    BY <1>3, <1>8, <2>1, <2>2
<1>14. ret' = <<IF z = 0 THEN 0 ELSE k \div z, SubSeq(R, 1, k)>>
  BY <1>2, <1>6, <1>9 DEF Says
<1>15. S!Called("fread", f)
  BY <1>2 DEF Says, S!Called
<1>16. S!Marks(f, f # Console /\ z * n <= SizeMax /\ k < z * n)
  <2>1. PICK met \in BOOLEAN : met = (f # Console /\ z * n <= SizeMax /\ k < z * n)
    OBVIOUS
  <2>2. PICK r : r = Moved(f, st[f], k)
    OBVIOUS
  <2>3. r \in StreamState
    BY <1>5, <1>6, <2>2, MovedType
  <2>4. met => f # Console /\ k = Len(R)
    <3>1. met => f # Console /\ p <= SizeMax /\ k < p
      BY <1>3, <2>1
    <3>2. met => k # m
      BY <1>4, <3>1
    <3> QED
      BY <1>6, <3>1, <3>2
  <2>5. met => f # Console /\ AtEnd(r)
    BY <1>5, <1>6, <2>2, <2>4, RestGone
  <2>6. st' = [st EXCEPT ![f] = r]
    BY <1>2, <1>6, <2>2
  <2>7. S!Marks(f, met)
    BY <1>5, <2>3, <2>5, <2>6, Marked
  <2> QED
    BY <2>1, <2>7
<1> QED
  BY <1>10, <1>11, <1>12, <1>13, <1>14, <1>15, <1>16 DEF S!Read, S!Console, Console

LEMMA Lines ==
  ASSUME StdioTypeOK, NEW f \in {Console} \cup (Stream \ Free), NEW n \in Counts, fgets(f, n)
  PROVE  S!Line(f, n)
<1>0. n \in Nat /\ n <= SizeMax /\ SizeMax \in Nat
  BY StdioAssumption
<1>1. PICK m : m = IF n <= 0 THEN 0 ELSE n - 1
  OBVIOUS
<1>2. PICK g \in Gather(f, st[f], m, TRUE) :
        st' = [st EXCEPT ![f] = g.to] /\ Says("fgets", f, g.got)
  BY <1>1 DEF fgets
<1>3. m \in Nat /\ m <= SizeMax /\ TRUE \in BOOLEAN
  BY <1>0, <1>1
<1>5. f \in {Console} \cup Stream /\ st[f] \in StreamState /\ Readable(f, st[f])
  BY ReadableNow
<1>6. PICK R \in RestOf(f, st[f]), k \in Nat :
        /\ k <= Len(R) /\ k <= m /\ g.got = SubSeq(R, 1, k) /\ g.to = Moved(f, st[f], k)
        /\ k = m \/ k = Len(R) \/ (k > 0 /\ R[k] = NL)
        /\ \A j \in 1 .. k - 1 : R[j] # NL
  <2>1. PICK line : line = TRUE
    OBVIOUS
  <2>2. line \in BOOLEAN /\ g \in Gather(f, st[f], m, line)
    BY <1>2, <2>1
  <2>3. \E R \in RestOf(f, st[f]), k \in Nat :
              /\ k <= Len(R) /\ k <= m /\ g.got = SubSeq(R, 1, k) /\ g.to = Moved(f, st[f], k)
              /\ k = m \/ k = Len(R) \/ (line /\ k > 0 /\ R[k] = NL)
              /\ line => \A j \in 1 .. k - 1 : R[j] # NL
    BY ONLY <1>3, <1>5, <2>2, GatherShape
  <2> QED
    BY <2>1, <2>3
<1>7. PICK l \in Nat : l = Len(R)
  <2>1. R \in Seq(Byte)
    BY <1>5, RestShape
  <2> QED
    BY <2>1
<1>8. S!Advance(f, k)
  BY <1>2, <1>5, <1>6, Advances
<1>9. R \in S!Rests(f)
  BY <1>5, <1>6, RestKnown
<1>10. PICK fits : fits = S!Min({n - 1, Len(R)})
  OBVIOUS
<1>11. fits = IF n - 1 <= l THEN n - 1 ELSE l
  <2>1. n - 1 \in Int /\ l \in Int
    BY <1>0
  <2> QED
    BY <1>7, <1>10, <2>1, LesserOfTwo
<1> DEFINE ends == {i \in 1 .. fits : R[i] = NL}
<1>12. k = IF n <= 1 THEN 0 ELSE IF ends = {} THEN fits ELSE S!Min(ends)
  <2>1. CASE n <= 1
    BY <1>0, <1>1, <1>6, <2>1
  <2>2. CASE n > 1
    <3>1. m = n - 1 /\ k <= fits /\ fits \in Nat
      BY <1>0, <1>1, <1>6, <1>7, <1>11, <2>2
    <3>2. CASE k > 0 /\ R[k] = NL
      <4>1. k \in ends
        BY <3>1, <3>2
      <4>2. \A j \in ends : k <= j
        <5> SUFFICES ASSUME NEW j \in ends, ~ (k <= j) PROVE FALSE
          OBVIOUS
        <5>1. j \in 1 .. k - 1 /\ R[j] = NL
          OBVIOUS
        <5> QED
          BY <1>6, <5>1
      <4>3. \A x \in ends : (\A j \in ends : x <= j) => x = k
        <5> SUFFICES ASSUME NEW x \in ends, \A j \in ends : x <= j PROVE x = k
          OBVIOUS
        <5>1. x <= k /\ k <= x /\ x \in Nat
          BY <4>1, <4>2
        <5> QED
          BY <5>1
      <4>4. S!Min(ends) = k
        <5> HIDE DEF ends
        <5> QED
          BY <4>1, <4>2, <4>3 DEF S!Min
      <4> QED
        <5>1. ~ (n <= 1) /\ ends # {}
          BY <1>0, <2>2, <4>1
        <5> HIDE DEF ends
        <5> QED
          BY <4>4, <5>1
    <3>3. CASE ~ (k > 0 /\ R[k] = NL)
      <4>1. k = fits
        BY <1>0, <1>6, <1>7, <1>11, <3>1, <3>3
      <4>2. ends = {}
        <5> SUFFICES ASSUME NEW j \in 1 .. fits, R[j] = NL PROVE FALSE
          OBVIOUS
        <5>1. j = k \/ j \in 1 .. k - 1
          BY <3>1, <4>1
        <5> QED
          BY <1>6, <3>3, <4>1, <5>1
      <4> QED
        <5>1. ~ (n <= 1)
          BY <1>0, <2>2
        <5> HIDE DEF ends
        <5> QED
          BY <4>1, <4>2, <5>1
    <3> QED
      BY <3>2, <3>3
  <2> QED
    BY <1>0, <2>1, <2>2
<1>13. ret' = SubSeq(R, 1, k) /\ S!Called("fgets", f)
  BY <1>2, <1>6 DEF Says, S!Called
<1>14. S!Marks(f, f # Console /\ ends = {} /\ k < n - 1)
  <2>1. PICK met \in BOOLEAN : met = (f # Console /\ ends = {} /\ k < n - 1)
    OBVIOUS
  <2>2. PICK r : r = Moved(f, st[f], k)
    OBVIOUS
  <2>3. r \in StreamState
    BY <1>5, <1>6, <2>2, MovedType
  <2>4. met => f # Console /\ k = Len(R)
    <3> SUFFICES ASSUME met PROVE k = Len(R)
      BY <2>1
    <3>1. ends = {} /\ k < n - 1
      BY <2>1
    <3>2. ~ (n <= 1)
      BY <1>0, <3>1
    <3>3. k = fits
      <4> HIDE DEF ends
      <4> QED
        BY <1>12, <3>1, <3>2
    <3> QED
      BY <1>0, <1>7, <1>11, <3>1, <3>3
  <2>5. met => f # Console /\ AtEnd(r)
    BY <1>5, <1>6, <2>2, <2>4, RestGone
  <2>6. st' = [st EXCEPT ![f] = r]
    BY <1>2, <1>6, <2>2
  <2>7. S!Marks(f, met)
    BY <1>5, <2>3, <2>5, <2>6, Marked
  <2> QED
    BY <2>1, <2>7
<1> QED
  BY <1>8, <1>9, <1>10, <1>12, <1>13, <1>14 DEF S!Line, S!Console, Console

LEMMA PushesBack ==
  ASSUME StdioTypeOK, NEW f \in {Console} \cup Stream, NEW c \in Pushes \cup {Eof},
         ungetc(f, c)
  PROVE  S!PushBack(f, c)
<1>1. AtNow[f] = Seen(f, st[f]) /\ st[f] \in StreamState
  BY SeenNow DEF StdioTypeOK
<1>2. AtNow[f].pushed = st[f].push
  BY <1>1 DEF Seen
<1>3. CASE c = Eof \/ st[f].push # Eof
  <2>1. S!Nothing("ungetc", f, Eof)
    BY <1>3, Unchanged DEF ungetc
  <2> QED
    BY <1>2, <1>3, <2>1 DEF S!PushBack, AtNow
<1>4. CASE ~ (c = Eof \/ st[f].push # Eof)
  <2>1. st' = [st EXCEPT ![f].push = c] /\ Says("ungetc", f, c)
    BY <1>4 DEF ungetc
  <2>2. PICK r : r = [st[f] EXCEPT !.push = c]
    OBVIOUS
  <2>3. st' = [st EXCEPT ![f] = r]
    BY <2>1, <2>2 DEF StdioTypeOK
  <2>4. AtNow' = [AtNow EXCEPT ![f] = Seen(f, r)]
    BY <2>3, SeenChanged
  <2>5. r.data = st[f].data /\ r.pos = st[f].pos /\ r.push = c
    BY <1>1, <2>2 DEF StreamState
  <2>6. PICK d : d = IF f = Console THEN 0 ELSE AtNow[f].place - 1
    OBVIOUS
  <2>7. Seen(f, r) = [file |-> st[f].data, pushed |-> c, place |-> d]
    <3>1. Place(r) = Place(st[f]) - 1
      BY <1>1, <1>4, <2>5 DEF Place, StreamState
    <3>2. f # Console => AtNow[f].place = Place(st[f])
      BY <1>1 DEF Seen
    <3> QED
      BY <2>5, <2>6, <3>1, <3>2 DEF Seen
  <2>8. [AtNow[f] EXCEPT !.pushed = c, !.place = d] = [file |-> st[f].data, pushed |-> c, place |-> d]
    <3>1. PICK u, v : u = AtNow[f] /\ v = [AtNow[f] EXCEPT !.pushed = c]
      OBVIOUS
    <3>2. v = [file |-> st[f].data, pushed |-> c, place |-> IF f = Console THEN 0 ELSE Place(st[f])]
      BY <1>1, <3>1 DEF Seen
    <3>3. [v EXCEPT !.place = d] = [file |-> st[f].data, pushed |-> c, place |-> d]
      BY <3>2
    <3>4. [u EXCEPT !.pushed = c, !.place = d] = [[u EXCEPT !.pushed = c] EXCEPT !.place = d]
      OBVIOUS
    <3>5. [u EXCEPT !.pushed = c] = v
      BY <3>1
    <3> QED
      BY ONLY <3>1, <3>3, <3>4, <3>5, Zenon
  <2>9. AtNow' = [AtNow EXCEPT ![f].pushed = c,
                               ![f].place = IF f = Console THEN 0 ELSE @ - 1]
    <3>1. AtNow = [g \in {Console} \cup Stream |-> AtNow[g]]
      BY DEF AtNow
    <3> HIDE DEF AtNow
    <3> QED
      BY <2>4, <2>6, <2>7, <2>8, <3>1
  <2>10. S!Called("ungetc", f) /\ ret' = c
    BY <2>1 DEF Says, S!Called
  <2>11. S!Marks(f, FALSE)
    <3>1. PICK met \in BOOLEAN : met = FALSE
      OBVIOUS
    <3>2. r \in StreamState
      BY <1>1, <2>2, StdioAssumption DEF StreamState
    <3>3. S!Marks(f, met)
      BY <2>3, <3>1, <3>2, Marked
    <3> QED
      BY <3>1, <3>3
  <2> QED
    BY <1>2, <1>4, <2>9, <2>10, <2>11 DEF S!PushBack, AtNow, S!Console, Console
<1> QED
  BY <1>3, <1>4

LEMMA Seeks ==
  ASSUME StdioTypeOK, PlacesFit, NEW f \in Stream \ Free, NEW off \in Offsets, NEW w,
         fseek(f, off, w)
  PROVE  S!Seek(f, off, w)
<1>1. /\ f \in {Console} \cup Stream /\ st[f] \in StreamState
      /\ f # Console /\ st[f].data \in DOMAIN Content /\ st[f].pos <= PlaceMax
  BY ReadableNow, StdioAssumption DEF Readable, Stream, Console, PlacesFit
<1>2. PICK q : q = Target(st[f], off, w)
  OBVIOUS
<1>3. IF q < 0 THEN UNCHANGED st /\ Says("fseek", f, -1)
      ELSE st' = [st EXCEPT ![f].pos = q, ![f].push = Eof] /\ Says("fseek", f, 0)
  BY <1>2 DEF fseek
<1>4. AtNow[f] = Seen(f, st[f])
  BY <1>1, SeenNow
<1>5. AtNow[f].place = Place(st[f]) /\ AtNow[f].file = st[f].data
  BY <1>1, <1>4 DEF Seen
<1>6. PICK a, n : a = Place(st[f]) /\ n = Size(st[f])
  OBVIOUS
<1>7. /\ a \in Int /\ -1 <= a /\ a <= PlaceMax /\ n \in Nat /\ n <= PlaceMax
      /\ off \in Int /\ - PlaceMax - 1 <= off /\ off <= PlaceMax
      /\ q \in Int /\ q <= PlaceMax /\ PlaceMax \in Nat
  BY <1>1, <1>2, <1>6, TargetFits, StdioAssumption
\* The place that was asked for.
<1>8. PICK p : p = off + CASE w = 0 -> 0 [] w = 1 -> AtNow[f].place
                           [] w = 2 -> Len(Content[AtNow[f].file]) [] OTHER -> -1 - off
  OBVIOUS
<1>9. p = off + CASE w = 0 -> 0 [] w = 1 -> a [] w = 2 -> n [] OTHER -> -1 - off
  BY <1>5, <1>6, <1>8 DEF Size
<1>10. q = CASE w = 0 -> off [] w = 1 -> Long(a + off) [] w = 2 -> Long(n + off) [] OTHER -> -1
  BY <1>2, <1>6 DEF Target
<1>11. \/ p \in 0 .. PlaceMax /\ q = p
       \/ p \notin 0 .. PlaceMax /\ q < 0
       \/ p < - PlaceMax - 1 /\ q = PlaceMax
  <2>1. CASE w = 0
    BY <1>7, <1>9, <1>10, <2>1
  <2>2. CASE w = 1
    <3>1. p = off + a /\ q = Long(a + off)
      BY <1>9, <1>10, <2>2
    <3> QED
      BY <1>7, <3>1 DEF Long
  <2>3. CASE w = 2
    <3>1. p = off + n /\ q = Long(n + off)
      BY <1>9, <1>10, <2>3
    <3> QED
      BY <1>7, <3>1 DEF Long
  <2>4. CASE w \notin {0, 1, 2}
    <3>1. p = off + (-1 - off) /\ q = -1
      BY <1>9, <1>10, <2>4
    <3> QED
      BY <1>7, <3>1
  <2> QED
    BY <2>1, <2>2, <2>3, <2>4
<1>12. S!Called("fseek", f)
  BY <1>3 DEF Says, S!Called
<1>13. q < 0 => ret' = -1 /\ AtNow' = AtNow /\ EndNow' = EndNow
  BY <1>3, SeenSame DEF Says
<1>14. ASSUME ~ (q < 0)
       PROVE  /\ ret' = 0 /\ S!Marks(f, FALSE)
              /\ AtNow' = [AtNow EXCEPT ![f].place = q, ![f].pushed = Eof]
  <2>1. st' = [st EXCEPT ![f].pos = q, ![f].push = Eof] /\ Says("fseek", f, 0)
    BY <1>3, <1>14
  <2>2. PICK r : r = [st[f] EXCEPT !.pos = q, !.push = Eof]
    OBVIOUS
  <2>3. st' = [st EXCEPT ![f] = r]
    BY <2>1, <2>2 DEF StdioTypeOK
  <2>4. AtNow' = [AtNow EXCEPT ![f] = Seen(f, r)]
    BY <1>1, <2>3, SeenChanged
  <2>5. r.data = st[f].data /\ r.pos = q /\ r.push = Eof /\ r \in StreamState
    <3>1. q \in Nat
      BY <1>7, <1>14
    <3> QED
      BY <1>1, <2>2, <3>1 DEF StreamState
  <2>6. Place(r) = q
    BY <1>7, <2>5 DEF Place
  <2>7. Seen(f, r) = [file |-> st[f].data, pushed |-> Eof, place |-> q]
    BY <1>1, <2>5, <2>6 DEF Seen
  <2>8. [AtNow[f] EXCEPT !.place = q, !.pushed = Eof]
          = [file |-> st[f].data, pushed |-> Eof, place |-> q]
    <3>1. PICK u, v : u = AtNow[f] /\ v = [AtNow[f] EXCEPT !.place = q]
      OBVIOUS
    <3>2. v = [file |-> st[f].data, pushed |-> st[f].push, place |-> q]
      BY <1>4, <3>1 DEF Seen
    <3>3. [v EXCEPT !.pushed = Eof] = [file |-> st[f].data, pushed |-> Eof, place |-> q]
      BY <3>2
    <3>4. [u EXCEPT !.place = q, !.pushed = Eof] = [[u EXCEPT !.place = q] EXCEPT !.pushed = Eof]
      OBVIOUS
    <3>5. [u EXCEPT !.place = q] = v
      BY <3>1
    <3> QED
      BY ONLY <3>1, <3>3, <3>4, <3>5, Zenon
  <2>9. AtNow' = [AtNow EXCEPT ![f].place = q, ![f].pushed = Eof]
    <3>1. AtNow = [g \in {Console} \cup Stream |-> AtNow[g]]
      BY DEF AtNow
    <3> HIDE DEF AtNow
    <3> QED
      BY <2>4, <2>7, <2>8, <3>1
  <2>10. PICK met \in BOOLEAN : met = FALSE
    OBVIOUS
  <2>11. S!Marks(f, met)
    BY <1>1, <2>3, <2>5, <2>10, Marked
  <2> QED
    BY <2>1, <2>9, <2>10, <2>11 DEF Says
<1>15. \/ p \in 0 .. PlaceMax /\ ret' = 0 /\ S!Marks(f, FALSE)
          /\ AtNow' = [AtNow EXCEPT ![f].place = p, ![f].pushed = Eof]
       \/ p \notin 0 .. PlaceMax /\ ret' = -1 /\ AtNow' = AtNow /\ EndNow' = EndNow
       \/ p < - PlaceMax - 1 /\ ret' = 0 /\ S!Marks(f, FALSE)
          /\ AtNow' = [AtNow EXCEPT ![f].place = PlaceMax, ![f].pushed = Eof]
  <2>1. CASE p \in 0 .. PlaceMax /\ q = p
    <3>1. ~ (q < 0)
      BY <1>7, <2>1
    <3> QED
      BY <1>14, <2>1, <3>1
  <2>2. CASE p \notin 0 .. PlaceMax /\ q < 0
    BY <1>13, <2>2
  <2>3. CASE p < - PlaceMax - 1 /\ q = PlaceMax
    <3>1. ~ (q < 0)
      BY <1>7, <2>3
    <3> QED
      BY <1>14, <2>3, <3>1
  <2> QED
    BY <1>11, <2>1, <2>2, <2>3
<1> HIDE DEF AtNow
<1>16. S!Seek(f, off, w) <=>
         /\ S!Called("fseek", f)
         /\ \/ p \in 0 .. PlaceMax /\ ret' = 0 /\ S!Marks(f, FALSE)
               /\ AtNow' = [AtNow EXCEPT ![f].place = p, ![f].pushed = Eof]
            \/ p \notin 0 .. PlaceMax /\ ret' = -1 /\ AtNow' = AtNow /\ EndNow' = EndNow
            \/ p < - PlaceMax - 1 /\ ret' = 0 /\ S!Marks(f, FALSE)
               /\ AtNow' = [AtNow EXCEPT ![f].place = PlaceMax, ![f].pushed = Eof]
  BY <1>8 DEF S!Seek, AtNow, EndNow
<1> QED
  BY <1>12, <1>15, <1>16

LEMMA Tells ==
  ASSUME StdioTypeOK, NEW f \in Stream \ Free
  PROVE  /\ ftell(f) => S!Nothing("ftell", f, AtNow[f].place)
         /\ feof(f) => S!Nothing("feof", f, EndNow[f])
<1>1. f \in {Console} \cup Stream /\ st[f] \in StreamState /\ f # Console
      /\ st[f].data # NoFile
  BY ReadableNow, StdioAssumption DEF Free, Stream, Console
<1>2. AtNow[f] = Seen(f, st[f])
  BY <1>1, SeenNow
<1>3. AtNow[f].place = Place(st[f])
  BY <1>1, <1>2 DEF Seen
<1>4. ASSUME ftell(f) PROVE S!Nothing("ftell", f, AtNow[f].place)
  BY <1>3, <1>4, Unchanged DEF ftell
<1>5. ASSUME feof(f) PROVE S!Nothing("feof", f, EndNow[f])
  <2>1. EndNow[f] = (st[f].push = Eof /\ st[f].pos >= Size(st[f]))
    BY <1>1 DEF EndNow, AtEnd
  <2>2. UNCHANGED st /\ Says("feof", f, st[f].push = Eof /\ st[f].pos >= Size(st[f]))
    BY <1>5 DEF feof
  <2>3. PICK v : v = EndNow[f]
    OBVIOUS
  <2>4. UNCHANGED st /\ Says("feof", f, v)
    BY ONLY <2>1, <2>2, <2>3, Zenon
  <2>5. S!Nothing("feof", f, v)
    BY <2>4, Unchanged
  <2> QED
    BY <2>3, <2>5
<1> QED
  BY <1>4, <1>5

LEMMA Writes ==
  ASSUME NEW f, NEW z \in Counts, NEW n \in Counts, fwrite(f, z, n)
  PROVE  S!Write(f, z, n)
<1>0. z \in Nat /\ n \in Nat
  BY StdioAssumption
<1>1. PICK k : k = IF z = 0 \/ n = 0 \/ f # stdout THEN 0 ELSE Bytes(z, n) \div z
  OBVIOUS
<1>2. S!Nothing("fwrite", f, k)
  BY <1>1, Unchanged DEF fwrite
<1>3. /\ k \in 0 .. n
      /\ (f # stdout \/ z = 0) => k = 0
      /\ (f = stdout /\ z # 0 /\ z * n <= SizeMax) => k = n
  <2>1. CASE z = 0 \/ n = 0 \/ f # stdout
    BY <1>0, <1>1, <2>1
  <2>2. CASE ~ (z = 0 \/ n = 0 \/ f # stdout)
    <3>1. PICK b : b = Bytes(z, n)
      OBVIOUS
    <3>2. b \in Nat /\ b <= z * n /\ (z * n <= SizeMax => b = z * n)
      BY <1>0, <3>1, ReadSize
    <3>3. k = b \div z
      BY <1>1, <2>2, <3>1
    <3>4. PICK y \in Nat \ {0}, q \in Int : y = z /\ q = b \div y
      <4>1. PICK y \in Nat \ {0} : y = z
        BY <1>0, <2>2
      <4>2. b \div y \in Int
        BY <3>2
      <4> QED
        BY <4>1, <4>2
    <3>5. q \in Int /\ b = q * y + (b % y) /\ b % y \in 0 .. y - 1
      BY <3>2, <3>4
    <3>6. PICK e \in 0 .. y - 1, a \in Int : a = q * y /\ b = a + e
      BY <3>5
    <3>7. PICK c : c = y * n
      OBVIOUS
    <3>8. c \in Nat /\ b <= c /\ a \in Int
      BY <1>0, <3>2, <3>4, <3>5, <3>6, <3>7
    <3>9. q >= 0
      <4>1. CASE q <= -1
        <5>1. a <= - y
          BY <3>5, <3>6, <4>1
        <5> QED
          BY <3>2, <3>6, <3>8, <5>1
      <4> QED
        BY <3>5, <4>1
    <3>10. q <= n /\ (b = y * n => q = n)
      <4>1. CASE q >= n + 1
        <5>1. a >= (n + 1) * y
          BY <1>0, <3>5, <3>6, <4>1
        <5>2. (n + 1) * y = c + y
          BY <1>0, <3>7
        <5> QED
          BY <3>2, <3>6, <3>8, <5>1, <5>2
      <4>2. CASE q <= n - 1 /\ b = c
        <5>1. a <= (n - 1) * y
          BY <1>0, <3>5, <3>6, <4>2
        <5>2. (n - 1) * y = c - y
          BY <1>0, <3>7
        <5> QED
          BY <3>2, <3>6, <3>8, <4>2, <5>1, <5>2
      <4> QED
        BY <1>0, <3>5, <3>7, <4>1, <4>2
    <3>11. k = q
      BY <3>3, <3>4
    <3> QED
      BY <1>0, <2>2, <3>2, <3>4, <3>5, <3>9, <3>10, <3>11
  <2> QED
    BY <2>1, <2>2
<1>4. S!Out = stdout
  BY DEF S!Out, stdout
<1> QED
  BY <1>2, <1>3, <1>4 DEF S!Write

LEMMA Refuses ==
  ASSUME NEW f, ConsoleRefuses(f)
  PROVE  S!Refused(f)
<1>1. UNCHANGED st
  BY DEF ConsoleRefuses
<1>2. ASSUME NEW fn, NEW v, Says(fn, f, v),
             NEW C, <<fn, v>> \in C
      PROVE  \E c \in C : S!Nothing(c[1], f, c[2])
  <2>1. S!Nothing(fn, f, v)
    BY <1>1, <1>2, Unchanged
  <2>2. PICK c \in C : c[1] = fn /\ c[2] = v
    BY <1>2
  <2> QED
    BY <2>1, <2>2
<1> DEFINE C == {<<"fclose", 0>>, <<"ftell", -1>>, <<"fseek", -1>>, <<"feof", FALSE>>}
           D == {<<"fread", <<0, <<>>>>>>, <<"fgets", <<>>>>, <<"ungetc", Eof>>}
<1>3. /\ <<"fclose", 0>> \in C /\ <<"ftell", -1>> \in C /\ <<"fseek", -1>> \in C
      /\ <<"feof", FALSE>> \in C
      /\ <<"fread", <<0, <<>>>>>> \in D /\ <<"fgets", <<>>>> \in D /\ <<"ungetc", Eof>> \in D
  OBVIOUS
<1>4. S!Refused(f) <=> \/ \E c \in C : S!Nothing(c[1], f, c[2])
                       \/ f = S!Out /\ \E c \in D : S!Nothing(c[1], f, c[2])
  BY DEF S!Refused
<1> HIDE DEF C, D
<1>5. CASE Says("fclose", f, 0)
  BY <1>2, <1>3, <1>4, <1>5
<1>6. CASE Says("ftell", f, -1)
  BY <1>2, <1>3, <1>4, <1>6
<1>7. CASE Says("fseek", f, -1)
  BY <1>2, <1>3, <1>4, <1>7
<1>8. CASE Says("feof", f, FALSE)
  BY <1>2, <1>3, <1>4, <1>8
<1>9. CASE f = stdout /\ (Says("fread", f, <<0, <<>>>>) \/ Says("fgets", f, <<>>)
                            \/ Says("ungetc", f, Eof))
  <2>1. f = S!Out
    BY <1>9 DEF S!Out, stdout
  <2>2. \E c \in D : S!Nothing(c[1], f, c[2])
    BY <1>2, <1>3, <1>9
  <2> QED
    BY <1>4, <2>1, <2>2
<1> QED
  BY <1>5, <1>6, <1>7, <1>8, <1>9 DEF ConsoleRefuses

\* The streams of stdio.c are the streams of C, but for the departures that
\* Streams names: a push back moves the place back by one and is read first, a
\* read takes the front of the rest and marks the end that it met, a seek goes
\* to every place that a long can hold and drops the push back, and no call
\* disturbs another stream, whatever the number of slots, the files, the widths
\* of size_t and long, the sizes asked for and what is typed.
THEOREM StreamsImplemented == StdioSpec => ImplementsStreams
<1>1. StdioInit => S!Init
  <2> SUFFICES ASSUME StdioInit PROVE S!Init
    OBVIOUS
  <2>1. st = [f \in {Console} \cup Stream |-> Fresh(NoFile)] /\ last = <<>> /\ ret = 0
    BY DEF StdioInit
  <2>2. AtNow = [f \in {Console} \cup Stream |-> Seen(f, Fresh(NoFile))]
    BY <2>1 DEF AtNow, Seen
  <2>3. AtNow = [f \in {Console} \cup Stream |-> S!Opened(NoFile)]
    BY <2>2, FreshSeen
  <2>4. EndNow = [f \in {Console} \cup Stream |-> FALSE]
    <3>1. \A f \in {Console} \cup Stream : ~ AtEnd(st[f])
      BY <2>1 DEF AtEnd, Fresh
    <3> QED
      BY <3>1 DEF EndNow
  <2> QED
    BY <2>1, <2>3, <2>4 DEF S!Init, AtNow, EndNow, S!Console, Console, S!Stream, Stream
<1>2. StdioTypeOK /\ PlacesFit /\ [StdioNext]_stdioVars => [S!Next]_(S!vars)
  <2> SUFFICES ASSUME StdioTypeOK, PlacesFit, [StdioNext]_stdioVars PROVE [S!Next]_(S!vars)
    OBVIOUS
  <2>1. CASE UNCHANGED stdioVars
    <3>1. AtNow' = AtNow /\ EndNow' = EndNow /\ last' = last /\ ret' = ret
      BY <2>1, SeenSame DEF stdioVars
    <3> QED
      BY <3>1 DEF S!vars, AtNow, EndNow
  <2>2. CASE Taken
    <3>1. S!Taken
      <4>1. AtNow' = AtNow /\ EndNow' = EndNow
        BY <2>2, SeenSame DEF Taken
      <4> QED
        BY <2>2, <4>1 DEF Taken, S!Taken, AtNow, EndNow
    <3> QED
      BY <3>1 DEF S!Next
  <2>3. CASE last = <<>> /\ OpenFails
    <3>1. \E fn \in {"fopen", "freopen"} : S!Nothing(fn, 0, NoFile)
      BY <2>3, Unchanged DEF OpenFails
    <3> QED
      BY <2>3, <3>1 DEF S!Next
  <2>4. ASSUME last = <<>>, NEW n \in DOMAIN Content, fopen(n) PROVE S!Next
    <3>1. S!Open(n)
      BY <2>4, Opens
    <3> QED
      BY <2>4, <3>1 DEF S!Next
  <2>5. ASSUME last = <<>>, NEW f \in Stream \ Free,
               \/ fclose(f) \/ ftell(f) \/ feof(f)
               \/ \E off \in Offsets, w \in 0 .. 3 : fseek(f, off, w)
        PROVE  S!Next
    <3>1. f \in S!Stream /\ S!IsOpen(f) /\ f \in {Console} \cup Stream
      BY OpenSlots
    <3>2. \/ S!Close(f) \/ S!Nothing("ftell", f, AtNow[f].place)
          \/ S!Nothing("feof", f, EndNow[f])
          \/ \E off \in Offsets, w \in 0 .. 3 : S!Seek(f, off, w)
      BY <2>5, <3>1, Closes, Tells, Seeks
    <3>3. \E g \in S!Stream : S!IsOpen(g) /\
            \/ S!Close(g) \/ S!Nothing("ftell", g, AtNow[g].place)
            \/ S!Nothing("feof", g, EndNow[g])
            \/ \E off \in Offsets, w \in 0 .. 3 : S!Seek(g, off, w)
      BY <3>1, <3>2
    <3> QED
      BY <2>5, <3>3 DEF S!Next, AtNow, EndNow
  <2>6. ASSUME last = <<>>, NEW f \in {Console} \cup (Stream \ Free),
               \/ \E n \in DOMAIN Content : freopen(f, n)
               \/ \E z, n \in Counts : fread(f, z, n)
               \/ \E n \in Counts : fgets(f, n)
               \/ \E c \in Pushes \cup {Eof} : ungetc(f, c)
        PROVE  S!Next
    <3>1. /\ f \in {S!Console} \cup S!Stream /\ S!IsOpen(f)
          /\ f \in {Console} \cup Stream
      BY ReadableNow
    <3>2. \/ \E n \in DOMAIN Content : S!Reopen(f, n)
          \/ \E z, n \in Counts : S!Read(f, z, n)
          \/ \E n \in Counts : S!Line(f, n)
          \/ \E c \in Pushes \cup {Eof} : S!PushBack(f, c)
      BY <2>6, <3>1, Reopens, Reads, Lines, PushesBack
    <3> QED
      BY <2>6, <3>1, <3>2 DEF S!Next
  <2>7. ASSUME last = <<>>, NEW f \in {Console, stdout},
               (\E z, n \in Counts : fwrite(f, z, n)) \/ ConsoleRefuses(f)
        PROVE  S!Next
    <3>1. f \in {S!Console, S!Out}
      BY OpenSlots
    <3>2. S!Refused(f) \/ \E z, n \in Counts : S!Write(f, z, n)
      BY <2>7, Writes, Refuses
    <3> QED
      BY <2>7, <3>1, <3>2 DEF S!Next
  <2> QED
    BY <2>1, <2>2, <2>3, <2>4, <2>5, <2>6, <2>7 DEF StdioNext, StdioCalls
<1> QED
  BY <1>1, <1>2, StdioTypes, Places, PTL DEF StdioSpec, ImplementsStreams, S!Spec


-----------------------------------------------------------------------------
\* C's division, for a positive divisor.
LEMMA Truncated ==
  ASSUME NEW a \in Int, NEW b \in Nat \ {0}
  PROVE  /\ Quot(a, b) \in Int /\ Rem(a, b) \in Int /\ a = b * Quot(a, b) + Rem(a, b)
         /\ a >= 0 => Quot(a, b) = a \div b /\ Rem(a, b) \in 0 .. b - 1
         /\ a < 0 => Rem(a, b) \in -(b - 1) .. 0
<1>1. CASE a < 0
  <2>1. (-a) \div b \in Int /\ -a = b * ((-a) \div b) + ((-a) % b) /\ (-a) % b \in 0 .. b - 1
    OBVIOUS
  <2>2. PICK q \in Int, r \in 0 .. b - 1 : q = (-a) \div b /\ -a = b * q + r
    BY <2>1
  <2>3. Quot(a, b) = -q
    BY <1>1, <2>2 DEF Quot
  <2>4. b * (-q) = -(b * q)
    BY <2>2
  <2>5. Rem(a, b) = a + b * q
    BY <2>2, <2>3, <2>4 DEF Rem
  <2> QED
    BY <1>1, <2>2, <2>3, <2>4, <2>5
<1>2. CASE a >= 0
  <2>1. a \div b \in Int /\ a = b * (a \div b) + (a % b) /\ a % b \in 0 .. b - 1
    OBVIOUS
  <2>2. PICK q \in Int, r \in 0 .. b - 1 : q = a \div b /\ a = b * q + r
    BY <2>1
  <2>3. Quot(a, b) = q
    <3>1. ~ (a < 0) /\ q = a \div b
      BY <1>2, <2>2
    <3> QED
      BY ONLY <3>1, Zenon DEF Quot
  <2>5. Rem(a, b) = a - b * q
    BY <2>2, <2>3 DEF Rem
  <2>6. Quot(a, b) = a \div b
    BY <2>2, <2>3, Zenon
  <2>7. ~ (a < 0) /\ r \in Int /\ b * q = b * Quot(a, b) /\ Rem(a, b) = r
    BY <1>2, <2>2, <2>3, <2>5
  <2>8. a = b * Quot(a, b) + Rem(a, b)
    BY <2>2, <2>7
  <2> QED
    BY ONLY <2>3, <2>6, <2>7, <2>8, q \in Int, r \in 0 .. b - 1, r \in Int
<1> QED
  BY <1>1, <1>2

-----------------------------------------------------------------------------
\* Days are counted from a 1 March that begins an era: Start(Y) of them are
\* before the year that begins in March of year Y, which has MarchLength(Y).
Start(Y) == 365 * Y + Y \div 4 - Y \div 100 + Y \div 400
MarchLength(Y) == 365 + Leap(Y + 1)

\* The quotient of the next number.
LEMMA NextQuotient ==
  ASSUME NEW n \in Nat \ {0}, NEW Y \in Int
  PROVE  /\ Y \div n \in Int
         /\ (Y + 1) \div n = Y \div n + (IF (Y + 1) % n = 0 THEN 1 ELSE 0)
<1>1. PICK q \in Int, r \in 0 .. n - 1 : q = Y \div n /\ Y = q * n + r
  <2>1. Y \div n \in Int /\ Y = (Y \div n) * n + (Y % n) /\ Y % n \in 0 .. n - 1
    OBVIOUS
  <2> QED
    BY <2>1
<1>2. PICK p \in Int, s \in 0 .. n - 1 : p = (Y + 1) \div n /\ s = (Y + 1) % n /\ Y + 1 = p * n + s
  <2>1. (Y + 1) \div n \in Int /\ Y + 1 = ((Y + 1) \div n) * n + ((Y + 1) % n) /\ (Y + 1) % n \in 0 .. n - 1
    OBVIOUS
  <2> QED
    BY <2>1
<1>3. CASE r = n - 1
  <2>1. (q + 1) * n + 0 = p * n + s
    BY <1>1, <1>2, <1>3
  <2>2. s = 0 /\ p = q + 1
    BY ONLY <2>1, DivisionUnique, n \in Nat \ {0}, q + 1 \in Int, p \in Int, 0 \in 0 .. n - 1,
       s \in 0 .. n - 1
  <2> QED
    BY <2>2, <1>1, <1>2
<1>4. CASE r # n - 1
  <2>1. q * n + (r + 1) = p * n + s /\ r + 1 \in 0 .. n - 1 /\ r + 1 # 0
    BY <1>1, <1>2, <1>4
  <2>2. s = r + 1 /\ p = q
    BY ONLY <2>1, DivisionUnique, n \in Nat \ {0}, q \in Int, p \in Int, s \in 0 .. n - 1
  <2> QED
    BY <2>1, <2>2, <1>1, <1>2
<1> QED
  BY <1>3, <1>4

\* A year follows the year before it.
LEMMA StartNext ==
  ASSUME NEW Y \in Int
  PROVE  /\ Start(Y) \in Int /\ MarchLength(Y) \in {365, 366}
         /\ Start(Y + 1) = Start(Y) + MarchLength(Y)
<1>1. /\ (Y + 1) \div 4 = Y \div 4 + (IF (Y + 1) % 4 = 0 THEN 1 ELSE 0)
      /\ (Y + 1) \div 100 = Y \div 100 + (IF (Y + 1) % 100 = 0 THEN 1 ELSE 0)
      /\ (Y + 1) \div 400 = Y \div 400 + (IF (Y + 1) % 400 = 0 THEN 1 ELSE 0)
      /\ Y \div 4 \in Int /\ Y \div 100 \in Int /\ Y \div 400 \in Int
  BY NextQuotient
<1>2. /\ (Y + 1) % 400 = 0 => (Y + 1) % 100 = 0
      /\ (Y + 1) % 100 = 0 => (Y + 1) % 4 = 0
  OBVIOUS
<1>3. MarchLength(Y) = 365 + (IF (Y + 1) % 4 = 0 THEN 1 ELSE 0) - (IF (Y + 1) % 100 = 0 THEN 1 ELSE 0)
                           + (IF (Y + 1) % 400 = 0 THEN 1 ELSE 0)
  BY <1>2 DEF MarchLength, Leap, IsLeap
<1>4. MarchLength(Y) \in {365, 366}
  BY DEF MarchLength, Leap
<1> QED
  BY <1>1, <1>3, <1>4 DEF Start

\* A later year starts after an earlier one has ended.
LEMMA StartLater ==
  ASSUME NEW X \in Int, NEW Y \in Int, X < Y
  PROVE  Start(X) + MarchLength(X) <= Start(Y)
<1>1. Start(X) \in Int /\ MarchLength(X) \in Int /\ Start(X + 1) = Start(X) + MarchLength(X)
  BY StartNext
<1>2. /\ Y \div 4 >= (X + 1) \div 4 /\ Y \div 400 >= (X + 1) \div 400
      /\ Y \div 100 - (X + 1) \div 100 <= Y - (X + 1)
      /\ Y \div 4 \in Int /\ Y \div 100 \in Int /\ Y \div 400 \in Int
      /\ (X + 1) \div 4 \in Int /\ (X + 1) \div 100 \in Int /\ (X + 1) \div 400 \in Int
  OBVIOUS
<1>3. Start(X + 1) <= Start(Y)
  BY <1>2 DEF Start
<1> QED
  BY <1>1, <1>3

\* So a day is in one year.
LEMMA OneYear ==
  ASSUME NEW X \in Int, NEW Y \in Int, NEW n \in Int, NEW k \in Int,
         0 <= n, n < MarchLength(X), 0 <= k, k < MarchLength(Y), Start(X) + n = Start(Y) + k
  PROVE  X = Y /\ n = k
<1>1. Start(X) \in Int /\ Start(Y) \in Int /\ MarchLength(X) \in Int /\ MarchLength(Y) \in Int
  BY StartNext
<1>2. ~ (X < Y)
  <2> SUFFICES ASSUME X < Y PROVE FALSE
    OBVIOUS
  <2>1. Start(X) + MarchLength(X) <= Start(Y)
    BY StartLater
  <2> QED
    BY <2>1, <1>1
<1>3. ~ (Y < X)
  <2> SUFFICES ASSUME Y < X PROVE FALSE
    OBVIOUS
  <2>1. Start(Y) + MarchLength(Y) <= Start(X)
    BY StartLater
  <2> QED
    BY <2>1, <1>1
<1>4. X = Y
  BY <1>2, <1>3
<1> QED
  BY <1>1, <1>4

\* A quotient is where the remainder fits.
LEMMA QuotientIs ==
  ASSUME NEW n \in Nat \ {0}, NEW x \in Int, NEW q \in Int, q * n <= x, x < q * n + n
  PROVE  x \div n = q
<1>1. PICK p \in Int, s \in 0 .. n - 1 : p = x \div n /\ x = p * n + s
  <2>1. x \div n \in Int /\ x = (x \div n) * n + (x % n) /\ x % n \in 0 .. n - 1
    OBVIOUS
  <2> QED
    BY <2>1
<1>2. PICK r \in 0 .. n - 1 : x = q * n + r
  <2>1. q * n \in Int
    OBVIOUS
  <2>2. x - q * n \in 0 .. n - 1 /\ x = q * n + (x - q * n)
    BY <2>1
  <2> QED
    BY <2>2
<1>3. p * n + s = q * n + r
  BY <1>1, <1>2
<1>4. p = q
  BY ONLY <1>3, DivisionUnique, n \in Nat \ {0}, p \in Int, q \in Int, s \in 0 .. n - 1,
     r \in 0 .. n - 1
<1> QED
  BY <1>1, <1>4

\* Of a natural number the code's quotient is the usual one.
LEMMA NaturalQuot ==
  ASSUME NEW a \in Nat, NEW b \in Nat \ {0}
  PROVE  Quot(a, b) = a \div b /\ a \div b \in Nat
<1>1. ~ (a < 0)
  OBVIOUS
<1>2. Quot(a, b) = a \div b
  BY ONLY <1>1, a \in Nat, b \in Nat \ {0} DEF Quot
<1> QED
  BY <1>2

\* The code's quotient of a natural number, by its bounds.
LEMMA QuotIs ==
  ASSUME NEW n \in Nat \ {0}, NEW x \in Nat, NEW q \in Int, q * n <= x, x < q * n + n
  PROVE  Quot(x, n) = q /\ Rem(x, n) = x - n * q
<1>1. x \div n = q
  BY QuotientIs
<1>2. Quot(x, n) = x \div n
  <2>1. ~ (x < 0)
    OBVIOUS
  <2> QED
    BY ONLY <2>1, n \in Nat \ {0}, x \in Nat DEF Quot
<1>3. Quot(x, n) = q
  BY ONLY <1>1, <1>2, Zenon
<1> QED
  BY ONLY <1>3, Zenon DEF Rem

\* A day of an era is day n of year r of the four years q of century c, and
\* the year that gmtime finds is that one.
LEMMA EraParts ==
  ASSUME NEW doe \in Nat, doe < 146097
  PROVE  \E c \in 0 .. 3, q \in 0 .. 24, r \in 0 .. 3, n \in Nat :
           /\ n <= 365
           /\ doe = 36524 * c + 1461 * q + 365 * r + n
           /\ n = 365 => r = 3 /\ (q < 24 \/ c = 3)
           /\ YearOf(doe) = 100 * c + 4 * q + r
<1>1. PICK c \in 0 .. 3, a \in Nat : doe = 36524 * c + a /\ a <= 36524 /\ (a = 36524 => c = 3)
  <2>1. CASE doe < 36524
    <3>1. doe = 36524 * 0 + doe /\ doe <= 36524 /\ doe # 36524
      BY <2>1, SMT
    <3> QED
      BY <3>1, SMT
  <2>2. CASE 36524 <= doe /\ doe < 2 * 36524
    <3>1. doe = 36524 * 1 + (doe - 36524) /\ doe - 36524 \in Nat /\ doe - 36524 <= 36524 /\ doe - 36524 # 36524
      BY <2>2, SMT
    <3> QED
      BY <3>1, SMT
  <2>3. CASE 2 * 36524 <= doe /\ doe < 3 * 36524
    <3>1. doe = 36524 * 2 + (doe - 2 * 36524) /\ doe - 2 * 36524 \in Nat
          /\ doe - 2 * 36524 <= 36524 /\ doe - 2 * 36524 # 36524
      BY <2>3, SMT
    <3> QED
      BY <3>1, SMT
  <2>4. CASE 3 * 36524 <= doe
    <3>1. doe = 36524 * 3 + (doe - 3 * 36524) /\ doe - 3 * 36524 \in Nat /\ doe - 3 * 36524 <= 36524
      BY <2>4, SMT
    <3> QED
      BY <3>1, SMT
  <2> QED
    BY <2>1, <2>2, <2>3, <2>4, SMT
<1>2. PICK q \in 0 .. 24, b \in Nat : b <= 1460 /\ a = 1461 * q + b
  <2>1. /\ a \div 1461 >= 0 /\ a \div 1461 <= 24 /\ a \div 1461 \in Int
        /\ a % 1461 \in Nat /\ a % 1461 <= 1460 /\ a = 1461 * (a \div 1461) + (a % 1461)
    BY <1>1, SMT
  <2> QED
    BY <2>1, SMT
<1>3. PICK r \in 0 .. 3, n \in Nat : n <= 365 /\ b = 365 * r + n /\ (n = 365 => r = 3)
  <2>1. CASE b = 1460
    <3>1. b = 365 * 3 + 365
      BY <2>1, SMT
    <3> QED
      BY <3>1, SMT
  <2>2. CASE b < 1460
    <3>1. b \div 365 \in 0 .. 3 /\ b % 365 \in Nat /\ b % 365 <= 364 /\ b = 365 * (b \div 365) + (b % 365)
      BY <2>2, SMT
    <3>2. b % 365 \in Nat /\ b % 365 <= 365 /\ b % 365 # 365
      BY <3>1, SMT
    <3> QED
      BY <3>1, <3>2, SMT
  <2> QED
    BY <1>2, <2>1, <2>2, SMT
<1>4. /\ n <= 365
      /\ doe = 36524 * c + 1461 * q + 365 * r + n
      /\ n = 365 => r = 3 /\ (q < 24 \/ c = 3)
  BY <1>1, <1>2, <1>3, SMT
<1> DEFINE e == IF 24 * c + q + 365 * r + n >= 1460 THEN 1 ELSE 0
           f == IF doe = 146096 THEN 1 ELSE 0
<1>5. Quot(doe, 1460) = 25 * c + q + e
  <2>1. (25 * c + q + e) * 1460 <= doe /\ doe < (25 * c + q + e) * 1460 + 1460
    BY <1>4, SMT
  <2> QED
    BY ONLY <2>1, QuotIs, doe \in Nat, 25 * c + q + e \in Int, 1460 \in Nat \ {0}, SMT
<1>6. Quot(doe, 36524) = c + f
  <2>1. (c + f) * 36524 <= doe /\ doe < (c + f) * 36524 + 36524
    BY <1>4, SMT
  <2> QED
    BY ONLY <2>1, QuotIs, doe \in Nat, c + f \in Int, 36524 \in Nat \ {0}, SMT
<1>7. Quot(doe, 146096) = f
  <2>1. f * 146096 <= doe /\ doe < f * 146096 + 146096
    BY SMT
  <2> QED
    BY ONLY <2>1, QuotIs, doe \in Nat, f \in Int, 146096 \in Nat \ {0}, SMT
<1>8. doe - (25 * c + q + e) + (c + f) - f = 365 * (100 * c + 4 * q + r) + (n - e) /\ n - e >= 0 /\ n - e <= 364
  BY <1>4, SMT
<1>9. Quot(365 * (100 * c + 4 * q + r) + (n - e), 365) = 100 * c + 4 * q + r
  <2> DEFINE x == 365 * (100 * c + 4 * q + r) + (n - e)
  <2>1. (100 * c + 4 * q + r) * 365 <= x /\ x < (100 * c + 4 * q + r) * 365 + 365 /\ x \in Int /\ x >= 0
    BY <1>8, SMT
  <2>2. x \in Nat /\ 100 * c + 4 * q + r \in Int /\ 365 \in Nat \ {0}
    BY <2>1, SMT
  <2> DEFINE y == 100 * c + 4 * q + r
  <2> SUFFICES Quot(x, 365) = y
    OBVIOUS
  <2> HIDE DEF x
  <2>3. y * 365 <= x /\ x < y * 365 + 365 /\ y \in Int
    BY <2>1, <2>2, SMT
  <2> HIDE DEF y
  <2> QED
    BY ONLY <2>2, <2>3, QuotIs, SMT
<1>10. YearOf(doe) = 100 * c + 4 * q + r
  BY <1>5, <1>6, <1>7, <1>8, <1>9, SMT DEF YearOf
<1> WITNESS c \in 0 .. 3, q \in 0 .. 24, r \in 0 .. 3, n \in Nat
<1> QED
  BY ONLY <1>4, <1>10, SMT

\* The day of the year, and its length.
LEMMA EraYear ==
  ASSUME NEW doe \in Nat, doe < 146097, NEW era \in Int,
         NEW yo, yo = YearOf(doe), NEW n, n = doe - (365 * yo + yo \div 4 - yo \div 100)
  PROVE  /\ yo \in Nat /\ yo <= 399 /\ n \in Int /\ 0 <= n /\ n < MarchLength(era * 400 + yo)
         /\ Start(era * 400 + yo) = era * 146097 + 365 * yo + yo \div 4 - yo \div 100
<1>1. PICK c \in 0 .. 3, q \in 0 .. 24, r \in 0 .. 3, k \in Nat :
         /\ k <= 365
         /\ doe = 36524 * c + 1461 * q + 365 * r + k
         /\ k = 365 => r = 3 /\ (q < 24 \/ c = 3)
         /\ yo = 100 * c + 4 * q + r
  BY EraParts, SMT
<1>2. yo \in Nat /\ yo <= 399
  BY <1>1, SMT
<1>3. yo \div 4 = 25 * c + q /\ yo \div 100 = c
  BY <1>1, SMT
<1>4. n = k
  BY <1>1, <1>3, SMT
<1>5. k = 365 => IsLeap(era * 400 + yo + 1)
  <2> SUFFICES ASSUME r = 3, q < 24 \/ c = 3 PROVE IsLeap(era * 400 + yo + 1)
    BY <1>1, SMT
  <2>1. (era * 400 + yo + 1) % 4 = 0
    BY <1>1, SMT
  <2>2. CASE q < 24
    <3>1. (era * 400 + yo + 1) % 100 # 0
      BY <1>1, <2>2, SMT
    <3> QED
      BY <2>1, <3>1, SMT DEF IsLeap
  <2>3. CASE q = 24 /\ c = 3
    <3>1. (era * 400 + yo + 1) % 400 = 0
      BY <1>1, <2>3, SMT
    <3> QED
      BY <2>1, <3>1, SMT DEF IsLeap
  <2> QED
    BY <2>2, <2>3, SMT
<1>6. k < MarchLength(era * 400 + yo)
  BY <1>1, <1>5, SMT DEF MarchLength, Leap
<1>7. /\ (era * 400 + yo) \div 400 = era
      /\ (era * 400 + yo) \div 4 = era * 100 + yo \div 4
      /\ (era * 400 + yo) \div 100 = era * 4 + yo \div 100
  BY <1>2, SMT
<1>8. Start(era * 400 + yo) = era * 146097 + 365 * yo + yo \div 4 - yo \div 100
  BY <1>2, <1>3, <1>7, SMT DEF Start
<1> QED
  BY <1>1, <1>2, <1>3, <1>4, <1>6, <1>8, SMT

\* Every number lies between two neighbouring multiples of n.
LEMMA Floored ==
  ASSUME NEW n \in Nat \ {0}, NEW x \in Int
  PROVE  \E q \in Int : q * n <= x /\ x < q * n + n
<1>1. PICK q \in Int : x = q * n + (x % n) /\ x % n \in 0 .. n - 1
  BY Division
<1>2. q * n \in Int /\ q * n <= x /\ x < q * n + n
  BY <1>1
<1> QED
  BY <1>2

\* The code's way to round a negative quotient down.
LEMMA RoundedDown ==
  ASSUME NEW n \in Nat \ {0}, NEW z \in Int, NEW q \in Int, q * n <= z, z < q * n + n,
         NEW a \in Int, a = (IF z >= 0 THEN z ELSE z - (n - 1))
  PROVE  Quot(a, n) = q
<1>1. CASE z >= 0
  <2>1. a = z /\ a \in Nat
    BY <1>1
  <2> QED
    BY <2>1, QuotIs
<1>2. CASE z < 0
  <2>1. a < 0 /\ a = z - (n - 1)
    BY <1>2
  <2>2. Quot(a, n) = -((-a) \div n)
    BY ONLY <2>1, a \in Int, n \in Nat \ {0} DEF Quot
  <2>3. PICK p \in Int : p = -q
    OBVIOUS
  <2>4. p * n = -(q * n) /\ q * n \in Int /\ -a \in Int
    BY <2>3
  <2>5. p * n <= -a /\ -a < p * n + n
    BY <2>1, <2>4
  <2>6. (-a) \div n = p
    BY ONLY <2>4, <2>5, QuotientIs, p \in Int, n \in Nat \ {0}
  <2> QED
    BY ONLY <2>2, <2>6, <2>3, q \in Int
<1> QED
  BY <1>1, <1>2

\* How gmtime and mktime make a remainder positive.
RoundedQuot(t, b) == IF Rem(t, b) < 0 THEN Quot(t, b) - 1 ELSE Quot(t, b)
RoundedRem(t, b) == IF Rem(t, b) < 0 THEN Rem(t, b) + b ELSE Rem(t, b)

\* It finds the day and the second of what they make.
LEMMA RoundedParts ==
  ASSUME NEW b \in Nat \ {0}, NEW d \in Int, NEW r \in Int, 0 <= r, r < b
  PROVE  RoundedQuot(d * b + r, b) = d /\ RoundedRem(d * b + r, b) = r
<1> DEFINE t == d * b + r
<1>1. d * b \in Int /\ t \in Int /\ b \in Int
  OBVIOUS
<1>2. CASE d >= 0
  <2>1. d * b >= 0
    BY <1>2
  <2>2. t \in Nat /\ d * b <= t /\ t < d * b + b
    BY <2>1, <1>1
  <2> HIDE DEF t
  <2>3. Quot(t, b) = d /\ Rem(t, b) = t - b * d
    BY <2>2, QuotIs
  <2>4. t - b * d = r
    BY <1>1 DEF t
  <2>5. ~ (r < 0)
    OBVIOUS
  <2>6. RoundedQuot(t, b) = d /\ RoundedRem(t, b) = r
    BY ONLY <2>3, <2>4, <2>5, Zenon DEF RoundedQuot, RoundedRem
  <2> QED
    BY <2>6 DEF t
<1>3. CASE d < 0
  <2>1. (d + 1) * b = d * b + b /\ (d + 1) * b <= 0
    BY <1>3
  <2>2. t < 0
    BY <2>1, <1>1
  <2>3. PICK p \in Int : p = -d
    OBVIOUS
  <2>4. p * b = -(d * b) /\ (p - 1) * b = -(d * b) - b
    BY <2>3
  <2>5. Quot(t, b) = -((-t) \div b)
    BY ONLY <2>2, <1>1, b \in Nat \ {0} DEF Quot
  <2>6. CASE r = 0
    <3>1. p * b <= -t /\ -t < p * b + b /\ -t \in Int
      BY <2>4, <2>6, <1>1
    <3>2. (-t) \div b = p
      BY ONLY <3>1, QuotientIs, p \in Int, b \in Nat \ {0}
    <3>3. Quot(t, b) = d
      BY ONLY <2>5, <3>2, <2>3, d \in Int
    <3>4. t - b * d = 0
      BY <2>6, <1>1
    <3>5. Rem(t, b) = 0
      BY ONLY <3>3, <3>4, Zenon DEF Rem
    <3>6. ~ (0 < 0)
      OBVIOUS
    <3>7. RoundedQuot(t, b) = d /\ RoundedRem(t, b) = r
      BY ONLY <3>3, <3>5, <3>6, <2>6, Zenon DEF RoundedQuot, RoundedRem
    <3> QED
      BY <3>7
  <2>7. CASE r > 0
    <3>1. (p - 1) * b <= -t /\ -t < (p - 1) * b + b /\ -t \in Int /\ p - 1 \in Int
      BY <2>4, <2>7, <1>1
    <3>2. (-t) \div b = p - 1
      BY ONLY <3>1, QuotientIs, p \in Int, b \in Nat \ {0}
    <3>3. Quot(t, b) = d + 1
      BY ONLY <2>5, <3>2, <2>3, d \in Int
    <3>4. t - b * (d + 1) = r - b
      <4>1. b * (d + 1) = d * b + b
        OBVIOUS
      <4> QED
        BY <4>1, <1>1
    <3>5. Rem(t, b) = r - b
      BY ONLY <3>3, <3>4, Zenon DEF Rem
    <3>6. r - b < 0 /\ d + 1 - 1 = d /\ r - b + b = r
      BY <1>1
    <3> HIDE DEF t
    <3>7. RoundedQuot(t, b) = d
      <4>1. Rem(t, b) < 0
        BY ONLY <3>5, <3>6, Zenon
      <4>2. RoundedQuot(t, b) = Quot(t, b) - 1
        BY ONLY <4>1, Zenon DEF RoundedQuot
      <4> QED
        BY ONLY <4>2, <3>3, d \in Int
    <3>8. RoundedRem(t, b) = r
      BY ONLY <3>5, <3>6, Zenon DEF RoundedRem
    <3> QED
      BY <3>7, <3>8 DEF t
  <2> QED
    BY <2>6, <2>7
<1> QED
  BY <1>2, <1>3

\* A time is a day and a second of it, in one way.
LEMMA TimeParts ==
  ASSUME NEW d \in Int, NEW r \in Int, 0 <= r, r < Day, Day \in Nat \ {0}
  PROVE  DayOf(d * Day + r) = d /\ SecondOf(d * Day + r) = r
<1>1. PICK b \in Nat \ {0} : b = Day
  OBVIOUS
<1>2. RoundedQuot(d * b + r, b) = d /\ RoundedRem(d * b + r, b) = r
  <2>1. r < b
    BY <1>1
  <2> QED
    BY ONLY <2>1, RoundedParts, b \in Nat \ {0}, d \in Int, r \in Int, 0 <= r, Zenon
<1> QED
  BY ONLY <1>1, <1>2, Zenon DEF DayOf, SecondOf, RoundedQuot, RoundedRem

\* DayOf and SecondOf put a time together again.
LEMMA TimeSplit ==
  ASSUME NEW t \in Int, Day \in Nat \ {0}
  PROVE  /\ DayOf(t) \in Int /\ SecondOf(t) \in Int /\ 0 <= SecondOf(t) /\ SecondOf(t) < Day
         /\ t = DayOf(t) * Day + SecondOf(t)
<1>1. PICK d \in Int, r \in Int : 0 <= r /\ r < Day /\ t = d * Day + r
  <2>1. t \div Day \in Int /\ t = (t \div Day) * Day + (t % Day) /\ t % Day \in 0 .. Day - 1
    OBVIOUS
  <2>2. t % Day \in Int /\ 0 <= t % Day /\ t % Day < Day
    BY <2>1
  <2> QED
    BY ONLY <2>1, <2>2
<1>2. DayOf(t) = d /\ SecondOf(t) = r
  BY <1>1, TimeParts
<1> QED
  BY <1>1, <1>2

\* The starts of the months, and the month of a day.
LEMMA MonthStarts ==
  /\ MonthStart(0) = 0 /\ MonthStart(1) = 31 /\ MonthStart(2) = 61 /\ MonthStart(3) = 92
  /\ MonthStart(4) = 122 /\ MonthStart(5) = 153 /\ MonthStart(6) = 184 /\ MonthStart(7) = 214
  /\ MonthStart(8) = 245 /\ MonthStart(9) = 275 /\ MonthStart(10) = 306 /\ MonthStart(11) = 337
<1> SUFFICES ASSUME NEW mp \in Nat, NEW q \in Nat, q * 5 <= 153 * mp + 2, 153 * mp + 2 < q * 5 + 5
             PROVE  MonthStart(mp) = q
  BY SMT
<1>1. 153 * mp + 2 \in Nat
  BY SMT
<1> QED
  BY <1>1, QuotIs, SMT DEF MonthStart

\* Month mp of a year that begins in March holds day n.
InMonth(mp, n) ==
  /\ mp \in 0 .. 11 /\ MonthStart(mp) <= n
  /\ mp < 11 => n < MonthStart(mp + 1)

\* Every day of a year is in a month, the one that the code computes.
LEMMA MonthFound ==
  ASSUME NEW n \in Nat, n < 366
  PROVE  /\ \E mp \in 0 .. 11 : InMonth(mp, n)
         /\ \A mp : InMonth(mp, n) => MonthOf(n) = mp
<1>1. \E mp \in 0 .. 11 : InMonth(mp, n)
  BY MonthStarts, SMT DEF InMonth
<1>2. ASSUME NEW mp, InMonth(mp, n) PROVE MonthOf(n) = mp
  <2>1. mp \in Int /\ mp * 153 <= 5 * n + 2 /\ 5 * n + 2 < mp * 153 + 153 /\ 5 * n + 2 \in Nat
    BY <1>2, MonthStarts, SMT DEF InMonth
  <2> QED
    BY ONLY <2>1, QuotIs, 153 \in Nat \ {0}, SMT DEF MonthOf
<1> QED
  BY <1>1, <1>2

\* The day that gmtime takes a date from: day DayOfYear of year EraOf and YearOf.
LEMMA DayFound ==
  ASSUME NEW z \in Int, NEW doe, doe = z - EraOf(z) * 146097
  PROVE  \E Y \in Int, n \in Nat :
           /\ z = Start(Y) + n /\ n < MarchLength(Y) /\ n < 366
           /\ Y = YearOf(doe) + EraOf(z) * 400 /\ n = DayOfYear(doe)
<1>1. PICK e \in Int : e * 146097 <= z /\ z < e * 146097 + 146097
  <2>1. PICK n \in Nat \ {0} : n = 146097
    BY SMT
  <2>2. \E q \in Int : q * n <= z /\ z < q * n + n
    BY ONLY Floored, n \in Nat \ {0}, z \in Int, Zenon
  <2> QED
    BY <2>1, <2>2, SMT
<1>2. EraOf(z) = e
  <2>1. PICK a \in Int : a = (IF z >= 0 THEN z ELSE z - 146096)
    BY SMT
  <2>2. a = (IF z >= 0 THEN z ELSE z - (146097 - 1)) /\ 146097 \in Nat \ {0}
    BY <2>1, SMT
  <2>3. Quot(a, 146097) = e
    BY ONLY <1>1, <2>1, <2>2, RoundedDown, z \in Int, e \in Int, a \in Int, SMT
  <2> QED
    BY <2>1, <2>3, SMT DEF EraOf
<1>3. doe \in Nat /\ doe < 146097 /\ z = e * 146097 + doe
  BY <1>1, <1>2, SMT
<1> DEFINE yo == YearOf(doe)
           n == doe - (365 * yo + yo \div 4 - yo \div 100)
           Y == e * 400 + yo
<1>4. /\ yo \in Nat /\ yo <= 399 /\ n \in Int /\ 0 <= n /\ n < MarchLength(e * 400 + yo)
      /\ Start(e * 400 + yo) = e * 146097 + 365 * yo + yo \div 4 - yo \div 100
  BY ONLY <1>3, EraYear, e \in Int, SMT
<1>5. Leaps(yo) = yo \div 4 - yo \div 100
  <2>1. yo \in Nat
    BY <1>4
  <2> HIDE DEF yo
  <2>2. /\ Quot(yo, 4) = yo \div 4
        /\ Quot(yo, 100) = yo \div 100
    BY ONLY <2>1, 4 \in Nat \ {0}, 100 \in Nat \ {0}, NaturalQuot, SMT
  <2> QED
    BY <2>2 DEF Leaps
<1>6. DayOfYear(doe) = n
  <2> HIDE DEF yo
  <2>1. DayOfYear(doe) = doe - (365 * yo + Leaps(yo))
    BY SMT DEF DayOfYear, yo
  <2>2. yo \div 4 \in Int /\ yo \div 100 \in Int
    BY <1>4, SMT
  <2> QED
    BY <1>3, <1>4, <1>5, <2>1, <2>2, SMT
<1>7. MarchLength(Y) \in {365, 366} /\ Y \in Int
  BY <1>4, StartNext, SMT
<1>8. z = Start(Y) + n /\ n < MarchLength(Y) /\ n < 366 /\ n \in Nat
  <2> HIDE DEF yo
  <2>1. yo \div 4 \in Int /\ yo \div 100 \in Int
    BY <1>4, SMT
  <2> QED
    BY <1>3, <1>4, <1>7, <2>1, SMT
<1>9. Y = YearOf(doe) + EraOf(z) * 400
  BY <1>2, <1>4, SMT
<1> HIDE DEF yo, n, Y
<1> QED
  BY ONLY <1>6, <1>7, <1>8, <1>9, SMT

\* days, as the starts of the years and months.
LEMMA DaysIs ==
  ASSUME NEW year \in Int, NEW m \in Int, 1 <= m, m <= 12, NEW d \in Int,
         NEW y, y = (IF m <= 2 THEN year - 1 ELSE year),
         NEW mp, mp = (IF m > 2 THEN m - 3 ELSE m + 9)
  PROVE  days(year, m, d) = Start(y) + MonthStart(mp) + d - 719469
<1>1. y \in Int /\ y = (IF m <= 2 THEN year - 1 ELSE year)
  OBVIOUS
<1>2. PICK e \in Int : e * 400 <= y /\ y < e * 400 + 400
  <2>1. PICK n \in Nat \ {0} : n = 400
    BY SMT
  <2>2. \E q \in Int : q * n <= y /\ y < q * n + n
    BY ONLY Floored, n \in Nat \ {0}, y \in Int, Zenon
  <2> QED
    BY <2>1, <2>2, SMT
<1>3. Quot(IF y >= 0 THEN y ELSE y - 399, 400) = e
  <2>1. PICK a \in Int : a = (IF y >= 0 THEN y ELSE y - 399)
    BY SMT
  <2>2. a = (IF y >= 0 THEN y ELSE y - (400 - 1)) /\ 400 \in Nat \ {0}
    BY <2>1, SMT
  <2>3. Quot(a, 400) = e
    BY ONLY <1>2, <2>1, <2>2, RoundedDown, <1>1, e \in Int, a \in Int, SMT
  <2> QED
    BY <2>1, <2>3, SMT
<1>4. PICK yo \in Nat : yo = y - e * 400 /\ yo < 400
  BY <1>2, SMT
<1>5. Quot(yo, 4) = yo \div 4 /\ Quot(yo, 100) = yo \div 100 /\ yo \div 4 \in Int /\ yo \div 100 \in Int
  BY NaturalQuot, SMT
<1>6. m + (IF m > 2 THEN -3 ELSE 9) = (IF m > 2 THEN m - 3 ELSE m + 9)
  OBVIOUS
<1>7. PICK k : k = MonthStart(mp) /\ MonthStart(IF m > 2 THEN m - 3 ELSE m + 9) = k
  OBVIOUS
<1>8. k \in Int
  BY <1>7, MonthStarts, SMT
<1>9. days(year, m, d) = e * 146097 + yo * 365 + Leaps(yo) + (k + d - 1) - 719468
  BY ONLY <1>1, <1>3, <1>4, <1>6, <1>7, SMT DEF days
<1>10. y \div 400 = e /\ y \div 4 = e * 100 + yo \div 4 /\ y \div 100 = e * 4 + yo \div 100
  BY <1>4, SMT
<1>11. Start(y) = e * 146097 + 365 * yo + yo \div 4 - yo \div 100
  BY <1>4, <1>5, <1>10, SMT DEF Start
<1>12. Start(y) \in Int /\ Leaps(yo) = yo \div 4 - yo \div 100
  BY <1>5, StartNext, SMT DEF Leaps
<1>13. days(year, m, d) = Start(y) + k + d - 719469
  BY <1>5, <1>8, <1>9, <1>11, <1>12, SMT
<1> QED
  BY ONLY <1>1, <1>7, <1>13, SMT

\* The fields of the date of day n, in month mp, of the year that begins in
\* March of year Y, on week day w and with second r.
Dated(Y, n, mp, w, r) ==
  [sec |-> r % PerHour, hour |-> r \div PerHour, mday |-> n - MonthStart(mp) + 1,
   mon |-> IF mp < 10 THEN mp + 2 ELSE mp - 10,
   year |-> Y - 1900 + (IF mp < 10 THEN 0 ELSE 1), wday |-> w,
   yday |-> IF mp < 10 THEN n + 59 + Leap(Y) ELSE n - 306]

\* What gmtime makes of a time whose day is known.
LEMMA GmtimeIs ==
  ASSUME NEW t \in Int, PerHour \in Nat \ {0}, PerDay \in Nat \ {0},
         NEW Y \in Int, NEW n \in Nat, n < MarchLength(Y), NEW mp, InMonth(mp, n),
         DayOf(t) + 719468 = Start(Y) + n
  PROVE  gmtime(t) = Dated(Y, n, mp, (DayOf(t) + 4) % 7, SecondOf(t))
<1> DEFINE d == DayOf(t)
           era == EraOf(d + 719468)
           doe == d + 719468 - era * 146097
           doy == DayOfYear(doe)
           month == MonthOf(doy) + (IF MonthOf(doy) < 10 THEN 3 ELSE -9)
           y == YearOf(doe) + era * 400 + (IF month <= 2 THEN 1 ELSE 0)
           w == Rem(d + 4, 7)
<1>1. Day \in Nat \ {0}
  BY DEF Day
<1>2. d \in Int /\ SecondOf(t) \in Nat
  BY <1>1, TimeSplit
<1>3. doy = n /\ YearOf(doe) + era * 400 = Y /\ n < 366
  <2> HIDE DEF d
  <2>1. PICK z \in Int : z = d + 719468
    BY <1>2, SMT
  <2>2. doe = z - EraOf(z) * 146097
    <3>1. d \in Int
      BY <1>2
    <3>2. EraOf(d + 719468) = EraOf(z)
      BY ONLY <2>1, <3>1, SMT
    <3>3. EraOf(z) \in Int
      <4>1. PICK a \in Int, b \in Nat \ {0} : a = (IF z >= 0 THEN z ELSE z - 146096) /\ b = 146097
        BY SMT
      <4>2. Quot(a, b) \in Int
        BY ONLY Truncated, a \in Int, b \in Nat \ {0}, Zenon
      <4> QED
        BY ONLY <4>1, <4>2, SMT DEF EraOf
    <3> QED
      BY ONLY <2>1, <3>1, <3>2, <3>3, SMT
  <2> HIDE DEF doe
  <2>3. PICK X \in Int, k \in Nat :
           /\ z = Start(X) + k /\ k < MarchLength(X) /\ k < 366
           /\ X = YearOf(doe) + EraOf(z) * 400 /\ k = DayOfYear(doe)
    BY ONLY <2>1, <2>2, DayFound, SMT
  <2>4. X = Y /\ k = n
    <3>1. Start(X) + k = Start(Y) + n
      BY ONLY <2>1, <2>3, SMT, d + 719468 = Start(Y) + n DEF d
    <3>2. k \in Int /\ n \in Int /\ 0 <= k /\ 0 <= n
      BY SMT
    <3> QED
      BY ONLY <3>1, <3>2, <2>3, OneYear, X \in Int, Y \in Int, n < MarchLength(Y), SMT
  <2> QED
    BY ONLY <2>1, <2>3, <2>4, SMT
<1>4. MonthOf(doy) = mp
  <2> HIDE DEF doy, doe, era, d
  <2> QED
    BY ONLY <1>3, MonthFound, InMonth(mp, n), n \in Nat, SMT
<1>5. month = (IF mp < 10 THEN mp + 3 ELSE mp - 9) /\ month \in 1 .. 12 /\ mp \in 0 .. 11
  <2> HIDE DEF doy, doe, era, d
  <2> QED
    BY ONLY <1>4, InMonth(mp, n), SMT DEF InMonth
<1>6. y = Y + (IF mp < 10 THEN 0 ELSE 1)
  <2> HIDE DEF doe, era, month, doy, d
  <2> QED
    BY ONLY <1>3, <1>5, Y \in Int, SMT DEF y
<1>7. gmtime(t) =
        [sec |-> Rem(SecondOf(t), PerHour), hour |-> Quot(SecondOf(t), PerHour),
         mday |-> doy - MonthStart(MonthOf(doy)) + 1, mon |-> month - 1, year |-> y - 1900,
         wday |-> IF w < 0 THEN w + 7 ELSE w, yday |-> d - days(y, 1, 1)]
  BY SMT DEF gmtime
<1> HIDE DEF d, era, doe, doy, month, y, w
<1>8. Rem(SecondOf(t), PerHour) = SecondOf(t) % PerHour /\ Quot(SecondOf(t), PerHour) = SecondOf(t) \div PerHour
  <2>1. PICK r \in Nat : r = SecondOf(t)
    BY <1>2
  <2>2. PICK p \in Nat \ {0} : p = PerHour
    OBVIOUS
  <2>3. Quot(r, p) = r \div p
    BY ONLY NaturalQuot, r \in Nat, p \in Nat \ {0}
  <2>4. Rem(r, p) = r - p * (r \div p)
    BY ONLY <2>3, Zenon DEF Rem
  <2>5. r = p * (r \div p) + (r % p) /\ r \div p \in Int /\ p * (r \div p) \in Int /\ r % p \in Int
    BY ONLY r \in Nat, p \in Nat \ {0}
  <2>6. Rem(r, p) = r % p
    BY ONLY <2>4, <2>5
  <2> QED
    BY ONLY <2>1, <2>2, <2>3, <2>6, Zenon
<1>9. (IF w < 0 THEN w + 7 ELSE w) = (d + 4) % 7
  <2>1. PICK a \in Int : a = d + 4
    BY <1>2
  <2>2. w = Rem(a, 7)
    BY ONLY <2>1, SMT DEF w
  <2>3. PICK b \in Nat \ {0} : b = 7
    BY SMT
  <2>4. /\ Quot(a, b) \in Int /\ Rem(a, b) \in Int /\ a = b * Quot(a, b) + Rem(a, b)
        /\ a >= 0 => Rem(a, b) \in 0 .. b - 1
        /\ a < 0 => Rem(a, b) \in -(b - 1) .. 0
    BY ONLY Truncated, a \in Int, b \in Nat \ {0}, Zenon
  <2>5. PICK q \in Int, r \in Int : q = Quot(a, b) /\ r = Rem(a, b)
    BY <2>4
  <2>6. a = 7 * q + r /\ r > -7 /\ r < 7 /\ w = r
    BY ONLY <2>2, <2>3, <2>4, <2>5, SMT
  <2> QED
    BY ONLY <2>1, <2>6, a \in Int, r \in Int, q \in Int, SMT
<1>10. d - days(y, 1, 1) = IF mp < 10 THEN n + 59 + Leap(Y) ELSE n - 306
  <2>1. days(y, 1, 1) = Start(y - 1) + 306 - 719468
    <3>1. y \in Int /\ y - 1 \in Int
      BY ONLY <1>5, <1>6, Y \in Int, SMT
    <3>2. Start(y - 1) \in Int
      BY ONLY <3>1, StartNext
    <3>3. 1 \in Int /\ 1 <= 12 /\ 1 <= 1 /\ 1 <= 2 /\ ~(1 > 2) /\ 1 + 9 = 10
      OBVIOUS
    <3>4. days(y, 1, 1) = Start(y - 1) + MonthStart(10) + 1 - 719469
      <4>1. y - 1 = (IF 1 <= 2 THEN y - 1 ELSE y) /\ 10 = (IF 1 > 2 THEN 1 - 3 ELSE 1 + 9)
        BY ONLY <3>1, SMT
      <4> QED
        BY ONLY <3>1, <3>3, <4>1, DaysIs, SMT
    <3> QED
      BY ONLY <3>2, <3>4, MonthStarts, SMT
  <2>2. Start(Y) \in Int /\ Start(Y - 1) \in Int /\ Start(Y) = Start(Y - 1) + 365 + Leap(Y) /\ Leap(Y) \in Int
    <3>1. Y - 1 \in Int /\ Y - 1 + 1 = Y
      OBVIOUS
    <3> QED
      BY <3>1, StartNext, SMT DEF MarchLength, Leap
  <2>3. d = Start(Y) + n - 719468
    BY <1>2, <2>2, SMT DEF d
  <2> QED
    BY ONLY <1>5, <1>6, <2>1, <2>2, <2>3, Y \in Int, n \in Nat, d \in Int, SMT
<1>11. doy - MonthStart(MonthOf(doy)) + 1 = n - MonthStart(mp) + 1
  BY <1>3, <1>4
<1>12. month - 1 = (IF mp < 10 THEN mp + 2 ELSE mp - 10) /\ y - 1900 = Y - 1900 + (IF mp < 10 THEN 0 ELSE 1)
  BY ONLY <1>5, <1>6, Y \in Int, SMT
<1> QED
  BY ONLY <1>7, <1>8, <1>9, <1>10, <1>11, <1>12, SMT DEF Dated, d

\* An EXCEPT of every field is a record of its own.
LEMMA TomorrowFields ==
  ASSUME NEW s0, NEW h0, NEW d0, NEW m0, NEW y0, NEW w0, NEW e0,
         NEW d1, NEW m1, NEW y1, NEW w1, NEW e1, NEW s1, NEW h1,
         NEW t, t = [sec |-> s0, hour |-> h0, mday |-> d0, mon |-> m0, year |-> y0, wday |-> w0, yday |-> e0]
  PROVE  [t EXCEPT !.mday = d1, !.mon = m1, !.year = y1, !.wday = w1, !.yday = e1, !.sec = s1, !.hour = h1] =
         [sec |-> s1, hour |-> h1, mday |-> d1, mon |-> m1, year |-> y1, wday |-> w1, yday |-> e1]
<1>1. PICK a, b, c, d, e, f, g :
         /\ a = [t EXCEPT !.mday = d1] /\ b = [a EXCEPT !.mon = m1] /\ c = [b EXCEPT !.year = y1]
         /\ d = [c EXCEPT !.wday = w1] /\ e = [d EXCEPT !.yday = e1] /\ f = [e EXCEPT !.sec = s1]
         /\ g = [f EXCEPT !.hour = h1]
  OBVIOUS
<1>2. [t EXCEPT !.mday = d1, !.mon = m1, !.year = y1, !.wday = w1, !.yday = e1, !.sec = s1, !.hour = h1] = g
  BY ONLY <1>1
<1>3. a = [sec |-> s0, hour |-> h0, mday |-> d1, mon |-> m0, year |-> y0, wday |-> w0, yday |-> e0]
  BY <1>1, SMT
<1>4. b = [sec |-> s0, hour |-> h0, mday |-> d1, mon |-> m1, year |-> y0, wday |-> w0, yday |-> e0]
  <2>1. [a EXCEPT !.mon = m1]
          = [sec |-> s0, hour |-> h0, mday |-> d1, mon |-> m1, year |-> y0, wday |-> w0, yday |-> e0]
    BY ONLY <1>3, SMT
  <2> QED
    BY ONLY <1>1, <2>1, Zenon
<1>5. c = [sec |-> s0, hour |-> h0, mday |-> d1, mon |-> m1, year |-> y1, wday |-> w0, yday |-> e0]
  <2>1. [b EXCEPT !.year = y1]
          = [sec |-> s0, hour |-> h0, mday |-> d1, mon |-> m1, year |-> y1, wday |-> w0, yday |-> e0]
    BY ONLY <1>4, SMT
  <2> QED
    BY ONLY <1>1, <2>1, Zenon
<1>6. d = [sec |-> s0, hour |-> h0, mday |-> d1, mon |-> m1, year |-> y1, wday |-> w1, yday |-> e0]
  <2>1. [c EXCEPT !.wday = w1]
          = [sec |-> s0, hour |-> h0, mday |-> d1, mon |-> m1, year |-> y1, wday |-> w1, yday |-> e0]
    BY ONLY <1>5, SMT
  <2> QED
    BY ONLY <1>1, <2>1, Zenon
<1>7. e = [sec |-> s0, hour |-> h0, mday |-> d1, mon |-> m1, year |-> y1, wday |-> w1, yday |-> e1]
  <2>1. [d EXCEPT !.yday = e1]
          = [sec |-> s0, hour |-> h0, mday |-> d1, mon |-> m1, year |-> y1, wday |-> w1, yday |-> e1]
    BY ONLY <1>6, SMT
  <2> QED
    BY ONLY <1>1, <2>1, Zenon
<1>8. f = [sec |-> s1, hour |-> h0, mday |-> d1, mon |-> m1, year |-> y1, wday |-> w1, yday |-> e1]
  <2>1. [e EXCEPT !.sec = s1]
          = [sec |-> s1, hour |-> h0, mday |-> d1, mon |-> m1, year |-> y1, wday |-> w1, yday |-> e1]
    BY ONLY <1>7, SMT
  <2> QED
    BY ONLY <1>1, <2>1, Zenon
<1>9. g = [sec |-> s1, hour |-> h1, mday |-> d1, mon |-> m1, year |-> y1, wday |-> w1, yday |-> e1]
  <2>1. [f EXCEPT !.hour = h1]
          = [sec |-> s1, hour |-> h1, mday |-> d1, mon |-> m1, year |-> y1, wday |-> w1, yday |-> e1]
    BY ONLY <1>8, SMT
  <2> QED
    BY ONLY <1>1, <2>1, Zenon
<1> QED
  BY <1>2, <1>9

\* The day after day n of a year, and its month.
LEMMA TomorrowIs ==
  ASSUME PerHour \in Nat \ {0}, NEW Y \in Int, NEW n \in Nat, n < MarchLength(Y),
         NEW mp, InMonth(mp, n), NEW w, NEW r,
         NEW X \in Int, NEW k \in Nat, NEW mq, InMonth(mq, k),
         \/ n + 1 < MarchLength(Y) /\ X = Y /\ k = n + 1
         \/ n + 1 = MarchLength(Y) /\ X = Y + 1 /\ k = 0
  PROVE  Tomorrow(Dated(Y, n, mp, w, r)) = Dated(X, k, mq, (w + 1) % 7, 0)
<1>1. /\ mp \in 0 .. 11 /\ mq \in 0 .. 11 /\ MonthStart(mp) \in Int /\ MonthStart(mq) \in Int
      /\ mp < 11 => MonthStart(mp + 1) \in Int
  BY MonthStarts, SMT DEF InMonth
<1>2. Leap(Y) \in {0, 1} /\ Leap(Y + 1) \in {0, 1} /\ MarchLength(Y) = 365 + Leap(Y + 1)
  BY DEF Leap, MarchLength
<1>3. 0 \div PerHour = 0 /\ 0 % PerHour = 0
  OBVIOUS
<1> DEFINE t == Dated(Y, n, mp, w, r)
           y == t.year + 1900
           len == MonthLength(y, t.mon)
<1>4. /\ t.mday = n - MonthStart(mp) + 1
      /\ t.mon = IF mp < 10 THEN mp + 2 ELSE mp - 10
      /\ t.year = Y - 1900 + (IF mp < 10 THEN 0 ELSE 1)
      /\ t.wday = w
      /\ t.yday = IF mp < 10 THEN n + 59 + Leap(Y) ELSE n - 306
  BY DEF Dated
<1>5. y = Y + (IF mp < 10 THEN 0 ELSE 1)
  <2> HIDE DEF t
  <2> QED
    BY <1>4, SMT
<1>6. len = IF mp = 11 THEN MarchLength(Y) - 337 ELSE MonthStart(mp + 1) - MonthStart(mp)
  <2> HIDE DEF t, y
  <2>1. len = CASE t.mon = 1 -> 28 + Leap(y) [] t.mon \in {3, 5, 8, 10} -> 30 [] OTHER -> 31
    BY Zenon DEF MonthLength
  <2>2. CASE mp = 11
    <3>1. t.mon = 1 /\ y = Y + 1
      BY ONLY <1>4, <1>5, <2>2, Y \in Int, SMT
    <3> QED
      BY ONLY <2>1, <2>2, <3>1, <1>2, SMT
  <2>3. CASE mp = 10
    <3>1. t.mon = 0
      BY ONLY <1>4, <2>3, SMT
    <3>2. len = 31
      BY ONLY <2>1, <3>1, SMT
    <3> QED
      BY ONLY <2>3, <3>2, MonthStarts, SMT
  <2>4. CASE mp < 10
    <3>1. t.mon = mp + 2
      BY ONLY <1>4, <2>4, SMT
    <3>2. len = IF mp \in {1, 3, 6, 8} THEN 30 ELSE 31
      <4> HIDE DEF len
      <4> QED
        BY ONLY <1>1, <2>1, <2>4, <3>1, SMT
    <3> HIDE DEF len
    <3> QED
      BY ONLY <1>1, <2>4, <3>2, MonthStarts, SMT
  <2> HIDE DEF len
  <2> QED
    BY <1>1, <2>2, <2>3, <2>4
<1> DEFINE newMonth == t.mday = len
           newYear == newMonth /\ t.mon = 11
<1>7. Tomorrow(t) =
        [t EXCEPT !.mday = IF newMonth THEN 1 ELSE @ + 1,
                  !.mon = IF newYear THEN 0 ELSE IF newMonth THEN @ + 1 ELSE @,
                  !.year = IF newYear THEN @ + 1 ELSE @,
                  !.wday = (@ + 1) % 7, !.yday = IF newYear THEN 0 ELSE @ + 1,
                  !.sec = 0, !.hour = 0]
  BY Zenon DEF Tomorrow
<1>8. newMonth <=> IF mp = 11 THEN n + 1 = MarchLength(Y) ELSE n + 1 = MonthStart(mp + 1)
  <2> HIDE DEF t, y, len
  <2> QED
    BY ONLY <1>1, <1>2, <1>4, <1>6, n \in Nat, MonthStarts, SMTT(60) DEF newMonth
<1>9. newYear <=> mp = 9 /\ n + 1 = MonthStart(10)
  <2> HIDE DEF t, y, len, newMonth
  <2> QED
    BY ONLY <1>1, <1>4, <1>8, MonthStarts, n \in Nat, SMT DEF newYear
<1>10. \/ ~ newMonth /\ X = Y /\ k = n + 1 /\ mq = mp
       \/ newMonth /\ mp < 11 /\ X = Y /\ k = n + 1 /\ mq = mp + 1
       \/ newMonth /\ mp = 11 /\ X = Y + 1 /\ k = 0 /\ mq = 0
  <2> HIDE DEF newMonth
  <2> QED
    BY <1>1, <1>2, <1>8, MonthStarts, SMTT(60) DEF InMonth
<1>11. PICK a, b, c, e :
         /\ a = (IF newMonth THEN 1 ELSE t.mday + 1)
         /\ b = (IF newYear THEN 0 ELSE IF newMonth THEN t.mon + 1 ELSE t.mon)
         /\ c = (IF newYear THEN t.year + 1 ELSE t.year)
         /\ e = (IF newYear THEN 0 ELSE t.yday + 1)
  OBVIOUS
<1>12. Tomorrow(t) = [sec |-> 0, hour |-> 0, mday |-> a, mon |-> b, year |-> c,
                      wday |-> (w + 1) % 7, yday |-> e]
  <2> HIDE DEF newMonth, newYear
  <2>1. Tomorrow(t) = [t EXCEPT !.mday = a, !.mon = b, !.year = c, !.wday = (w + 1) % 7,
                                !.yday = e, !.sec = 0, !.hour = 0]
    <3> HIDE DEF t, y, len
    <3>1. t.wday = w
      BY <1>4
    <3> QED
      BY ONLY <1>7, <1>11, <3>1, SMT
  <2>2. t = [sec |-> t.sec, hour |-> t.hour, mday |-> t.mday, mon |-> t.mon, year |-> t.year,
             wday |-> t.wday, yday |-> t.yday]
    BY SMT DEF Dated
  <2> HIDE DEF t
  <2> QED
    BY ONLY <2>1, <2>2, TomorrowFields, Zenon
<1>13. /\ a = k - MonthStart(mq) + 1
       /\ b = IF mq < 10 THEN mq + 2 ELSE mq - 10
       /\ c = X - 1900 + (IF mq < 10 THEN 0 ELSE 1)
       /\ e = IF mq < 10 THEN k + 59 + Leap(X) ELSE k - 306
  <2> HIDE DEF t, y, len, newMonth, newYear
  <2> USE DEF InMonth
  <2>1. CASE ~ newMonth
    BY ONLY <2>1, <1>1, <1>2, <1>4, <1>8, <1>9, <1>10, <1>11, MonthStarts, n \in Nat, Y \in Int,
       SMTT(60)
  <2>2. CASE newMonth /\ mp < 11
    <3>1. n + 1 = MonthStart(mp + 1) /\ X = Y /\ k = n + 1 /\ mq = mp + 1
      BY ONLY <2>2, <1>8, <1>10, <1>1, SMT
    <3>2. newYear <=> mp = 9
      BY ONLY <3>1, <1>9, <1>1, MonthStarts, SMT
    <3> QED
      BY ONLY <3>1, <3>2, <2>2, <1>1, <1>2, <1>4, <1>11, MonthStarts, n \in Nat, Y \in Int, SMTT(60)
  <2>3. CASE newMonth /\ mp = 11
    BY ONLY <2>3, <1>1, <1>2, <1>4, <1>8, <1>9, <1>10, <1>11, MonthStarts, n \in Nat, Y \in Int,
       SMTT(60)
  <2> QED
    BY ONLY <2>1, <2>2, <2>3, <1>1, SMT
<1> QED
  <2> HIDE DEF newMonth, newYear
  <2> QED
    BY ONLY <1>3, <1>12, <1>13, SMT DEF Dated

\* mktime, with the month reduced to one of a year.
LEMMA MktimeIs ==
  ASSUME NEW t, t.year \in Int, NEW q \in Int, NEW r \in Int, 0 <= r, r < 12,
         t.mon = q * 12 + r
  PROVE  mktime(t) = (days(t.year + 1900 + q, r + 1, 1) + t.mday - 1) * Day + t.hour * PerHour + t.sec
<1>1. t.mon \in Int /\ 0 <= r /\ r < 12 /\ r \in Int
  OBVIOUS
<1>2. RoundedQuot(t.mon, 12) = q /\ RoundedRem(t.mon, 12) = r
  <2>1. PICK b \in Nat \ {0} : b = 12
    OBVIOUS
  <2>2. r < b
    BY <1>1, <2>1
  <2>3. RoundedQuot(q * b + r, b) = q /\ RoundedRem(q * b + r, b) = r
    BY ONLY <1>1, <2>2, RoundedParts, q \in Int, b \in Nat \ {0}, Zenon
  <2> QED
    BY ONLY <2>1, <2>3, t.mon = q * 12 + r
<1>3. Quot(t.mon, 12) \in Int /\ Rem(t.mon, 12) \in Int
  <2>1. 12 \in Nat \ {0}
    OBVIOUS
  <2> QED
    BY ONLY <1>1, <2>1, Truncated
<1>4. t.year + 1900 + q = t.year + 1900 + Quot(t.mon, 12) - (IF Rem(t.mon, 12) < 0 THEN 1 ELSE 0)
  BY ONLY <1>2, <1>3, t.year \in Int, q \in Int, SMT DEF RoundedQuot
<1>5. (IF Rem(t.mon, 12) < 0 THEN Rem(t.mon, 12) + 12 ELSE Rem(t.mon, 12)) = r
  BY ONLY <1>2 DEF RoundedRem
<1> QED
  BY ONLY <1>4, <1>5, SMT DEF mktime

\* mktime finds the time that a date was made of.
LEMMA MktimeDated ==
  ASSUME PerHour \in Nat \ {0}, Day \in Nat \ {0}, NEW Y \in Int, NEW n \in Nat, NEW mp, InMonth(mp, n),
         NEW w, NEW r \in Int
  PROVE  mktime(Dated(Y, n, mp, w, r)) = (Start(Y) + n - 719468) * Day + r
<1>0. PICK t : t = Dated(Y, n, mp, w, r)
  OBVIOUS
<1>1. mp \in 0 .. 11 /\ MonthStart(mp) \in Int
  BY MonthStarts, SMT DEF InMonth
<1>2. /\ t.mday = n - MonthStart(mp) + 1
      /\ t.mon = IF mp < 10 THEN mp + 2 ELSE mp - 10
      /\ t.year = Y - 1900 + (IF mp < 10 THEN 0 ELSE 1)
      /\ t.hour = r \div PerHour /\ t.sec = r % PerHour
  BY <1>0 DEF Dated
<1>3. PICK y \in Int : y = Y + (IF mp < 10 THEN 0 ELSE 1)
  OBVIOUS
<1>4. y = t.year + 1900 /\ t.mon \in 0 .. 11 /\ t.year \in Int /\ t.mday \in Int
  BY ONLY <1>1, <1>2, <1>3, n \in Nat, Y \in Int, SMT
<1>5. mktime(t) = (days(y, t.mon + 1, 1) + t.mday - 1) * Day + t.hour * PerHour + t.sec
  <2>1. PICK q \in Int, m \in Int :
          0 <= m /\ m < 12 /\ m = t.mon /\ t.mon = q * 12 + m /\ t.year \in Int /\ y = t.year + 1900 + q
    <3>1. /\ 0 \in Int /\ t.mon \in 0 .. 11 /\ t.mon = 0 * 12 + t.mon /\ t.year \in Int
          /\ y = t.year + 1900 + 0
      BY ONLY <1>4, SMT
    <3> QED
      BY ONLY <3>1, SMT
  <2>2. t.mon = q * 12 + m /\ t.year \in Int /\ 0 <= m /\ m < 12
    BY ONLY <2>1, SMT
  <2>3. m = t.mon
    BY ONLY <2>1, SMT
  <2>4. y = t.year + 1900 + q
    BY ONLY <2>1, SMT
  <2>5. mktime(t) = (days(t.year + 1900 + q, m + 1, 1) + t.mday - 1) * Day + t.hour * PerHour + t.sec
    BY ONLY <2>2, MktimeIs, q \in Int, m \in Int, SMT
  <2> QED
    BY ONLY <2>3, <2>4, <2>5, SMT
<1>6. days(y, t.mon + 1, 1) = Start(Y) + MonthStart(mp) - 719468
  <2>1. PICK m \in Int : m = t.mon + 1 /\ 1 <= m /\ m <= 12
    BY ONLY <1>4, SMT
  <2>2. Y = (IF m <= 2 THEN y - 1 ELSE y) /\ mp = (IF m > 2 THEN m - 3 ELSE m + 9) /\ 1 \in Int
    BY ONLY <1>1, <1>2, <1>3, <2>1, Y \in Int, SMT
  <2>3. days(y, m, 1) = Start(Y) + MonthStart(mp) + 1 - 719469
    <3>1. Y = (IF m <= 2 THEN y - 1 ELSE y)
      BY ONLY <2>2, SMT
    <3>2. mp = (IF m > 2 THEN m - 3 ELSE m + 9)
      BY ONLY <2>2, SMT
    <3>3. 1 \in Int
      OBVIOUS
    <3>4. 1 <= m /\ m <= 12
      BY ONLY <2>1, SMT
    <3>5. ASSUME NEW v, v = (IF m <= 2 THEN y - 1 ELSE y), NEW p, p = (IF m > 2 THEN m - 3 ELSE m + 9)
          PROVE  days(y, m, 1) = Start(v) + MonthStart(p) + 1 - 719469
      BY ONLY <3>3, <3>4, <3>5, DaysIs, y \in Int, m \in Int, SMT
    <3> QED
      BY ONLY <3>1, <3>2, <3>5, SMT
  <2>4. Start(Y) \in Int
    BY StartNext
  <2> QED
    BY ONLY <2>1, <2>3, <2>4, <1>1, SMT
<1>7. t.hour * PerHour + t.sec = r
  <2>1. r = PerHour * (r \div PerHour) + (r % PerHour) /\ r \div PerHour \in Int
    BY ONLY PerHour \in Nat \ {0}, r \in Int
  <2>2. PICK q \in Int, p \in Nat : q = r \div PerHour /\ p = PerHour
    BY <2>1
  <2>3. p * q = q * p
    OBVIOUS
  <2> QED
    BY ONLY <1>2, <2>1, <2>2, <2>3
<1>8. PICK k \in Int : k = Start(Y) + n - 719468 /\ days(y, t.mon + 1, 1) + t.mday - 1 = k
  <2>1. Start(Y) \in Int
    BY StartNext
  <2>2. days(y, t.mon + 1, 1) + t.mday - 1 = Start(Y) + n - 719468
    BY ONLY <2>1, <1>1, <1>2, <1>4, <1>6, n \in Nat, SMT
  <2> QED
    BY ONLY <2>1, <2>2, n \in Nat, SMT
<1>9. PICK u \in Int : u = k * Day
  BY ONLY Day \in Nat \ {0}, k \in Int
<1>10. t.hour * PerHour \in Int /\ t.sec \in Int
  BY ONLY <1>2, PerHour \in Nat \ {0}, r \in Int
<1>11. mktime(t) = u + t.hour * PerHour + t.sec
  <2>1. days(y, t.mon + 1, 1) + t.mday - 1 = k
    BY ONLY <1>8, SMT
  <2> QED
    BY ONLY <1>5, <1>9, <2>1, Zenon
<1>12. mktime(t) = u + r
  BY ONLY <1>11, <1>7, <1>9, <1>10, r \in Int
<1>13. mktime(t) = k * Day + r
  BY ONLY <1>12, <1>9, Zenon
<1> QED
  BY ONLY <1>0, <1>8, <1>13, SMT

\* Every time is a day of a year.
LEMMA TimeDated ==
  ASSUME NEW t \in Int, PerHour \in Nat \ {0}, PerDay \in Nat \ {0}
  PROVE  \E Y \in Int, n \in Nat, mp \in 0 .. 11 :
           /\ n < MarchLength(Y) /\ InMonth(mp, n) /\ DayOf(t) + 719468 = Start(Y) + n
           /\ gmtime(t) = Dated(Y, n, mp, (DayOf(t) + 4) % 7, SecondOf(t))
<1>1. DayOf(t) \in Int
  <2>1. Day \in Nat \ {0}
    BY DEF Day
  <2> QED
    BY <2>1, TimeSplit
<1>2. PICK z \in Int : z = DayOf(t) + 719468
  BY <1>1, SMT
<1>3. PICK Y \in Int, n \in Nat : z = Start(Y) + n /\ n < MarchLength(Y) /\ n < 366
  <2>1. \A doe : doe = z - EraOf(z) * 146097 =>
          \E Y \in Int, n \in Nat :
           /\ z = Start(Y) + n /\ n < MarchLength(Y) /\ n < 366
           /\ Y = YearOf(doe) + EraOf(z) * 400 /\ n = DayOfYear(doe)
    BY ONLY DayFound, z \in Int, SMT
  <2> QED
    BY ONLY <2>1, SMT
<1>4. PICK mp \in 0 .. 11 : InMonth(mp, n)
  BY <1>3, MonthFound, SMT
<1>5. DayOf(t) + 719468 = Start(Y) + n
  BY ONLY <1>2, <1>3, SMT
<1>6. gmtime(t) = Dated(Y, n, mp, (DayOf(t) + 4) % 7, SecondOf(t))
  BY ONLY <1>3, <1>4, <1>5, GmtimeIs, t \in Int, Y \in Int, n \in Nat, PerHour \in Nat \ {0},
     PerDay \in Nat \ {0}, SMT
<1> QED
  BY ONLY <1>3, <1>4, <1>5, <1>6, Y \in Int, n \in Nat, mp \in 0 .. 11, SMT

\* mktime undoes gmtime, for every second before and after 1970.
THEOREM GmtimeUndone ==
  ASSUME PerHour \in Nat \ {0}, PerDay \in Nat \ {0}, NEW t \in Int
  PROVE  mktime(gmtime(t)) = t
<1>1. Day \in Nat \ {0}
  BY DEF Day
<1>2. /\ DayOf(t) \in Int /\ SecondOf(t) \in Int
      /\ t = DayOf(t) * Day + SecondOf(t)
  BY <1>1, TimeSplit
<1>3. PICK Y \in Int, n \in Nat, mp \in 0 .. 11 :
           /\ n < MarchLength(Y) /\ InMonth(mp, n) /\ DayOf(t) + 719468 = Start(Y) + n
           /\ gmtime(t) = Dated(Y, n, mp, (DayOf(t) + 4) % 7, SecondOf(t))
  BY TimeDated, SMT
<1>4. \A w : mktime(Dated(Y, n, mp, w, SecondOf(t))) = (Start(Y) + n - 719468) * Day + SecondOf(t)
  BY ONLY <1>1, <1>2, <1>3, MktimeDated, PerHour \in Nat \ {0}, Y \in Int, n \in Nat, SMT
<1>5. Start(Y) + n - 719468 = DayOf(t)
  <2>1. Start(Y) \in Int
    BY StartNext
  <2> QED
    BY ONLY <2>1, <1>2, <1>3, n \in Nat, SMT
<1>6. mktime(gmtime(t)) = (Start(Y) + n - 719468) * Day + SecondOf(t)
  BY ONLY <1>3, <1>4, SMT
<1> QED
  BY ONLY <1>2, <1>5, <1>6, SMT

\* The partial sums of a list of numbers exist.
LEMMA Summed ==
  ASSUME NEW n \in Nat, NEW c \in [1 .. n -> Int]
  PROVE  \E g \in [0 .. n -> Int] : g = [i \in 0 .. n |-> IF i = 0 THEN 0 ELSE g[i - 1] + c[i]]
<1> DEFINE h == [i \in 1 .. n |-> [v \in Int |-> v + c[i]]]
           At(g) == [i \in 0 .. n |-> IF i = 0 THEN 0 ELSE g[i - 1] + c[i]]
<1>1. h \in Steps(n, Int)
  <2>1. \A i \in 1 .. n : [v \in Int |-> v + c[i]] \in [Int -> Int]
    BY SMT
  <2> QED
    BY <2>1 DEF Steps
<1>2. PICK g : g \in Iterates(n, Int, 0, h)
  <2> HIDE DEF h
  <2> QED
    BY <1>1, Iteration
<1>3. g \in [0 .. n -> Int] /\ g[0] = 0 /\ \A i \in 1 .. n : g[i] = h[i][g[i - 1]]
  <2> HIDE DEF h
  <2> QED
    BY <1>2 DEF Iterates
<1>4. ASSUME NEW i \in 1 .. n
      PROVE  i - 1 \in 0 .. n /\ g[i - 1] \in Int /\ g[i] = g[i - 1] + c[i]
  <2>1. i - 1 \in 0 .. n /\ g[i - 1] \in Int
    BY <1>3
  <2>2. g[i] = h[i][g[i - 1]]
    <3> HIDE DEF h
    <3> QED
      BY <1>3
  <2>3. h[i] = [v \in Int |-> v + c[i]]
    BY Zenon
  <2>4. \A v \in Int : h[i][v] = v + c[i]
    <3> HIDE DEF h
    <3> QED
      BY <2>3
  <2> QED
    <3> HIDE DEF h
    <3> QED
      BY <2>1, <2>2, <2>4
<1>5. g = At(g)
  <2>1. \A i \in 0 .. n : g[i] = At(g)[i]
    BY <1>3, <1>4
  <2>2. DOMAIN g = 0 .. n /\ DOMAIN At(g) = 0 .. n
    BY <1>3
  <2> QED
    BY <2>1, <2>2, <1>3
<1> QED
  BY ONLY <1>3, <1>5, Zenon

\* The last tick of a list of them.
Last(a) == a[Len(a)]

\* A clock that is read in each turn of the tick counts every tick.
LEMMA TicksCount ==
  ASSUME TickWrap \in Nat \ {0}, NEW a \in Seq(0 .. TickWrap - 1), a # <<>>
  PROVE  Wraps(a) \in Nat /\ ticks(a) = Wraps(a) * TickWrap + Last(a) /\ Last(a) \in 0 .. TickWrap - 1
<1> DEFINE Before(i) == IF i = 1 THEN 0 ELSE a[i - 1]
           SumsFrom(g) == [i \in 0 .. Len(a) |-> IF i = 0 THEN 0
                                                 ELSE g[i - 1] + Elapsed(a[i], IF i = 1 THEN 0 ELSE a[i - 1])]
           WrapsFrom(g) == [i \in 0 .. Len(a) |-> IF i = 0 THEN 0
                                                  ELSE g[i - 1] + (IF i > 1 /\ a[i] < a[i - 1] THEN 1 ELSE 0)]
           sum == CHOOSE g : g = SumsFrom(g)
           n == CHOOSE g : g = WrapsFrom(g)
           c == [i \in 1 .. Len(a) |-> Elapsed(a[i], IF i = 1 THEN 0 ELSE a[i - 1])]
           e == [i \in 1 .. Len(a) |-> IF i > 1 /\ a[i] < a[i - 1] THEN 1 ELSE 0]
<1>1. Len(a) \in Nat \ {0} /\ \A i \in 1 .. Len(a) : a[i] \in 0 .. TickWrap - 1
  OBVIOUS
<1>2. \A i \in 1 .. Len(a) : Before(i) \in 0 .. TickWrap - 1
  BY <1>1
<1>3. ASSUME NEW i \in 1 .. Len(a)
      PROVE  Elapsed(a[i], Before(i)) = IF a[i] < Before(i) THEN a[i] - Before(i) + TickWrap
                                        ELSE a[i] - Before(i)
  <2>1. PICK u \in 0 .. TickWrap - 1, v \in 0 .. TickWrap - 1 : u = a[i] /\ v = Before(i)
    BY <1>1, <1>2
  <2>2. (u - v) % TickWrap = IF u < v THEN u - v + TickWrap ELSE u - v
    BY ONLY Distance, TickWrap \in Nat \ {0}, u \in 0 .. TickWrap - 1, v \in 0 .. TickWrap - 1
  <2> HIDE DEF Before
  <2> QED
    BY ONLY <2>1, <2>2 DEF Elapsed
<1>4. c \in [1 .. Len(a) -> Int]
  <2>1. \A i \in 1 .. Len(a) : Elapsed(a[i], Before(i)) \in Int
    <3> SUFFICES ASSUME NEW i \in 1 .. Len(a) PROVE Elapsed(a[i], Before(i)) \in Int
      OBVIOUS
    <3>1. a[i] \in Int /\ Before(i) \in Int
      BY <1>1, <1>2
    <3> HIDE DEF Before
    <3> QED
      BY ONLY <3>1, <1>3, TickWrap \in Nat \ {0}, i \in 1 .. Len(a)
  <2> QED
    BY <2>1, Zenon
<1>5. e \in [1 .. Len(a) -> Int]
  OBVIOUS
<1>6. sum = SumsFrom(sum)
  <2>1. PICK g : g = [i \in 0 .. Len(a) |-> IF i = 0 THEN 0 ELSE g[i - 1] + c[i]]
    <3> HIDE DEF c
    <3>1. PICK l \in Nat : l = Len(a)
      BY <1>1
    <3>2. c \in [1 .. l -> Int]
      BY ONLY <3>1, <1>4
    <3>3. \E g \in [0 .. l -> Int] : g = [i \in 0 .. l |-> IF i = 0 THEN 0 ELSE g[i - 1] + c[i]]
      BY ONLY <3>2, Summed, l \in Nat, Zenon
    <3> QED
      BY ONLY <3>1, <3>3, Zenon
  <2>2. [i \in 0 .. Len(a) |-> IF i = 0 THEN 0 ELSE g[i - 1] + c[i]] = SumsFrom(g)
    <3>1. \A i \in 0 .. Len(a) : i # 0 => i \in 1 .. Len(a)
      BY <1>1
    <3>2. \A i \in 1 .. Len(a) : c[i] = Elapsed(a[i], IF i = 1 THEN 0 ELSE a[i - 1])
      BY Zenon
    <3> HIDE DEF c
    <3> QED
      BY ONLY <3>1, <3>2, Zenon
  <2>3. g = SumsFrom(g)
    <3> HIDE DEF c, SumsFrom
    <3> QED
      BY ONLY <2>1, <2>2, Zenon
  <2> HIDE DEF SumsFrom
  <2> QED
    BY <2>3, Zenon
<1>7. n = WrapsFrom(n)
  <2>1. PICK g : g = [i \in 0 .. Len(a) |-> IF i = 0 THEN 0 ELSE g[i - 1] + e[i]]
    <3> HIDE DEF e
    <3>1. PICK l \in Nat : l = Len(a)
      BY <1>1
    <3>2. e \in [1 .. l -> Int]
      BY ONLY <3>1, <1>5
    <3>3. \E g \in [0 .. l -> Int] : g = [i \in 0 .. l |-> IF i = 0 THEN 0 ELSE g[i - 1] + e[i]]
      BY ONLY <3>2, Summed, l \in Nat, Zenon
    <3> QED
      BY ONLY <3>1, <3>3, Zenon
  <2>2. [i \in 0 .. Len(a) |-> IF i = 0 THEN 0 ELSE g[i - 1] + e[i]] = WrapsFrom(g)
    <3>1. \A i \in 0 .. Len(a) : i # 0 => i \in 1 .. Len(a)
      BY <1>1
    <3>2. \A i \in 1 .. Len(a) : e[i] = IF i > 1 /\ a[i] < a[i - 1] THEN 1 ELSE 0
      BY Zenon
    <3> HIDE DEF e
    <3> QED
      BY ONLY <3>1, <3>2, Zenon
  <2>3. g = WrapsFrom(g)
    <3> HIDE DEF e, WrapsFrom
    <3> QED
      BY ONLY <2>1, <2>2, Zenon
  <2> HIDE DEF WrapsFrom
  <2> QED
    BY <2>3, Zenon
<1>8. ticks(a) = sum[Len(a)] /\ Wraps(a) = n[Len(a)]
  BY Zenon DEF ticks, Wraps
<1>9. sum[0] = 0 /\ \A i \in 1 .. Len(a) : sum[i] = sum[i - 1] + Elapsed(a[i], Before(i))
  <2> HIDE DEF sum
  <2>1. SumsFrom(sum)[0] = 0
    BY <1>1
  <2>2. \A i \in 1 .. Len(a) : SumsFrom(sum)[i] = sum[i - 1] + Elapsed(a[i], Before(i))
    <3>1. \A i \in 1 .. Len(a) : i \in 0 .. Len(a) /\ i # 0
      BY <1>1
    <3> QED
      BY ONLY <3>1, Zenon
  <2> HIDE DEF SumsFrom, Before
  <2> QED
    BY ONLY <2>1, <2>2, <1>6, Zenon
<1>10. n[0] = 0 /\ \A i \in 1 .. Len(a) : n[i] = n[i - 1] + (IF i > 1 /\ a[i] < a[i - 1] THEN 1 ELSE 0)
  <2> HIDE DEF n
  <2>1. WrapsFrom(n)[0] = 0
    BY <1>1
  <2>2. \A i \in 1 .. Len(a) : WrapsFrom(n)[i] = n[i - 1] + (IF i > 1 /\ a[i] < a[i - 1] THEN 1 ELSE 0)
    <3>1. \A i \in 1 .. Len(a) : i \in 0 .. Len(a) /\ i # 0
      BY <1>1
    <3> QED
      BY ONLY <3>1, Zenon
  <2> HIDE DEF WrapsFrom
  <2> QED
    BY ONLY <2>1, <2>2, <1>7, Zenon
<1> HIDE DEF sum, n, SumsFrom, WrapsFrom, c, e
<1> DEFINE At(i) == IF i = 0 THEN 0 ELSE a[i]
           I == {i \in Nat : i <= Len(a) => n[i] \in Nat /\ sum[i] = n[i] * TickWrap + At(i)}
<1>11. 0 \in I
  BY <1>9, <1>10
<1>12. ASSUME NEW i \in Nat, i \in I PROVE i + 1 \in I
  <2> SUFFICES ASSUME i + 1 <= Len(a)
               PROVE  n[i + 1] \in Nat /\ sum[i + 1] = n[i + 1] * TickWrap + At(i + 1)
    OBVIOUS
  <2>1. i + 1 \in 1 .. Len(a) /\ (i + 1) - 1 = i /\ n[i] \in Nat /\ sum[i] = n[i] * TickWrap + At(i)
    BY <1>12, <1>1
  <2>2. PICK k \in Nat, b \in 0 .. TickWrap - 1, d \in 0 .. TickWrap - 1, p \in Int :
          /\ k = n[i] /\ b = Before(i + 1) /\ d = a[i + 1] /\ p = k * TickWrap
    BY <2>1, <1>1, <1>2
  <2>3. At(i) = b /\ At(i + 1) = d
    BY <2>1, <2>2
  <2>4. Elapsed(d, b) = IF d < b THEN d - b + TickWrap ELSE d - b
    <3> HIDE DEF Before
    <3> QED
      BY <2>1, <2>2, <1>3
  <2>5. n[i + 1] = k + (IF d < b THEN 1 ELSE 0)
    <3>1. (i + 1 > 1 /\ a[i + 1] < a[i]) <=> d < b
      BY <2>1, <2>2
    <3>2. n[i + 1] = n[i] + (IF i + 1 > 1 /\ a[i + 1] < a[i] THEN 1 ELSE 0)
      BY <2>1, <1>10
    <3> QED
      BY ONLY <3>1, <3>2, <2>2
  <2>6. sum[i + 1] = p + b + (IF d < b THEN d - b + TickWrap ELSE d - b)
    <3>1. sum[i + 1] = sum[i] + Elapsed(a[i + 1], Before(i + 1))
      <4> HIDE DEF Before
      <4> QED
        BY <2>1, <1>9
    <3> HIDE DEF At, Before
    <3> QED
      BY ONLY <3>1, <2>1, <2>2, <2>3, <2>4
  <2>7. (k + 1) * TickWrap = p + TickWrap
    BY ONLY <2>2, TickWrap \in Nat \ {0}, k \in Nat
  <2> HIDE DEF At, Before
  <2>8. CASE d < b
    <3>1. n[i + 1] = k + 1 /\ sum[i + 1] = p + TickWrap + d
      BY ONLY <2>8, <2>5, <2>6, TickWrap \in Nat \ {0}, p \in Int, b \in 0 .. TickWrap - 1,
         d \in 0 .. TickWrap - 1
    <3> QED
      BY ONLY <3>1, <2>7, <2>3, k \in Nat
  <2>9. CASE ~ (d < b)
    <3>1. n[i + 1] = k /\ sum[i + 1] = p + d
      BY ONLY <2>9, <2>5, <2>6, k \in Nat, p \in Int, b \in 0 .. TickWrap - 1, d \in 0 .. TickWrap - 1
    <3> QED
      BY ONLY <3>1, <2>2, <2>3, k \in Nat
  <2> QED
    BY <2>8, <2>9
<1>13. Len(a) \in I
  <2> HIDE DEF I
  <2> QED
    BY <1>1, <1>11, <1>12, Induction
<1>14. n[Len(a)] \in Nat /\ sum[Len(a)] = n[Len(a)] * TickWrap + a[Len(a)]
  BY <1>13, <1>1
<1> QED
  BY ONLY <1>14, <1>8, <1>1 DEF Last

\* What clock() and time() make of them.
LEMMA ClockTells ==
  ASSUME TickWrap \in Nat \ {0}, PerSecond \in Nat \ {0}, NEW a, NEW now \in Int,
         ticks(a) = now
  PROVE  /\ 0 <= now /\ 2 * now < TickWrap => clock(a) = now /\ time(a) = now \div PerSecond
         /\ (clock(a) - now) % TickWrap = 0
<1>1. PICK q \in Int, r \in 0 .. TickWrap - 1 : now = q * TickWrap + r /\ r = now % TickWrap
  BY Division
<1>2. clock(a) = IF 2 * r >= TickWrap THEN r - TickWrap ELSE r
  BY ONLY <1>1, ticks(a) = now, SMT DEF clock
<1>3. ASSUME 0 <= now, 2 * now < TickWrap
      PROVE  clock(a) = now /\ time(a) = now \div PerSecond
  <2>1. now \in 0 .. TickWrap - 1 /\ now = 0 * TickWrap + now
    BY <1>3
  <2>2. r = now
    BY <2>1, <1>1, Remainder
  <2>3. clock(a) = now
    BY ONLY <2>2, <1>2, <1>3, TickWrap \in Nat \ {0}, now \in Int
  <2>4. now \in Nat
    BY <1>3
  <2>5. Quot(now, PerSecond) = now \div PerSecond
    BY ONLY <2>4, NaturalQuot, PerSecond \in Nat \ {0}
  <2> QED
    BY ONLY <2>3, <2>5 DEF time
<1>4. (clock(a) - now) % TickWrap = 0
  <2> DEFINE p == IF 2 * r >= TickWrap THEN -q - 1 ELSE -q
  <2>1. p \in Int
    OBVIOUS
  <2>2. clock(a) - now = p * TickWrap + 0
    <3>1. PICK v \in Int : v = q * TickWrap
      OBVIOUS
    <3>2. (-q) * TickWrap = -v /\ (-q - 1) * TickWrap = -v - TickWrap
      BY ONLY <3>1, q \in Int, TickWrap \in Nat \ {0}
    <3>3. CASE 2 * r >= TickWrap
      <4>1. p = -q - 1 /\ clock(a) = r - TickWrap
        BY <3>3, <1>2
      <4> QED
        BY ONLY <4>1, <3>1, <3>2, <1>1, r \in 0 .. TickWrap - 1, TickWrap \in Nat \ {0}
    <3>4. CASE ~ (2 * r >= TickWrap)
      <4>1. p = -q /\ clock(a) = r
        BY <3>4, <1>2
      <4> QED
        BY ONLY <4>1, <3>1, <3>2, <1>1, r \in 0 .. TickWrap - 1, TickWrap \in Nat \ {0}
    <3> QED
      BY <3>3, <3>4
  <2>3. 0 \in 0 .. TickWrap - 1 /\ clock(a) - now \in Int
    BY <1>2, TickWrap \in Nat \ {0}
  <2> HIDE DEF p
  <2> QED
    BY ONLY <2>1, <2>2, <2>3, Remainder, TickWrap \in Nat \ {0}
<1> QED
  BY <1>3, <1>4

\* New year's day, counted from March of the year before.
LEMMA NewYearIs ==
  ASSUME NEW y \in Int
  PROVE  NewYear(y) \in Int /\ NewYear(y) = Start(y - 1) - 719162
<1>1. PICK x \in Int : x = y - 1
  BY SMT
<1>2. PICK u \in Int, v \in Int, w \in Int : u = x \div 4 /\ v = x \div 100 /\ w = x \div 400
  BY NextQuotient, SMT
<1>3. Start(x) = 365 * x + u - v + w
  BY ONLY <1>2, SMT DEF Start
<1>4. LeapsBefore(y) = u - v + w
  BY ONLY <1>1, <1>2, SMT DEF LeapsBefore
<1>5. LeapsBefore(1970) = 477
  BY SMT DEF LeapsBefore
<1>6. NewYear(y) = 365 * (y - 1970) + (u - v + w) - 477
  BY ONLY <1>4, <1>5, SMT DEF NewYear
<1>7. NewYear(y) = Start(x) - 719162 /\ NewYear(y) \in Int
  BY ONLY <1>1, <1>3, <1>6, y \in Int, x \in Int, u \in Int, v \in Int, w \in Int, SMT
<1> QED
  BY ONLY <1>1, <1>7, SMT

\* The days of a year before each month, as the calendar has them and as the
\* code computes them.
LEMMA MonthBegins ==
  ASSUME NEW y \in Int, NEW f,
         f = [k \in 0 .. 12 |-> IF k = 0 THEN 0 ELSE f[k - 1] + MonthLength(y, k - 1)],
         NEW m \in Int, 0 <= m, m < 12
  PROVE  f[m] \in Int /\ days(y, m + 1, 1) = NewYear(y) + f[m]
<1>1. PICK g \in {0, 1} : g = Leap(y)
  BY DEF Leap
<1>2. f[0] = 0 /\ \A k \in 1 .. 12 : f[k] = f[k - 1] + MonthLength(y, k - 1)
  <2> DEFINE h == [k \in 0 .. 12 |-> IF k = 0 THEN 0 ELSE f[k - 1] + MonthLength(y, k - 1)]
  <2>1. 0 \in 0 .. 12 /\ \A k \in 1 .. 12 : k \in 0 .. 12 /\ k # 0
    BY SMT
  <2>2. h[0] = 0 /\ \A k \in 1 .. 12 : h[k] = f[k - 1] + MonthLength(y, k - 1)
    BY ONLY <2>1, Zenon
  <2>3. f = h
    OBVIOUS
  <2> HIDE DEF h
  <2> QED
    BY ONLY <2>2, <2>3, Zenon
<1>3. /\ f[1] = f[0] + 31 /\ f[2] = f[1] + 28 + g /\ f[3] = f[2] + 31 /\ f[4] = f[3] + 30
      /\ f[5] = f[4] + 31 /\ f[6] = f[5] + 30 /\ f[7] = f[6] + 31 /\ f[8] = f[7] + 31
      /\ f[9] = f[8] + 30 /\ f[10] = f[9] + 31 /\ f[11] = f[10] + 30
  <2>1. /\ MonthLength(y, 0) = 31 /\ MonthLength(y, 1) = 28 + g /\ MonthLength(y, 2) = 31
        /\ MonthLength(y, 3) = 30 /\ MonthLength(y, 4) = 31 /\ MonthLength(y, 5) = 30
        /\ MonthLength(y, 6) = 31 /\ MonthLength(y, 7) = 31 /\ MonthLength(y, 8) = 30
        /\ MonthLength(y, 9) = 31 /\ MonthLength(y, 10) = 30
    BY ONLY <1>1, SMT DEF MonthLength
  <2>2. /\ f[1] = f[0] + MonthLength(y, 0) /\ f[2] = f[1] + MonthLength(y, 1)
        /\ f[3] = f[2] + MonthLength(y, 2) /\ f[4] = f[3] + MonthLength(y, 3)
        /\ f[5] = f[4] + MonthLength(y, 4) /\ f[6] = f[5] + MonthLength(y, 5)
        /\ f[7] = f[6] + MonthLength(y, 6) /\ f[8] = f[7] + MonthLength(y, 7)
        /\ f[9] = f[8] + MonthLength(y, 8) /\ f[10] = f[9] + MonthLength(y, 9)
        /\ f[11] = f[10] + MonthLength(y, 10)
    <3>1. \A k \in 1 .. 12 : \A j : j = k - 1 => f[k] = f[j] + MonthLength(y, j)
      BY ONLY <1>2, SMT
    <3> QED
      BY ONLY <3>1, SMT
  <2>3. f[0] \in Int
    BY ONLY <1>2, SMT
  <2> QED
    BY ONLY <2>1, <2>2, <2>3, g \in {0, 1}, SMT
<1>4. /\ f[0] = 0 /\ f[1] = 31 /\ f[2] = 59 + g /\ f[3] = 90 + g /\ f[4] = 120 + g
      /\ f[5] = 151 + g /\ f[6] = 181 + g /\ f[7] = 212 + g /\ f[8] = 243 + g
      /\ f[9] = 273 + g /\ f[10] = 304 + g /\ f[11] = 334 + g
  BY ONLY <1>2, <1>3, g \in {0, 1}, SMT
<1>5. PICK s \in Int, x \in Int : x = y - 1 /\ s = Start(x)
  BY StartNext, SMT
<1>6. NewYear(y) = s - 719162
  BY ONLY NewYearIs, <1>5, y \in Int, SMT
<1>7. Start(y) = s + 365 + g
  <2>1. Start(x + 1) = Start(x) + MarchLength(x)
    BY ONLY StartNext, x \in Int
  <2>2. x + 1 = y
    BY ONLY <1>5, x \in Int, y \in Int
  <2>3. MarchLength(x) = 365 + g
    BY ONLY <2>2, <1>1, SMT DEF MarchLength
  <2> QED
    BY ONLY <2>1, <2>2, <2>3, <1>5, g \in {0, 1}, SMT
<1>8. PICK j \in Int : j = m + 1 /\ 1 <= j /\ j <= 12
  BY SMT
<1>9. 1 \in Int
  OBVIOUS
<1>10. CASE m < 2
  <2>1. PICK mp \in Int : mp = m + 10
    BY SMT
  <2>2. x = (IF j <= 2 THEN y - 1 ELSE y) /\ mp = (IF j > 2 THEN j - 3 ELSE j + 9)
    BY ONLY <1>5, <1>8, <1>10, <2>1, m \in Int, SMT
  <2>3. ASSUME NEW v, v = (IF j <= 2 THEN y - 1 ELSE y), NEW p, p = (IF j > 2 THEN j - 3 ELSE j + 9)
        PROVE  days(y, j, 1) = Start(v) + MonthStart(p) + 1 - 719469
    BY ONLY <1>9, <1>8, <2>3, DaysIs, y \in Int, j \in Int, SMT
  <2>4. days(y, j, 1) = s + MonthStart(mp) + 1 - 719469
    BY ONLY <2>2, <2>3, <1>5, SMT
  <2>5. MonthStart(mp) = 306 + f[m] /\ f[m] \in Int
    <3>1. m = 0 \/ m = 1
      BY <1>10
    <3> QED
      BY ONLY <3>1, <2>1, <1>4, MonthStarts, SMT
  <2> QED
    BY ONLY <2>4, <2>5, <1>6, <1>8, s \in Int, SMT
<1>11. CASE ~ (m < 2)
  <2>1. PICK mp \in Int : mp = m - 2
    BY SMT
  <2>2. y = (IF j <= 2 THEN y - 1 ELSE y) /\ mp = (IF j > 2 THEN j - 3 ELSE j + 9)
    BY ONLY <1>5, <1>8, <1>11, <2>1, m \in Int, SMT
  <2>3. ASSUME NEW v, v = (IF j <= 2 THEN y - 1 ELSE y), NEW p, p = (IF j > 2 THEN j - 3 ELSE j + 9)
        PROVE  days(y, j, 1) = Start(v) + MonthStart(p) + 1 - 719469
    BY ONLY <1>9, <1>8, <2>3, DaysIs, y \in Int, j \in Int, SMT
  <2>4. days(y, j, 1) = s + 365 + g + MonthStart(mp) + 1 - 719469
    BY ONLY <2>2, <2>3, <1>7, SMT
  <2>5. f[m] = MonthStart(mp) + 59 + g /\ MonthStart(mp) \in Int
    <3>1. m \in {2, 3, 4, 5, 6, 7, 8, 9, 10, 11}
      BY <1>11
    <3> QED
      BY ONLY <3>1, <2>1, <1>4, MonthStarts, g \in {0, 1}, SMT
  <2> QED
    BY ONLY <2>4, <2>5, <1>6, <1>8, s \in Int, g \in {0, 1}, SMT
<1> QED
  BY <1>10, <1>11, SMT

\* The same for DaysBefore, whose function exists.
LEMMA MonthBegin ==
  ASSUME NEW y \in Int, NEW m \in Int, 0 <= m, m < 12
  PROVE  days(y, m + 1, 1) = NewYear(y) + DaysBefore(y, m)
<1> DEFINE At(f) == [k \in 0 .. 12 |-> IF k = 0 THEN 0 ELSE f[k - 1] + MonthLength(y, k - 1)]
           B == CHOOSE f : f = At(f)
<1>1. B = At(B)
  <2> DEFINE c == [k \in 1 .. 12 |-> MonthLength(y, k - 1)]
  <2>1. c \in [1 .. 12 -> Int]
    <3>1. Leap(y) \in Int
      BY DEF Leap
    <3>2. \A k : MonthLength(y, k) \in Int
      BY ONLY <3>1, SMT DEF MonthLength
    <3> QED
      BY ONLY <3>2, Zenon
  <2>2. PICK n \in Nat : n = 12
    OBVIOUS
  <2>3. PICK g : g = [k \in 0 .. 12 |-> IF k = 0 THEN 0 ELSE g[k - 1] + c[k]]
    <3> HIDE DEF c
    <3>1. c \in [1 .. n -> Int]
      BY ONLY <2>1, <2>2, SMT
    <3>2. \E g \in [0 .. n -> Int] : g = [i \in 0 .. n |-> IF i = 0 THEN 0 ELSE g[i - 1] + c[i]]
      BY ONLY <3>1, Summed, n \in Nat, Zenon
    <3> QED
      BY ONLY <2>2, <3>2, Zenon
  <2>4. [k \in 0 .. 12 |-> IF k = 0 THEN 0 ELSE g[k - 1] + c[k]] = At(g)
    <3>1. \A k \in 0 .. 12 : k # 0 => k \in 1 .. 12
      BY SMT
    <3>2. \A k \in 1 .. 12 : c[k] = MonthLength(y, k - 1)
      BY Zenon
    <3> HIDE DEF c
    <3> QED
      BY ONLY <3>1, <3>2, Zenon
  <2>5. g = At(g)
    <3> HIDE DEF c, At
    <3> QED
      BY ONLY <2>3, <2>4, Zenon
  <2> HIDE DEF At
  <2> QED
    BY <2>5, Zenon
<1>2. DaysBefore(y, m) = B[m]
  BY Zenon DEF DaysBefore
<1> HIDE DEF B
<1>3. B = [k \in 0 .. 12 |-> IF k = 0 THEN 0 ELSE B[k - 1] + MonthLength(y, k - 1)]
  BY <1>1, Zenon
<1>4. days(y, m + 1, 1) = NewYear(y) + B[m]
  BY ONLY <1>3, MonthBegins, y \in Int, m \in Int, 0 <= m, m < 12, SMT
<1> QED
  BY ONLY <1>2, <1>4, Zenon

\* A date and time of day whose fields may be outside their range.
Dates == [year : Int, mon : Int, mday : Int, hour : Int, sec : Int]

\* mktime takes fields outside their range for what they say.
LEMMA MktimeTells ==
  ASSUME NEW a \in Dates
  PROVE  MktimeAgrees(a)
<1>1. a.year \in Int /\ a.mon \in Int
  BY SMT DEF Dates
<1>2. PICK q \in Int, r \in Int :
          q = a.mon \div 12 /\ r = a.mon % 12 /\ a.mon = q * 12 + r /\ 0 <= r /\ r < 12
  BY <1>1, SMT
<1>3. PICK y \in Int : y = a.year + 1900 + q
  BY <1>1, SMT
<1>4. days(y, r + 1, 1) = NewYear(y) + DaysBefore(y, r)
  BY ONLY <1>2, MonthBegin, y \in Int, r \in Int, SMT
<1>6. mktime(a) = (days(y, r + 1, 1) + a.mday - 1) * Day + a.hour * PerHour + a.sec
  <2>1. mktime(a) = (days(a.year + 1900 + q, r + 1, 1) + a.mday - 1) * Day + a.hour * PerHour + a.sec
    <3>1. a.mon = q * 12 + r
      BY ONLY <1>2, SMT
    <3>2. 0 <= r /\ r < 12
      BY ONLY <1>2, SMT
    <3>3. a.year \in Int
      BY ONLY <1>1, SMT
    <3> QED
      BY ONLY <3>1, <3>2, <3>3, MktimeIs, q \in Int, r \in Int, SMT
  <2> QED
    BY ONLY <2>1, <1>3, SMT
<1>7. mktime(a) = (NewYear(y) + DaysBefore(y, r) + a.mday - 1) * Day + a.hour * PerHour + a.sec
  BY ONLY <1>4, <1>6, SMT
<1>8. a.year + 1900 + a.mon \div 12 = y /\ a.mon % 12 = r
  <2>1. PICK v : v = a.mon \div 12
    OBVIOUS
  <2>2. PICK w : w = a.mon % 12
    OBVIOUS
  <2>3. v = q /\ w = r
    BY ONLY <2>1, <2>2, <1>2, Zenon
  <2>4. a.year + 1900 + v = y
    BY ONLY <2>3, <1>3, SMT
  <2> QED
    BY ONLY <2>1, <2>2, <2>3, <2>4, SMT
<1> QED
  BY ONLY <1>7, <1>8, SMT DEF MktimeAgrees

\* clock() and time() agree with a clock that counts every tick.
LEMMA ClockKept ==
  ASSUME TickWrap \in Nat \ {0}, PerSecond \in Nat \ {0}, NEW a \in Seq(0 .. TickWrap - 1), a # <<>>
  PROVE  ClockAgrees(a)
<1>1. PICK now \in Int : now = Wraps(a) * TickWrap + a[Len(a)]
  BY TicksCount DEF Last
<1>2. ticks(a) = now
  BY ONLY <1>1, TicksCount, TickWrap \in Nat \ {0}, a \in Seq(0 .. TickWrap - 1), a # <<>> DEF Last
<1>3. /\ 0 <= now /\ 2 * now < TickWrap => clock(a) = now /\ time(a) = now \div PerSecond
      /\ (clock(a) - now) % TickWrap = 0
  BY ONLY <1>2, ClockTells, TickWrap \in Nat \ {0}, PerSecond \in Nat \ {0}, now \in Int
<1>4. 0 <= now
  <2>1. Wraps(a) \in Nat /\ a[Len(a)] \in 0 .. TickWrap - 1
    BY TicksCount DEF Last
  <2>2. PICK k \in Nat, u \in Nat : k = Wraps(a) /\ u = a[Len(a)]
    BY <2>1
  <2>3. k * TickWrap >= 0
    OBVIOUS
  <2> QED
    BY ONLY <2>2, <2>3, <1>1, k \in Nat, u \in Nat, TickWrap \in Nat \ {0}
<1> QED
  BY ONLY <1>1, <1>2, <1>3, <1>4, Zenon DEF ClockAgrees

\* 1970 begins at time 0.
LEMMA EpochDated ==
  ASSUME PerHour \in Nat \ {0}, PerDay \in Nat \ {0}
  PROVE  gmtime(0) = [sec |-> 0, hour |-> 0, mday |-> 1, mon |-> 0, year |-> 70, wday |-> 4, yday |-> 0]
<1>1. Day \in Nat \ {0}
  BY DEF Day
<1>2. DayOf(0) = 0 /\ SecondOf(0) = 0
  <2>1. PICK d \in Int, r \in Int : d = 0 /\ r = 0 /\ r < Day
    BY <1>1
  <2>2. DayOf(d * Day + r) = d /\ SecondOf(d * Day + r) = r
    BY ONLY <1>1, <2>1, TimeParts, d \in Int, r \in Int
  <2>3. d * Day + r = 0
    BY ONLY <2>1, <1>1
  <2> QED
    BY ONLY <2>1, <2>2, <2>3
<1>3. PICK Y \in Int, n \in Nat, mp \in Int : Y = 1969 /\ n = 306 /\ mp = 10
  BY SMT
<1>4. Start(Y) = 719162
  BY ONLY <1>3, SMT DEF Start
<1>5. n < MarchLength(Y)
  <2>1. MarchLength(Y) \in {365, 366}
    BY ONLY StartNext, Y \in Int
  <2> QED
    BY ONLY <2>1, <1>3, SMT
<1>6. InMonth(mp, n)
  BY ONLY <1>3, MonthStarts, SMT DEF InMonth
<1>7. DayOf(0) + 719468 = Start(Y) + n
  BY ONLY <1>2, <1>3, <1>4, SMT
<1>8. gmtime(0) = Dated(Y, n, mp, (DayOf(0) + 4) % 7, SecondOf(0))
  <2>1. 0 \in Int
    OBVIOUS
  <2> QED
    BY ONLY <2>1, <1>5, <1>6, <1>7, GmtimeIs, Y \in Int, n \in Nat, PerHour \in Nat \ {0},
       PerDay \in Nat \ {0}, SMT
<1>9. (DayOf(0) + 4) % 7 = 4
  BY ONLY <1>2, SMT
<1>10. 0 % PerHour = 0 /\ 0 \div PerHour = 0
  <2>1. PICK x \in Int : x = 0 /\ x = 0 * PerHour + x /\ x \in 0 .. PerHour - 1
    OBVIOUS
  <2>2. x % PerHour = x
    BY ONLY <2>1, Remainder, PerHour \in Nat \ {0}, x \in Int
  <2>3. x * PerHour <= x /\ x < x * PerHour + PerHour
    BY ONLY <2>1, PerHour \in Nat \ {0}
  <2>4. x \div PerHour = x
    BY ONLY <2>3, QuotientIs, PerHour \in Nat \ {0}, x \in Int
  <2> QED
    BY ONLY <2>1, <2>2, <2>4
<1>11. n - MonthStart(mp) + 1 = 1
  BY ONLY <1>3, MonthStarts, SMT
<1>12. /\ Y - 1900 + (IF mp < 10 THEN 0 ELSE 1) = 70
       /\ (IF mp < 10 THEN mp + 2 ELSE mp - 10) = 0
       /\ (IF mp < 10 THEN n + 59 + Leap(Y) ELSE n - 306) = 0
  BY ONLY <1>3, SMT
<1>13. gmtime(0) = [sec |-> 0 % PerHour, hour |-> 0 \div PerHour, mday |-> n - MonthStart(mp) + 1,
                    mon |-> IF mp < 10 THEN mp + 2 ELSE mp - 10,
                    year |-> Y - 1900 + (IF mp < 10 THEN 0 ELSE 1), wday |-> 4,
                    yday |-> IF mp < 10 THEN n + 59 + Leap(Y) ELSE n - 306]
  BY ONLY <1>2, <1>8, <1>9, SMT DEF Dated
<1> QED
  BY ONLY <1>10, <1>11, <1>12, <1>13, SMT

\* The weekday of the next day.
LEMMA NextWeekday ==
  ASSUME NEW d \in Int
  PROVE  (((d - 1 + 4) % 7) + 1) % 7 = (d + 4) % 7
<1>1. PICK m \in Nat \ {0} : m = 7
  OBVIOUS
<1>2. PICK x \in Int : x = d - 1 + 4
  OBVIOUS
<1>3. PICK q \in Int, r \in Int : x = q * m + r /\ r = x % m
  <2>1. x % m \in 0 .. m - 1 /\ \E q \in Int : x = q * m + (x % m)
    BY ONLY Division, m \in Nat \ {0}, x \in Int
  <2> QED
    BY <2>1
<1>4. r + 1 \in Int
  OBVIOUS
<1>5. ((r + 1) + q * m) % m = (r + 1) % m
  BY ONLY <1>4, AddMultiple, m \in Nat \ {0}, q \in Int
<1>6. (r + 1) + q * m = d + 4
  <2>1. PICK v \in Int : v = q * m
    OBVIOUS
  <2> QED
    BY ONLY <2>1, <1>2, <1>3, d \in Int, r \in Int
<1> QED
  BY ONLY <1>1, <1>2, <1>3, <1>5, <1>6

\* The last second of day d - 1 and the first of day d.
LEMMA Midnight ==
  ASSUME PerHour \in Nat \ {0}, PerDay \in Nat \ {0}, NEW d \in Int
  PROVE  /\ DayOf(d * Day - 1) = d - 1 /\ SecondOf(d * Day - 1) = Day - 1
         /\ DayOf(d * Day) = d /\ SecondOf(d * Day) = 0
         /\ (Day - 1) % PerHour = PerHour - 1 /\ (Day - 1) \div PerHour = PerDay - 1
         /\ Day - 1 \in Int /\ d * Day \in Int
<1>1. Day \in Nat \ {0}
  BY DEF Day
<1>2. PICK c \in Int, r \in Int, v \in Int : c = d - 1 /\ r = Day - 1 /\ v = d * Day
  BY <1>1
<1>3. DayOf(c * Day + r) = c /\ SecondOf(c * Day + r) = r
  <2>1. 0 <= r /\ r < Day
    BY ONLY <1>1, <1>2
  <2> QED
    BY ONLY <1>1, <2>1, TimeParts, c \in Int, r \in Int
<1>4. c * Day + r = v - 1
  <2>1. c * Day = v - Day
    BY ONLY <1>1, <1>2, d \in Int
  <2> QED
    BY ONLY <2>1, <1>2, <1>1, v \in Int
<1>5. DayOf(d * Day - 1) = d - 1 /\ SecondOf(d * Day - 1) = Day - 1
  <2>1. c * Day + r = d * Day - 1
    BY ONLY <1>2, <1>4
  <2> QED
    BY ONLY <2>1, <1>2, <1>3
<1>6. DayOf(d * Day) = d /\ SecondOf(d * Day) = 0
  <2>1. PICK z \in Int : z = 0 /\ 0 <= z /\ z < Day
    BY <1>1
  <2>2. DayOf(d * Day + z) = d /\ SecondOf(d * Day + z) = z
    BY ONLY <1>1, <2>1, TimeParts, d \in Int, z \in Int
  <2>3. d * Day + z = d * Day
    BY ONLY <2>1, <1>2
  <2> QED
    BY ONLY <2>1, <2>2, <2>3
<1>7. PICK s \in Int : s = Day - 1
  BY <1>1
<1>8. PICK h \in Int, p \in Int, w \in Int :
        h = PerDay - 1 /\ p = PerHour - 1 /\ w = h * PerHour
  OBVIOUS
<1>9. w = Day - PerHour
  <2>1. Day = PerDay * PerHour
    BY DEF Day
  <2>2. h * PerHour = PerDay * PerHour - PerHour
    BY ONLY <1>8, PerDay \in Nat \ {0}, PerHour \in Nat \ {0}
  <2> QED
    BY ONLY <1>8, <2>1, <2>2
<1>10. s % PerHour = PerHour - 1
  <2>1. s = h * PerHour + p /\ p \in 0 .. PerHour - 1
    <3>1. PICK D \in Int, H \in Nat \ {0} : D = Day /\ H = PerHour
      BY ONLY <1>1, PerHour \in Nat \ {0}
    <3>2. w = D - H /\ s = D - 1 /\ p = H - 1
      BY ONLY <3>1, <1>7, <1>8, <1>9
    <3>3. s = w + p /\ p \in 0 .. H - 1
      BY ONLY <3>2
    <3> QED
      BY ONLY <3>1, <3>3, <1>8
  <2>2. s % PerHour = p
    BY ONLY <2>1, Remainder, PerHour \in Nat \ {0}, s \in Int, h \in Int
  <2> QED
    BY ONLY <2>2, <1>8
<1>11. s \div PerHour = PerDay - 1
  <2>1. h * PerHour <= s /\ s < h * PerHour + PerHour
    <3>1. w <= s /\ s < w + PerHour
      BY ONLY <1>1, <1>7, <1>8, <1>9, PerHour \in Nat \ {0}
    <3> QED
      BY ONLY <3>1, <1>8
  <2>2. s \div PerHour = h
    BY ONLY <2>1, QuotientIs, PerHour \in Nat \ {0}, s \in Int, h \in Int
  <2> QED
    BY ONLY <2>2, <1>8
<1> QED
  BY ONLY <1>1, <1>2, <1>5, <1>6, <1>7, <1>10, <1>11

\* The date of a day's first second is the day after that of the day before.
LEMMA DatesFollow ==
  ASSUME PerHour \in Nat \ {0}, PerDay \in Nat \ {0}, NEW d \in Int
  PROVE  gmtime(d * Day) = Tomorrow(gmtime(d * Day - 1))
<1>1. /\ DayOf(d * Day - 1) = d - 1 /\ DayOf(d * Day) = d
      /\ SecondOf(d * Day) = 0 /\ d * Day \in Int
  BY Midnight
<1>2. PICK t \in Int, u \in Int : t = d * Day - 1 /\ u = d * Day
  BY <1>1
<1>3. PICK Y \in Int, n \in Nat, mp \in 0 .. 11 :
           /\ n < MarchLength(Y) /\ InMonth(mp, n) /\ DayOf(t) + 719468 = Start(Y) + n
           /\ gmtime(t) = Dated(Y, n, mp, (DayOf(t) + 4) % 7, SecondOf(t))
  BY TimeDated, SMT
<1>4. PICK X \in Int, k \in Nat, mq \in 0 .. 11 :
           /\ k < MarchLength(X) /\ InMonth(mq, k) /\ DayOf(u) + 719468 = Start(X) + k
           /\ gmtime(u) = Dated(X, k, mq, (DayOf(u) + 4) % 7, SecondOf(u))
  BY TimeDated, SMT
<1>5. /\ Start(Y) \in Int /\ Start(X) \in Int /\ Start(Y + 1) = Start(Y) + MarchLength(Y)
      /\ MarchLength(Y) \in {365, 366} /\ MarchLength(Y + 1) \in {365, 366}
  BY StartNext, SMT
<1>6. Start(Y) + n + 1 = Start(X) + k
  <2>1. DayOf(t) = d - 1 /\ DayOf(u) = d
    BY ONLY <1>1, <1>2, SMT
  <2>2. d - 1 + 719468 = Start(Y) + n /\ d + 719468 = Start(X) + k
    BY ONLY <2>1, <1>3, <1>4, SMT
  <2> QED
    BY ONLY <2>2, <1>5, d \in Int, SMT
<1>7. \/ n + 1 < MarchLength(Y) /\ X = Y /\ k = n + 1
      \/ n + 1 = MarchLength(Y) /\ X = Y + 1 /\ k = 0
  <2>1. CASE n + 1 < MarchLength(Y)
    <3>1. PICK j \in Int : j = n + 1 /\ 0 <= j /\ j < MarchLength(Y) /\ Start(X) + k = Start(Y) + j
      BY ONLY <2>1, <1>5, <1>6, n \in Nat, k \in Nat, SMT
    <3>2. 0 <= k /\ k \in Int /\ k < MarchLength(X)
      BY ONLY <1>4, k \in Nat, SMT
    <3>3. X = Y /\ k = j
      BY ONLY <3>1, <3>2, OneYear, X \in Int, Y \in Int, j \in Int, SMT
    <3> QED
      BY ONLY <2>1, <3>1, <3>3, SMT
  <2>2. CASE n + 1 = MarchLength(Y)
    <3>1. PICK j \in Int, Z \in Int :
            j = 0 /\ Z = Y + 1 /\ 0 <= j /\ j < MarchLength(Z) /\ Start(X) + k = Start(Z) + j
      BY ONLY <2>2, <1>5, <1>6, n \in Nat, k \in Nat, Y \in Int, SMT
    <3>2. 0 <= k /\ k \in Int /\ k < MarchLength(X)
      BY ONLY <1>4, k \in Nat, SMT
    <3>3. X = Z /\ k = j
      BY ONLY <3>1, <3>2, OneYear, X \in Int, Z \in Int, j \in Int, SMT
    <3> QED
      BY ONLY <2>2, <3>1, <3>3, SMT
  <2> QED
    BY ONLY <2>1, <2>2, <1>3, <1>5, n \in Nat, SMT
<1>8. InMonth(mp, n) /\ n < MarchLength(Y) /\ InMonth(mq, k)
  BY ONLY <1>3, <1>4, SMT
<1>9. \A w, r : Tomorrow(Dated(Y, n, mp, w, r)) = Dated(X, k, mq, (w + 1) % 7, 0)
  <2> TAKE w, r
  <2>1. InMonth(mp, n)
    BY ONLY <1>8, SMT
  <2>2. n < MarchLength(Y)
    BY ONLY <1>8, SMT
  <2>3. InMonth(mq, k)
    BY ONLY <1>8, SMT
  <2> QED
    BY ONLY <2>1, <2>2, <2>3, <1>7, TomorrowIs, PerHour \in Nat \ {0}, Y \in Int, n \in Nat,
       X \in Int, k \in Nat, SMT
<1>10. gmtime(t) = Dated(Y, n, mp, (d - 1 + 4) % 7, SecondOf(t))
  BY ONLY <1>1, <1>2, <1>3, SMT
<1>11. gmtime(u) = Dated(X, k, mq, (d + 4) % 7, 0)
  BY ONLY <1>1, <1>2, <1>4, SMT
<1>12. Tomorrow(gmtime(t)) = Dated(X, k, mq, (((d - 1 + 4) % 7) + 1) % 7, 0)
  BY ONLY <1>9, <1>10, SMT
<1>13. (((d - 1 + 4) % 7) + 1) % 7 = (d + 4) % 7
  BY NextWeekday
<1>14. gmtime(u) = Tomorrow(gmtime(t))
  BY ONLY <1>11, <1>12, <1>13, Zenon
<1> QED
  BY ONLY <1>2, <1>14, Zenon

\* The time of day of a day's last second.
LEMMA LastSecond ==
  ASSUME PerHour \in Nat \ {0}, PerDay \in Nat \ {0}, NEW d \in Int
  PROVE  gmtime(d * Day - 1).sec = PerHour - 1 /\ gmtime(d * Day - 1).hour = PerDay - 1
<1>1. PICK t \in Int : t = d * Day - 1
  BY Midnight
<1>2. PICK Y \in Int, n \in Nat, mp \in 0 .. 11 :
           gmtime(t) = Dated(Y, n, mp, (DayOf(t) + 4) % 7, SecondOf(t))
  BY TimeDated, SMT
<1>3. SecondOf(t) = Day - 1 /\ (Day - 1) % PerHour = PerHour - 1 /\ (Day - 1) \div PerHour = PerDay - 1
  BY <1>1, Midnight, Zenon
<1>4. gmtime(t).sec = SecondOf(t) % PerHour /\ gmtime(t).hour = SecondOf(t) \div PerHour
  <2>1. \A w, r : Dated(Y, n, mp, w, r).sec = r % PerHour /\ Dated(Y, n, mp, w, r).hour = r \div PerHour
    BY SMT DEF Dated
  <2> QED
    BY ONLY <1>2, <2>1, Zenon
<1> QED
  BY ONLY <1>1, <1>3, <1>4, Zenon

\* What the check of dates asks for, for every day.
LEMMA DatesKept ==
  ASSUME PerHour \in Nat \ {0}, PerDay \in Nat \ {0}, NEW a, a = 0 \/ \E d \in Int : a = d * Day - 1
  PROVE  DatesAgree(a)
<1>1. CASE a = 0
  BY ONLY <1>1, EpochDated, PerHour \in Nat \ {0}, PerDay \in Nat \ {0}, SMT DEF DatesAgree
<1>2. CASE a # 0
  <2>1. PICK d \in Int : a = d * Day - 1
    BY <1>2
  <2>2. d * Day \in Int
    BY Midnight
  <2>3. a \in Int /\ a + 1 \in Int /\ a + 1 = d * Day
    BY ONLY <2>1, <2>2
  <2>4. mktime(gmtime(a)) = a /\ mktime(gmtime(a + 1)) = a + 1
    BY ONLY <2>3, GmtimeUndone, PerHour \in Nat \ {0}, PerDay \in Nat \ {0}, Zenon
  <2>5. gmtime(a + 1) = Tomorrow(gmtime(a))
    BY ONLY <2>1, <2>3, DatesFollow, PerHour \in Nat \ {0}, PerDay \in Nat \ {0}, Zenon
  <2>6. gmtime(a).sec = PerHour - 1 /\ gmtime(a).hour = PerDay - 1
    BY ONLY <2>1, LastSecond, PerHour \in Nat \ {0}, PerDay \in Nat \ {0}, Zenon
  <2> QED
    BY ONLY <1>2, <2>4, <2>5, <2>6, Zenon DEF DatesAgree
<1> QED
  BY <1>1, <1>2

\* The calls of clock(), gmtime() and mktime() with every argument: any ticks,
\* the last second of any day and any fields.
AnyCall ==
  \/ Call("clock", Seq(0 .. TickWrap - 1))
  \/ Call("gmtime", {d * Day - 1 : d \in Int} \cup {0})
  \/ Call("mktime", Dates)

CalendarSpec == call = Idle /\ [][AnyCall \/ call' = Idle]_call

\* They include the calls that the model checker tries.
LEMMA CalendarCallsAreAny ==
  ASSUME CalendarCalls
  PROVE  AnyCall
<1>1. UNION {[1 .. n -> 0 .. TickWrap - 1] : n \in 0 .. MaxReads} \subseteq Seq(0 .. TickWrap - 1)
  BY CalendarAssumption
<1>2. LastSeconds \subseteq {d * Day - 1 : d \in Int}
  <2> SUFFICES ASSUME NEW y \in Years, NEW n \in 0 .. 365
               PROVE  (NewYear(y) + n + 1) * Day - 1 \in {d * Day - 1 : d \in Int}
    BY SMT DEF LastSeconds
  <2>1. NewYear(y) \in Int
    BY CalendarAssumption, NewYearIs
  <2>2. NewYear(y) + n + 1 \in Int
    BY ONLY <2>1, n \in 0 .. 365
  <2> QED
    BY ONLY <2>2, Zenon
<1>3. [year : {0, 69, 100}, mon : -25 .. 25, mday : {-31, 1, 31, 400},
       hour : {-1, PerDay}, sec : {-1, 0}] \subseteq Dates
  BY CalendarAssumption, SMT DEF Dates
<1>4. \A fn, s, t : s \subseteq t /\ Call(fn, s) => Call(fn, t)
  BY Zenon DEF Call
<1>5. CASE Call("clock", UNION {[1 .. n -> 0 .. TickWrap - 1] : n \in 0 .. MaxReads})
  BY ONLY <1>1, <1>4, <1>5, Zenon DEF AnyCall
<1>6. CASE Call("gmtime", LastSeconds \cup {0})
  <2>1. LastSeconds \cup {0} \subseteq {d * Day - 1 : d \in Int} \cup {0}
    BY ONLY <1>2, Zenon
  <2> QED
    BY ONLY <2>1, <1>4, <1>6, Zenon DEF AnyCall
<1>7. CASE Call("mktime", [year : {0, 69, 100}, mon : -25 .. 25, mday : {-31, 1, 31, 400},
                           hour : {-1, PerDay}, sec : {-1, 0}])
  BY ONLY <1>3, <1>4, <1>7, Zenon DEF AnyCall
<1> QED
  BY <1>5, <1>6, <1>7, Zenon DEF CalendarCalls

\* clock(), time(), gmtime() and mktime() agree with the calendar and with a
\* clock that counts every tick, whatever they are called with.
THEOREM CalendarKept == CalendarSpec => []TimeAgrees
<1> USE CalendarAssumption
<1>1. TickWrap \in Nat \ {0} /\ PerSecond \in Nat \ {0} /\ PerHour \in Nat \ {0} /\ PerDay \in Nat \ {0}
  OBVIOUS
<1>2. call = Idle => TimeAgrees
  BY SMT DEF Idle, TimeAgrees
<1>3. ASSUME TimeAgrees, [AnyCall \/ call' = Idle]_call PROVE TimeAgrees'
  <2>1. CASE Call("clock", Seq(0 .. TickWrap - 1))
    <3>1. PICK a \in Seq(0 .. TickWrap - 1) : call' = [fn |-> "clock", a |-> a]
      BY <2>1 DEF Call
    <3>2. a # <<>> => ClockAgrees(a)
      BY ONLY <1>1, ClockKept, a \in Seq(0 .. TickWrap - 1)
    <3>3. call'.fn = "clock" /\ call'.a = a
      BY ONLY <3>1
    <3> QED
      BY ONLY <3>2, <3>3, SMT DEF TimeAgrees
  <2>2. CASE Call("gmtime", {d * Day - 1 : d \in Int} \cup {0})
    <3>1. PICK a \in {d * Day - 1 : d \in Int} \cup {0} : call' = [fn |-> "gmtime", a |-> a]
      BY <2>2, Zenon DEF Call
    <3>2. a = 0 \/ \E d \in Int : a = d * Day - 1
      OBVIOUS
    <3>3. DatesAgree(a)
      BY ONLY <1>1, <3>2, DatesKept
    <3>4. call'.fn = "gmtime" /\ call'.a = a
      BY ONLY <3>1
    <3> QED
      BY ONLY <3>3, <3>4, SMT DEF TimeAgrees
  <2>3. CASE Call("mktime", Dates)
    <3>1. PICK a \in Dates : call' = [fn |-> "mktime", a |-> a]
      BY <2>3, Zenon DEF Call
    <3>2. MktimeAgrees(a)
      BY ONLY MktimeTells, a \in Dates
    <3>3. call'.fn = "mktime" /\ call'.a = a
      BY ONLY <3>1
    <3> QED
      BY ONLY <3>2, <3>3, SMT DEF TimeAgrees
  <2>4. CASE call' = Idle
    BY <2>4, SMT DEF Idle, TimeAgrees
  <2>5. CASE UNCHANGED call
    BY <1>3, <2>5, Zenon DEF TimeAgrees
  <2> QED
    BY <1>3, <2>1, <2>2, <2>3, <2>4, <2>5, Zenon DEF AnyCall
<1> QED
  BY <1>2, <1>3, PTL DEF CalendarSpec
=============================================================================
