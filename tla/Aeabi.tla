------------------------------- MODULE Aeabi -------------------------------
(***************************************************************************)
(* The arithmetic helpers of libc/aeabi.c, over integers of Width bits and  *)
(* binary formats of any size: Width is 64, MF and MD are the 23 and 52     *)
(* mantissa bits of float and double, EMin and EMax the exponents -126 and  *)
(* 127 of float, DBias the 1023 of double. A number is [neg, e, m], the     *)
(* fields of its format; a word that is cut in two halves is one number.    *)
(***************************************************************************)
EXTENDS Calls, FiniteSetsExt

CONSTANTS Width, MF, MD, EMin, EMax, DBias

DTop == 2 * DBias + 1                 \* exponent field of infinity and NaN
FTop == EMax - EMin + 2
Wrap(n) == n % 2 ^ Width
Signed(u) == IF u >= 2 ^ (Width - 1) THEN u - 2 ^ Width ELSE u
Bit(n, i) == (n \div 2 ^ i) % 2
Log2(n) == Max({i \in 0 .. Width - 1 : 2 ^ i <= n})

-----------------------------------------------------------------------------
\* One bit of the quotient from the top; x is the remainder so far.
u64div(n, d) ==
  LET step[i \in 0 .. Width] ==
        IF i = 0 THEN [q |-> 0, x |-> 0]
        ELSE LET s == step[i - 1]
                 carry == Bit(s.x, Width - 1)
                 x == Wrap(2 * s.x) + Bit(n, Width - i)
             IN  IF carry = 1 \/ x >= d
                 THEN [q |-> Wrap(2 * s.q + 1), x |-> Wrap(x - d)]
                 ELSE [q |-> Wrap(2 * s.q), x |-> x]
  IN  IF d = 0 THEN [q |-> 2 ^ Width - 1, x |-> n] ELSE step[Width]

s64div(n, d) ==
  LET r == u64div(Wrap(IF n < 0 THEN - n ELSE n), Wrap(IF d < 0 THEN - d ELSE d))
  IN  [q |-> Signed(Wrap(IF (n < 0) # (d < 0) THEN - r.q ELSE r.q)),
       x |-> Signed(Wrap(IF n < 0 THEN - r.x ELSE r.x))]

-----------------------------------------------------------------------------
\* Integers to float and back; here e is the exponent itself.
l2f(x) ==
  LET a == Wrap(IF x < 0 THEN - x ELSE x)
      k == Log2(a)
      n == k - MF                             \* bits shifted out
      up == n > 0 /\ Bit(a, n - 1) = 1        \* g, st and the last bit kept
              /\ (a % 2 ^ (n - 1) # 0 \/ Bit(a, n) = 1)
      m == (IF n > 0 THEN a \div 2 ^ n ELSE a * 2 ^ (- n)) + (IF up THEN 1 ELSE 0)
  IN  IF a = 0 THEN [neg |-> FALSE, e |-> - 1, m |-> - (2 ^ MF)]      \* zero
      ELSE IF m = 2 ^ (MF + 1) THEN [neg |-> x < 0, e |-> k + 1, m |-> 0]
      ELSE [neg |-> x < 0, e |-> k, m |-> m % 2 ^ MF]

f2lz(f) ==
  LET a == IF f.e > MF THEN (f.m + 2 ^ MF) * 2 ^ (f.e - MF)
           ELSE (f.m + 2 ^ MF) \div 2 ^ (MF - f.e)
  IN  IF f.e < 0 THEN 0
      ELSE IF f.e > Width - 2 THEN IF f.neg THEN - (2 ^ (Width - 1)) ELSE 2 ^ (Width - 1) - 1
      ELSE IF f.neg THEN - a ELSE a

-----------------------------------------------------------------------------
\* Mutant: a tie is rounded up.
rshUp(x, n) == (x + 2 ^ (n - 1)) \div 2 ^ n

rsh(x, n) ==
  LET q == x \div 2 ^ n  r == x % 2 ^ n  h == 2 ^ (n - 1)
  IN  q + (IF r > h \/ (r = h /\ q % 2 = 1) THEN 1 ELSE 0)

d2f(d) ==
  LET E == d.e - DBias
      m == d.m + 2 ^ MD
      sub == rsh(m, EMin - E + MD - MF)
      r == rsh(m, MD - MF)
      carry == r >= 2 ^ (MF + 1)
      e == E + (IF carry THEN 1 ELSE 0)
      Float(x, y) == [neg |-> d.neg, e |-> x, m |-> y]
  IN  IF d.e = DTop THEN Float(FTop, IF d.m # 0 THEN 2 ^ (MF - 1) ELSE 0)
      ELSE IF d.e = 0 \/ E < EMin - MF THEN Float(0, 0)
      ELSE IF E > EMax \/ (E >= EMin /\ e > EMax) THEN Float(FTop, 0)
      ELSE IF E < EMin THEN Float(sub \div 2 ^ MF, sub % 2 ^ MF)
      ELSE Float(e - EMin + 1, (IF carry THEN r \div 2 ELSE r) % 2 ^ MF)

f2d(f) ==
  LET p == Max({i \in 0 .. MF - 1 : 2 ^ i <= f.m} \cup {0})
      Double(x, y) == [neg |-> f.neg, e |-> x, m |-> y]
  IN  IF f.e = FTop THEN Double(DTop, f.m * 2 ^ (MD - MF))
      ELSE IF f.e # 0 THEN Double(f.e - 1 + EMin + DBias, f.m * 2 ^ (MD - MF))
      ELSE IF f.m = 0 THEN Double(0, 0)
      ELSE Double(p + EMin - MF + DBias, (f.m - 2 ^ p) * 2 ^ (MD - p))

-----------------------------------------------------------------------------
\* Doubles go through float, whatever they could hold. The fields of l2f().
Fields(f) == IF f.e < 0 THEN [f EXCEPT !.e = 0, !.m = 0] ELSE [f EXCEPT !.e = @ - EMin + 1]
l2d(x) == f2d(Fields(l2f(x)))
d2lz(d) == LET f == d2f(d) IN f2lz([f EXCEPT !.e = IF @ = 0 THEN - 1 ELSE @ + EMin - 1])

IsNaN(d) == d.e = DTop /\ d.m # 0
dcmpeq(a, b) ==
  /\ ~ IsNaN(a) /\ ~ IsNaN(b)
  /\ a = b \/ (a.e = 0 /\ a.m = 0 /\ b.e = 0 /\ b.m = 0)

-----------------------------------------------------------------------------
Unsigned == 0 .. 2 ^ Width - 1
Ints == - (2 ^ (Width - 1)) .. 2 ^ (Width - 1) - 1
Doubles == [neg : BOOLEAN, e : 0 .. DTop, m : 0 .. 2 ^ MD - 1]
EdgeDoubles == [neg : BOOLEAN, e : {0, 1, DTop - 1, DTop}, m : {0, 1, 2 ^ MD - 1}]
Floats == [neg : BOOLEAN, e : 0 .. FTop, m : 0 .. 2 ^ MF - 1]

AeabiCalls ==
  \/ Call("u64div", Unsigned \X Unsigned)
  \/ Call("s64div", Ints \X (Ints \ {0}))
  \/ Call("l2f", Ints)
  \/ Call("f2lz", [neg : BOOLEAN, e : - 2 .. Width + 1, m : 0 .. 2 ^ MF - 1])
  \/ Call("d2f", Doubles)
  \/ Call("f2d", Floats)
  \/ Call("dcmpeq", EdgeDoubles \X EdgeDoubles)
  \/ Call("l2d", Ints)

Magnitude(n) == IF n < 0 THEN - n ELSE n

\* Values in units of 2^(EMin - MF - MD).
FloatValue(f) ==
  2 ^ MD * (IF f.e = 0 THEN f.m ELSE (f.m + 2 ^ MF) * 2 ^ (f.e - 1))
DoubleValue(d) == (d.m + 2 ^ MD) * 2 ^ (d.e - DBias - EMin + MF)

\* v is the member of a set of [v, even] closest to x, the even one of two.
Closest(v, even, x, set) ==
  \A c \in set : \/ Magnitude(x - v) < Magnitude(x - c.v)
                 \/ Magnitude(x - v) = Magnitude(x - c.v) /\ (c.v = v \/ even)

FloatSet == {[v |-> FloatValue(f), even |-> f.m % 2 = 0] : f \in Floats}
WholeSet == {[v |-> m * 2 ^ e, even |-> m % 2 = 0] : m \in 2 ^ MF .. 2 ^ (MF + 1) - 1,
                                                     e \in 0 .. Width - MF}

\* The division helpers divide as C does, the overflow of the least integer by
\* -1 wrapping; conversions give the closest float, ties to even, and f2d loses
\* nothing. What is below the least float becomes 0. Doubles are equal when their
\* values are, no NaN to anything. An integer that goes to double and back is the
\* float closest to it, itself if it has MF + 1 bits.
ArithmeticExact ==
  LET a == call.a IN
  /\ call.fn = "u64div" /\ a[2] # 0 =>
       u64div(a[1], a[2]) = [q |-> a[1] \div a[2], x |-> a[1] % a[2]]
  /\ call.fn = "s64div" =>
       LET r == s64div(a[1], a[2])
       IN  /\ Wrap(r.q * a[2] + r.x) = Wrap(a[1])
           /\ Magnitude(r.x) < Magnitude(a[2])
           /\ r.x = 0 \/ (r.x < 0) = (a[1] < 0)
           /\ r.q \in Ints /\ (r.q = 0 \/ a[1] = - (2 ^ (Width - 1)) \/
                                    (r.q < 0) = ((a[1] < 0) # (a[2] < 0)))
  /\ call.fn = "l2f" =>
       LET f == l2f(a)  w == f.m + 2 ^ MF
       IN  /\ f.neg = (a < 0)
           /\ IF Magnitude(a) < 2 ^ MF
              THEN IF w = 0 THEN a = 0 ELSE w = Magnitude(a) * 2 ^ (MF - f.e)
              ELSE Closest(w * 2 ^ (f.e - MF), w % 2 = 0, Magnitude(a), WholeSet)
  /\ call.fn = "f2lz" =>
       LET r == f2lz(a)  w == a.m + 2 ^ MF
           v == IF a.e < 0 THEN 0 ELSE (w * 2 ^ a.e) \div 2 ^ MF
           n == IF a.neg THEN - v ELSE v
       IN  IF n \in Ints THEN r = n
           ELSE r = IF a.neg THEN - (2 ^ (Width - 1)) ELSE 2 ^ (Width - 1) - 1
  /\ call.fn = "d2f" =>
       LET f == d2f(a)
       IN  /\ f.neg = a.neg /\ f \in Floats
           /\ IF a.e = DTop THEN f.e = FTop /\ (f.m # 0) = (a.m # 0)
              ELSE IF a.e - DBias < EMin - MF THEN f.e + f.m = 0
              ELSE Closest(FloatValue(f), f.m % 2 = 0, DoubleValue(a),
                           {c \in FloatSet : c.v <= 2 ^ (MD + MF + FTop - 1)})
  /\ call.fn = "f2d" =>
       LET d == f2d(a)
       IN  /\ d.neg = a.neg
           /\ IF a.e = FTop THEN d.e = DTop /\ (d.m # 0) = (a.m # 0)
              ELSE IF a.e + a.m = 0 THEN d.e + d.m = 0
              ELSE d.e > 0 /\ DoubleValue(d) = FloatValue(a)
  /\ call.fn = "dcmpeq" =>
       LET Value(d) == (IF d.neg THEN - 1 ELSE 1) *
             (IF d.e = 0 THEN d.m ELSE (d.m + 2 ^ MD) * 2 ^ (d.e - 1))
           Number(d) == d.e # DTop
       IN  dcmpeq(a[1], a[2]) =
             IF Number(a[1]) /\ Number(a[2]) THEN Value(a[1]) = Value(a[2])
             ELSE a[1].e = a[2].e /\ a[1].neg = a[2].neg /\ a[1].m = 0 /\ a[2].m = 0
  /\ call.fn = "l2d" =>
       LET v == d2lz(l2d(a))
           most == 2 ^ (Width - 1) - 1
       IN  /\ Magnitude(a) <= 2 ^ (MF + 1) => v = a
           /\ v = most \/ Closest(Magnitude(v), TRUE, Magnitude(a), WholeSet \cup {[v |-> 0]})
           /\ v = most => Closest(most + 1, TRUE, a, WholeSet)
           /\ v = 0 \/ (v < 0) = (a < 0)
=============================================================================
