----------------------------- MODULE FloatParts -----------------------------
(***************************************************************************)
(* The functions of libc/math.c that take a float apart: truncf, floorf,    *)
(* ceilf, roundf, modff, frexpf and the powers of two, on the small float   *)
(* format of Aeabi. The bit masks work on the fields of a float, sums on    *)
(* its value, which is counted in units of the least float.                 *)
(***************************************************************************)
EXTENDS Aeabi

One == 2 ^ (MF - EMin)
Half == One \div 2
Finite == {f \in Floats : f.e < FTop}
Units(f) == (IF f.neg THEN -1 ELSE 1) *
            (IF f.e = 0 THEN f.m ELSE (f.m + 2 ^ MF) * 2 ^ (f.e - 1))

\* A sum of the FPU: the closest float, the even one of two.
Sum2(v, w) ==
  LET a == Magnitude(v + w)
      n == CHOOSE n \in 0 .. FTop : a \div 2 ^ n < 2 ^ (MF + 1) /\ (n = 0 \/ a \div 2 ^ n >= 2 ^ MF)
      r == IF n = 0 THEN a ELSE rsh(a, n) * 2 ^ n
  IN  IF v + w < 0 THEN - r ELSE r

-----------------------------------------------------------------------------
truncf(f) ==
  LET e == f.e - 1 + EMin
      kept == f.m - (f.m % 2 ^ (MF - e))
  IN  IF e < 0 THEN [f EXCEPT !.e = 0, !.m = 0]
      ELSE IF e >= MF THEN f ELSE [f EXCEPT !.m = kept]

\* Of a value; x and the result are values from here on.
Trunc(x) == Units(truncf(CHOOSE f \in Finite : Units(f) = x))
floorf(x) == LET y == Trunc(x) IN IF x < y THEN Sum2(y, - One) ELSE y
ceilf(x) == LET y == Trunc(x) IN IF x > y THEN Sum2(y, One) ELSE y
roundf(x) == IF x < 0 THEN ceilf(Sum2(x, - Half)) ELSE floorf(Sum2(x, Half))
modff(x) == <<Trunc(x), Sum2(x, - Trunc(x))>>

RECURSIVE Doubled(_, _), Halved(_, _)
Doubled(x, n) == IF Magnitude(x) < Half THEN Doubled(2 * x, n - 1) ELSE <<x, n>>
Halved(x, n) == IF Magnitude(x) >= One THEN Halved(x \div 2, n + 1) ELSE <<x, n>>
frexpf(x) == IF x = 0 THEN <<0, 0>> ELSE LET d == Doubled(x, 0) IN Halved(d[1], d[2])

pow2(n) ==
  IF n > EMax THEN [neg |-> FALSE, e |-> FTop, m |-> 0]
  ELSE IF n < EMin - MF THEN [neg |-> FALSE, e |-> 0, m |-> 0]
  ELSE IF n >= EMin THEN [neg |-> FALSE, e |-> n - EMin + 1, m |-> 0]
  ELSE [neg |-> FALSE, e |-> 0, m |-> 2 ^ (n - EMin + MF)]

-----------------------------------------------------------------------------
FloatPartsCalls ==
  \/ Call("parts", {f \in Finite : f.e + 1 < FTop})      \* no sum overflows
  \/ Call("pow2", EMin - MF - 2 .. EMax + 2)

\* The rounding functions give the integer that C asks for, modff and frexpf
\* parts that make up the number again, exactly. Only roundf is wrong, where
\* adding a half is not exact: at the float just below a half, and at odd
\* integers so large that a half has no place in them.
PartsExact ==
  /\ call.fn = "parts" =>
       LET x == Units(call.a)
           a == Magnitude(x)
           parts == modff(x)
           mant == frexpf(x)[1]
           exp == frexpf(x)[2]
           r == Magnitude(roundf(x))
           odd == a % (2 * One) = One
       IN  /\ floorf(x) = (x \div One) * One
           /\ ceilf(x) = - ((- x) \div One) * One
           /\ Trunc(x) = IF x < 0 THEN ceilf(x) ELSE floorf(x)
           /\ IF \/ 2 ^ MF * One < a /\ a < 2 ^ (MF + 1) * One /\ odd
                 \/ a = Half - Half \div 2 ^ (MF + 1)
              THEN r = IF odd THEN a + One ELSE One
              ELSE r = ((a + Half) \div One) * One /\ (r = 0 \/ roundf(x) * x > 0)
           /\ parts[1] + parts[2] = x /\ Magnitude(parts[2]) < One /\ parts[1] * parts[2] >= 0
           /\ IF x = 0 THEN exp = 0 /\ mant = 0
              ELSE /\ Magnitude(mant) \in Half .. One - 1
                   /\ IF exp > 0 THEN x = mant * 2 ^ exp ELSE x * 2 ^ (- exp) = mant
  /\ call.fn = "pow2" =>
       LET p == Units(pow2(call.a))
       IN  IF call.a > EMax THEN pow2(call.a).e = FTop
           ELSE IF call.a < EMin - MF THEN p = 0
           ELSE p = 2 ^ (call.a - EMin + MF)

\* The integer arithmetic, the conversions and the parts of a float together.
NumbersExact == ArithmeticExact /\ PartsExact
=============================================================================
