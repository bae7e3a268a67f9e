------------------------------- MODULE Printf -------------------------------
(***************************************************************************)
(* The formatter of libc/stdio.c: the exact decimal digits of a binary      *)
(* floating point number, their rounding and layout in %f, %e and %g, the   *)
(* padding of every conversion, and the bounded buffer that text goes into. *)
(* A number is m * 2^e; the format string is taken apart already; a digit   *)
(* is its value and the other characters are numbers above the digits.      *)
(***************************************************************************)
EXTENDS Calls, SequencesExt, FiniteSetsExt

CONSTANTS
  Bits,                            \* the width of an integer argument
  Mantissas, Exponents, Precisions,   \* the numbers and precisions tried
  Extremes,                        \* numbers <<m, e>> at the ends of float
  MaxWidth, MaxRoom

Point == 20
Dash == 21
Cross == 22
Ex == 23
Blank == 24
Junk == 25

Repeat(c, n) == IF n <= 0 THEN <<>> ELSE [i \in 1 .. n |-> c]
DigitAt(d, i) == IF i \in DOMAIN d THEN d[i] ELSE 0

RECURSIVE Decimal(_, _)
Decimal(n, base) ==
  IF n < base THEN <<n>> ELSE Append(Decimal(n \div base, base), n % base)

-----------------------------------------------------------------------------
\* d is a number's digits from the last one up; times a one-digit factor.
fmul(d, factor) ==
  LET n == Len(d)
      c[i \in 0 .. n] == IF i = 0 THEN 0 ELSE (d[i] * factor + c[i - 1]) \div 10
  IN  [i \in 1 .. n |-> (d[i] * factor + c[i - 1]) % 10]
        \o (IF c[n] = 0 THEN <<>> ELSE Reverse(Decimal(c[n], 10)))

RECURSIVE Power(_, _, _)
Power(d, factor, k) == IF k = 0 THEN d ELSE Power(fmul(d, factor), factor, k - 1)

\* All digits of m * 2^e and the place of the point among them.
fdig(m, e) ==
  LET low == Reverse(Decimal(m, 10))
      d == IF e > 0 THEN Power(low, 2, e) ELSE Power(low, 5, - e)
  IN  IF m = 0 THEN [d |-> <<0>>, dp |-> 1]
      ELSE [d |-> Reverse(d), dp |-> Len(d) - (IF e < 0 THEN - e ELSE 0)]

\* Mutant: a carry goes no further than the last digit kept.
RoundNoCarry(f, k) ==
  IF k \in 1 .. Len(f.d) - 1 /\ f.d[k + 1] >= 5 /\ f.d[k] < 9
  THEN [f EXCEPT !.d = Append(SubSeq(f.d, 1, k - 1), f.d[k] + 1)]
  ELSE [f EXCEPT !.d = SubSeq(f.d, 1, IF k < Len(f.d) THEN k ELSE Len(f.d))]

\* Round to k digits; a carry out of the first one moves the point.
rnd(f, k) ==
  LET i == Max({j \in 1 .. k : f.d[j] # 9} \cup {0})
      Zero == [d |-> <<0>>, dp |-> 1]
  IN  CASE k < 0 -> Zero
        [] k = 0 -> IF f.d[1] >= 5 THEN [d |-> <<1>>, dp |-> f.dp + 1] ELSE Zero
        [] k >= Len(f.d) -> f
        [] f.d[k + 1] < 5 -> [f EXCEPT !.d = SubSeq(@, 1, k)]
        [] i > 0 -> [f EXCEPT !.d = SubSeq(@, 1, i - 1) \o <<@[i] + 1>> \o Repeat(0, k - i)]
        [] OTHER -> [d |-> <<1>> \o Repeat(0, k - 1), dp |-> f.dp + 1]

\* Trailing zeros, and a point they leave last, are dropped.
RECURSIVE Trim(_)
Trim(s) == IF Last(s) = 0 THEN Trim(Front(s)) ELSE IF Last(s) = Point THEN Front(s) ELSE s

Fixed(f, p) ==
  (IF f.dp <= 0 THEN <<0>> ELSE [i \in 1 .. f.dp |-> DigitAt(f.d, i)])
    \o (IF p > 0 THEN <<Point>> \o [i \in 1 .. p |-> DigitAt(f.d, f.dp + i)] ELSE <<>>)
Leading(f, p) ==
  <<f.d[1]>> \o (IF p > 0 THEN <<Point>> \o [i \in 1 .. p |-> DigitAt(f.d, i + 1)] ELSE <<>>)
Exponent(e) ==
  LET a == IF e < 0 THEN - e ELSE e
  IN  <<Ex, IF e < 0 THEN Dash ELSE Cross, a \div 10, a % 10>>
TrimIf(s) == IF \E i \in DOMAIN s : s[i] = Point THEN Trim(s) ELSE s

ftoa(neg, m, e, prec, t) ==
  LET all == fdig(m, e)
      p == IF prec < 0 THEN 6 ELSE IF prec > 63 THEN 63 ELSE prec
      sig == IF p = 0 THEN 1 ELSE p
      g == rnd(all, sig)
      x == g.dp - 1
      r == rnd(all, IF t = "e" THEN p + 1 ELSE all.dp + p)
  IN  (IF neg THEN <<Dash>> ELSE <<>>) \o
      CASE t = "f" -> Fixed(r, p)
        [] t = "e" -> Leading(r, p) \o Exponent(r.dp - 1)
        [] t = "g" /\ (x < -4 \/ x >= sig) -> TrimIf(Leading(g, sig - 1)) \o Exponent(x)
        [] OTHER -> TrimIf(Fixed(g, sig - g.dp))

-----------------------------------------------------------------------------
Pads(s, pad, w) == Repeat(pad, w - Len(s))

\* The text s of a number with its padding.
PadNumber(s, pad, w) ==
  IF pad = 0 /\ s[1] = Dash THEN <<Dash>> \o Pads(s, pad, w) \o Tail(s)
  ELSE Pads(s, pad, w) \o s

Integer(v, base) ==
  IF v < 0 THEN <<Dash>> \o Decimal((0 - v) % 2 ^ Bits, base) ELSE Decimal(v, base)

\* One character into a buffer of z bytes of which n are counted.
put(o, c) ==
  [o EXCEPT !.s = IF o.z > 0 /\ o.n < o.z - 1 THEN [@ EXCEPT ![o.n] = c] ELSE @,
            !.n = @ + 1]

End(o) == IF o.z > 0 THEN [o EXCEPT !.s[IF o.n < o.z THEN o.n ELSE o.z - 1] = 0] ELSE o

snprintf(s, z, text) == End(FoldLeft(put, [s |-> s, z |-> z, n |-> 0], text))

-----------------------------------------------------------------------------
PrintfCalls ==
  \/ Call("ftoa", BOOLEAN \X Mantissas \X Exponents \X Precisions \X {"e", "f", "g"})
  \/ Call("integer", (- (2 ^ (Bits - 1)) .. 2 ^ (Bits - 1) - 1) \X {10, 16}
                       \X {0, Blank} \X (0 .. MaxWidth))
  \/ Call("snprintf", (0 .. MaxRoom) \X (0 .. MaxRoom))
  \/ Call("extreme", Extremes \X {"e", "f", "g"})

\* m * 2^e * 10^k as a fraction, and the integer closest to it, halves up.
Pos(n) == IF n > 0 THEN n ELSE 0
Num(m, e, k) == m * 2 ^ Pos(e) * 10 ^ Pos(k)
Den(e, k) == 2 ^ Pos(- e) * 10 ^ Pos(- k)
Nearest(m, e, k) == (2 * Num(m, e, k) + Den(e, k)) \div (2 * Den(e, k))

\* n / 10^k in k decimals.
Places(n, k) ==
  LET s == Decimal(n, 10)
      full == Repeat(0, k + 1 - Len(s)) \o s
      whole == SubSeq(full, 1, Len(full) - k)
  IN  IF k = 0 THEN whole ELSE whole \o <<Point>> \o SubSeq(full, Len(full) - k + 1, Len(full))

\* The exponent of m * 2^e when it is rounded to p digits after the first.
TenPower(m, e, p) ==
  LET x == Max({k \in -6 .. 4 : Num(m, e, - k) >= Den(e, - k)})
  IN  IF m = 0 THEN 0
      ELSE IF Nearest(m, e, p - x) = 10 ^ (p + 1) THEN x + 1 ELSE x

Scientific(m, e, p) == Places(Nearest(m, e, p - TenPower(m, e, p)), p)

NearestText(m, e, p, t) ==
  LET sig == IF p = 0 THEN 1 ELSE p
      x == TenPower(m, e, sig - 1)
  IN  CASE t = "f" -> Places(Nearest(m, e, p), p)
        [] t = "e" -> Scientific(m, e, p) \o Exponent(TenPower(m, e, p))
        [] x < -4 \/ x >= sig -> TrimIf(Scientific(m, e, sig - 1)) \o Exponent(x)
        [] OTHER -> TrimIf(Places(Nearest(m, e, sig - 1 - x), sig - 1 - x))

\* %f, %e and %g print the decimal number of the precision asked for that is
\* closest to the value, %g in the shorter of the two forms, without zeros at
\* its end; every padded number reads the same, and is as wide as was asked.
PrintsNearest ==
  /\ call.fn = "ftoa" =>
       ftoa(call.a[1], call.a[2], call.a[3], call.a[4], call.a[5]) =
         (IF call.a[1] THEN <<Dash>> ELSE <<>>)
           \o NearestText(call.a[2], call.a[3], call.a[4], call.a[5])
  /\ call.fn = "integer" =>
       LET v == call.a[1]  base == call.a[2]  pad == call.a[3]  w == call.a[4]
           s == PadNumber(Integer(v, base), pad, w)
           signs == {i \in DOMAIN s : s[i] = Dash}
           value[i \in 0 .. Len(s)] ==
             IF i = 0 THEN 0
             ELSE IF s[i] \in {Dash, Blank} THEN value[i - 1] ELSE base * value[i - 1] + s[i]
       IN  /\ value[Len(s)] = IF v < 0 THEN - v ELSE v
           /\ Len(s) = Max({w, Len(Integer(v, base))})
           /\ signs = {} <=> v >= 0
           /\ \A i \in signs, j \in DOMAIN s : s[j] = Blank <=> j < i /\ pad = Blank

\* snprintf writes inside its bytes only, ends what it writes, and returns the
\* length of the whole text; the digit and text buffers of the floating
\* conversions hold the longest numbers there are.
PrintsBounded ==
  /\ call.fn = "snprintf" =>
       LET z == call.a[1]  n == call.a[2]
           o == snprintf([i \in 0 .. MaxRoom |-> Junk], z, [i \in 1 .. n |-> i])
           kept == IF n < z THEN n ELSE z - 1
       IN  /\ o.n = n
           /\ o.s = [i \in 0 .. MaxRoom |->
                       IF i < kept THEN i + 1 ELSE IF i = kept THEN 0 ELSE Junk]
  /\ call.fn = "extreme" =>
       LET m == call.a[1][1]  e == call.a[1][2]
       IN  /\ Len(fdig(m, e).d) <= 112
           /\ Len(ftoa(TRUE, m, e, 63, call.a[2])) < 128
=============================================================================
