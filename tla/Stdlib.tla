------------------------------- MODULE Stdlib -------------------------------
(***************************************************************************)
(* libc/stdlib.c: the sort, and the conversion of text to integers of a     *)
(* width that overflows. Characters that no conversion tells apart are left *)
(* out: Space stands for white space, the letters are their digit values.   *)
(***************************************************************************)
EXTENDS Calls, SequencesExt

CONSTANTS
  LongMax,      \* LONG_MAX; ULONG_MAX is 2 * LongMax + 1
  Digits,       \* digit values that occur in the text; 0 is one of them
  Space, Plus, Minus, X,   \* characters that are not digits of these bases
  MaxText, MaxItems,
  ArrayMax       \* (size_t)-1, for the guard of qsort

ULongMax == 2 * LongMax + 1
Symbol == {Space, Plus, Minus, X} \cup Digits
CharAt(s, i) == IF i < Len(s) THEN s[i + 1] ELSE -1

-----------------------------------------------------------------------------
Swap(a, q) == [a EXCEPT ![q] = a[q - 1], ![q - 1] = a[q]]

\* The item at q moves down while the one below it is greater.
RECURSIVE Sink(_, _)

Sink(a, q) == IF q > 1 /\ a[q - 1].key > a[q].key THEN Sink(Swap(a, q), q - 1) ELSE a

qsort(a, size) ==
  LET n == Len(a)
      sorted[i \in 1 .. n] == IF i = 1 THEN a ELSE Sink(sorted[i - 1], i)
  IN  IF size = 0 \/ n < 2 \/ n > ArrayMax \div size THEN a ELSE sorted[n]

-----------------------------------------------------------------------------
digit(c) == IF c \in Digits THEN c ELSE 99

\* The loop over the digits: the value, where it stops, and what it noticed.
RECURSIVE Accumulate(_, _, _, _)
Accumulate(s, r, base, limit) ==
  LET d == digit(CharAt(s, r.end))
      big == \/ r.v > limit \div base
             \/ r.v = limit \div base /\ d > limit % base
  IN  IF d >= base THEN r
      ELSE Accumulate(s, [end |-> r.end + 1, any |-> TRUE, over |-> r.over \/ big,
                          v |-> IF big \/ r.over THEN r.v ELSE r.v * base + d],
                      base, limit)

RECURSIVE SkipSpace(_, _)
SkipSpace(s, i) == IF CharAt(s, i) = Space THEN SkipSpace(s, i + 1) ELSE i

\* Mutant: the prefix is taken whatever follows it.
HexAlways(s, b, j) == b \in {0, 16} /\ CharAt(s, j) = 0 /\ CharAt(s, j + 1) = X

Hex(s, b, j) == /\ b \in {0, 16} /\ CharAt(s, j) = 0 /\ CharAt(s, j + 1) = X
                /\ digit(CharAt(s, j + 2)) < 16

number(s, b, limit, signed) ==
  LET i == SkipSpace(s, 0)
      neg == CharAt(s, i) = Minus
      j == IF CharAt(s, i) \in {Minus, Plus} THEN i + 1 ELSE i
      hex == Hex(s, b, j)
      base == IF hex THEN 16 ELSE IF b # 0 THEN b ELSE IF CharAt(s, j) = 0 THEN 8 ELSE 10
      most == IF signed /\ neg THEN limit + 1 ELSE limit
      r == Accumulate(s, [end |-> IF hex THEN j + 2 ELSE j, any |-> FALSE,
                          over |-> FALSE, v |-> 0], base, most)
  IN  IF b # 0 /\ b \notin 2 .. 36                       \* EINVAL
      THEN [v |-> 0, neg |-> FALSE, over |-> FALSE, end |-> 0]
      ELSE [v |-> IF r.over THEN most ELSE r.v, neg |-> neg, over |-> r.over,
            end |-> IF r.any THEN r.end ELSE 0]

strtoul(s, b) ==
  LET r == number(s, b, ULongMax, FALSE)
  IN  <<IF r.neg /\ ~ r.over THEN (0 - r.v) % (ULongMax + 1) ELSE r.v, r.end, r.over>>

strtol(s, b) ==
  LET r == number(s, b, LongMax, TRUE)
  IN  <<IF r.over THEN IF r.neg THEN - LongMax - 1 ELSE LongMax
        ELSE IF r.neg THEN - r.v ELSE r.v, r.end, r.over>>

-----------------------------------------------------------------------------
Items == UNION {[1 .. n -> [key : 0 .. 2, was : {0}]] : n \in 0 .. MaxItems}
NumberTexts == UNION {[1 .. n -> Symbol] : n \in 0 .. MaxText}

StdlibCalls ==
  \/ Call("qsort", {<<[i \in DOMAIN a |-> [a[i] EXCEPT !.was = i]], size>> :
                      a \in Items, size \in 0 .. 2})
  \/ Call("number", {<<s, b>> : s \in NumberTexts, b \in {0, 1, 2, 8, 10, 16, 37}})

\* The sort returns the items in order, equal ones in the order they were in,
\* unless the size of the array does not fit its type.
SortsStably ==
  call.fn = "qsort" =>
    LET a == call.a[1]  size == call.a[2]
        Before(x, y) == x.key < y.key \/ (x.key = y.key /\ x.was < y.was)
    IN  qsort(a, size) = IF size > 0 /\ size * Len(a) <= ArrayMax
                         THEN SetToSortSeq({a[i] : i \in DOMAIN a}, Before) ELSE a

\* The words of the grammar of C: white space, a sign, a prefix, digits.
Value(ds, base) ==
  LET v[i \in 0 .. Len(ds)] == IF i = 0 THEN 0 ELSE base * v[i - 1] + ds[i] IN v[Len(ds)]

Readings(s, b) ==
  {[neg |-> s[i] = Minus, end |-> e, v |-> Value(SubSeq(s, k + 1, e), base)] :
     <<i, k, e, base>> \in
       {<<i, k, e, base>> \in (1 .. Len(s)) \X (0 .. Len(s)) \X (1 .. Len(s)) \X {2, 8, 10, 16} :
          LET sign == i <= Len(s) /\ s[i] \in {Plus, Minus}
              start == IF sign THEN i ELSE i - 1
              hex == k = start + 2 /\ k < Len(s) /\ s[k - 1] = 0 /\ s[k] = X
          IN  /\ \A h \in 1 .. i - 1 : s[h] = Space
              /\ s[i] # Space
              /\ k < e /\ \A h \in k + 1 .. e : s[h] \in Digits /\ s[h] < base
              /\ \/ k = start /\ b = base
                 \/ k = start /\ b = 0 /\ base = IF s[k + 1] = 0 THEN 8 ELSE 10
                 \/ hex /\ base = 16 /\ b \in {0, 16}}}

\* strtol and strtoul read the longest number there is, to the last digit of
\* it even when it is too large, and return its value or the nearest they have.
ParsesLongest ==
  call.fn = "number" =>
    LET s == call.a[1]  b == call.a[2]
        words == Readings(s, b)
        w == IF words = {} THEN [neg |-> FALSE, end |-> 0, v |-> 0]
             ELSE CHOOSE x \in words : \A y \in words : y.end <= x.end
        n == IF w.neg THEN - w.v ELSE w.v
        clamped == IF n > LongMax THEN LongMax ELSE IF n < - LongMax - 1 THEN - LongMax - 1 ELSE n
    IN  /\ strtol(s, b) = <<clamped, w.end, n # clamped>>
        /\ strtoul(s, b) = <<IF w.v > ULongMax THEN ULongMax ELSE n % (ULongMax + 1),
                             w.end, w.v > ULongMax>>

\* The sort and the conversions.
StdlibAgrees == SortsStably /\ ParsesLongest
=============================================================================
