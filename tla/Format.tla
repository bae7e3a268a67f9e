------------------------------- MODULE Format -------------------------------
(***************************************************************************)
(* How vfmt() of libc/stdio.c reads a format and takes the arguments. Every *)
(* argument is the sequence of its parts: <<v>> is an integer or character, *)
(* <<sign, m, e>> a number, <<>> the null pointer and <<1>> \o s a string.  *)
(***************************************************************************)
EXTENDS Printf

Percent == 30
Star == 31
Ell == 32
Zet == 33
Nul == 34
Nothing == 35
StringConv == 40
CharConv == 41
IntConv == 42
UnsignedConv == 43
HexConv == 44
FloatConv == [f |-> 45, e |-> 46, g |-> 47]

NullText == Repeat(Nothing, 6)          \* "(null)"
Begins(f, set) == f # <<>> /\ f[1] \in set

-----------------------------------------------------------------------------
Digits10(f) == SubSeq(f, 1, Max({i \in 0 .. Len(f) : \A j \in 1 .. i : f[j] < 10}))
Written(f, a) ==
  [v |-> FoldLeft(LAMBDA n, c : 10 * n + c, 0, Digits10(f)),
   f |-> SubSeq(f, Len(Digits10(f)) + 1, Len(f)), a |-> a]

\* Mutant: the width that a star asks for is not taken from the arguments.
FieldKept(f, a) ==
  IF Begins(f, {Star}) THEN [v |-> a[1][1], f |-> Tail(f), a |-> a] ELSE Written(f, a)

\* A width or a precision: a star, or digits, or none.
Field(f, a) ==
  IF Begins(f, {Star}) THEN [v |-> a[1][1], f |-> Tail(f), a |-> Tail(a)] ELSE Written(f, a)

\* The text of a conversion, and whether it takes an argument x.
Takes(conv) ==
  conv \in {StringConv, CharConv, IntConv, UnsignedConv, HexConv} \cup Range(FloatConv)
Convert(conv, x, pad, w, p) ==
  LET s == IF x = <<>> THEN NullText ELSE Tail(x)
      Padded(t) == PadNumber(t, pad, w)
  IN  CASE conv = StringConv -> Pads(s, pad, w) \o s
        [] conv = CharConv -> x
        [] conv = IntConv -> Padded(Integer(x[1], 10))
        [] conv = UnsignedConv -> Padded(Integer(x[1] % 2 ^ Bits, 10))
        [] conv = HexConv -> Padded(Integer(x[1] % 2 ^ Bits, 16))
        [] OTHER -> LET t == CHOOSE t \in DOMAIN FloatConv : FloatConv[t] = conv
                    IN  Padded(ftoa(x[1] = 1, x[2], x[3], p, t))

\* A conversion that is not known prints a % and its character, which is the NUL
\* when the format ends after a width.
RECURSIVE vfmt(_, _)
vfmt(f, a) ==
  LET pad == IF f[2] = 0 THEN 0 ELSE Blank
      w == Field(SubSeq(f, IF pad = 0 THEN 3 ELSE 2, Len(f)), a)
      p == IF Begins(w.f, {Point}) THEN Field(Tail(w.f), w.a) ELSE [w EXCEPT !.v = - 1]
      g == IF Begins(p.f, {Ell, Zet}) THEN Tail(p.f) ELSE p.f
  IN  IF f = <<>> THEN <<>>
      ELSE IF f[1] # Percent THEN <<f[1]>> \o vfmt(Tail(f), a)
      ELSE IF Len(f) = 1 THEN <<Percent>>
      ELSE IF g = <<>> THEN <<Percent, Nul>>
      ELSE IF Takes(g[1])
           THEN Convert(g[1], p.a[1], pad, w.v, p.v) \o vfmt(Tail(g), Tail(p.a))
      ELSE <<Percent>> \o (IF g[1] = Percent THEN <<>> ELSE <<g[1]>>) \o vfmt(Tail(g), p.a)

-----------------------------------------------------------------------------
\* What C says that a conversion prints, told without vfmt's operators: x is the
\* argument, w the width and p the precision that were asked for, and -1 the
\* precision that was not.
Abs(n) == IF n < 0 THEN - n ELSE n
Numeral(n, base, least) ==
  LET k == CHOOSE k \in 0 .. Bits : n < base ^ k /\ (k = 0 \/ n >= base ^ (k - 1))
      m == Max({k, least})
  IN  [i \in 1 .. m |-> (n \div base ^ (m - i)) % base]

SignOf(conv, x) ==
  IF (conv = IntConv /\ x[1] < 0) \/ (conv \in Range(FloatConv) /\ x[1] = 1)
  THEN <<Dash>> ELSE <<>>
Body(conv, x, p) ==
  LET unsigned == IF x[1] < 0 THEN x[1] + 2 ^ Bits ELSE x[1]
      s == IF x = <<>> THEN NullText ELSE Tail(x)
      least == IF p < 0 THEN 1 ELSE p
  IN  CASE conv = StringConv -> SubSeq(s, 1, IF p < 0 THEN Len(s) ELSE Min({p, Len(s)}))
        [] conv = CharConv -> x
        [] conv = IntConv -> Numeral(Abs(x[1]), 10, least)
        [] conv = UnsignedConv -> Numeral(unsigned, 10, least)
        [] conv = HexConv -> Numeral(unsigned, 16, least)
        [] OTHER -> NearestText(x[2], x[3], IF p < 0 THEN 6 ELSE p,
                                CHOOSE t \in DOMAIN FloatConv : FloatConv[t] = conv)

\* The body filled up to its width: behind it when a width is negative, else
\* before its sign with blanks or behind it with zeros.
Printed(conv, x, zero, w, p) ==
  LET sign == SignOf(conv, x)  body == Body(conv, x, p)
      More(c) == [i \in 1 .. Max({0, Abs(w) - Len(sign) - Len(body)}) |-> c]
  IN  IF w < 0 THEN sign \o body \o More(Blank)
      ELSE IF zero THEN sign \o More(0) \o body
      ELSE More(Blank) \o sign \o body

\* vfmt departs from C in what it does not heed of a conversion:
\*   a negative star   fill behind the text: it is no width at all
\*   a width of %c     fill
\*   a precision       cut a string, or ask for the least digits of an integer
\* What C leaves undefined it has its own way with: the zero flag fills before a
\* string too, and the null pointer is the string (null).
WidthRead(conv, w) == IF w < 0 \/ conv = CharConv THEN 0 ELSE w
PrecisionRead(conv, p) == IF conv \in Range(FloatConv) THEN p ELSE - 1

\* What a programmer writes: a piece of a format, its arguments and what it is
\* to print. A field is left out, or <<"digits", n>>, or <<"star", n>>.
Spell(x) == IF x = <<>> THEN <<>> ELSE IF x[1] = "star" THEN <<Star>> ELSE Numeral(x[2], 10, 1)
Asked(x, n) == IF x = <<>> THEN n ELSE x[2]
Stars(x) == IF x # <<>> /\ x[1] = "star" THEN << <<x[2]>> >> ELSE <<>>

Piece(zero, w, p, size, conv, x) ==
  [f |-> <<Percent>> \o (IF zero THEN <<0>> ELSE <<>>) \o Spell(w)
           \o (IF p = <<>> THEN <<>> ELSE <<Point>> \o Spell(p)) \o size \o <<conv>>,
   a |-> Stars(w) \o Stars(p) \o <<x>>,
   text |-> Printed(conv, x, zero, WidthRead(conv, Asked(w, 0)),
                    PrecisionRead(conv, Asked(p, - 1)))]

Plainly(s) == [f |-> s, a |-> <<>>, text |-> s]
Some(n) == {<<>>, <<"digits", n>>, <<"star", n>>, <<"star", - n>>}
Sizes == {<<>>, <<Ell>>, <<Zet>>}

Pieces ==
  {Piece(z, w, p, l, c, <<v>>) :
     z \in BOOLEAN, w \in Some(10), p \in Some(4), l \in Sizes,
     c \in {IntConv, UnsignedConv, HexConv}, v \in {-7, 0, 12}}
    \cup {Piece(z, w, p, <<>>, StringConv, x) :
            z \in BOOLEAN, w \in Some(3), p \in Some(1), x \in {<<>>, <<1>>, <<1, 5, 6>>}}
    \cup {Piece(z, w, p, <<>>, FloatConv[t], <<1, 5, -1>>) :
            z \in BOOLEAN, w \in Some(10), p \in Some(2), t \in {"f", "e", "g"}}
    \cup {Piece(FALSE, w, <<>>, <<>>, CharConv, <<5>>) : w \in Some(2)}
    \cup {[f |-> <<Percent, Percent>>, a |-> <<>>, text |-> <<Percent>>],
           Plainly(<<Percent, Dash>>)}
    \cup {Plainly(<<c>>) : c \in {0, 1, Point, Star, Ell}}

Behind == {Plainly(<<>>), Plainly(<<1>>), Plainly(<<Percent>>),
           Piece(FALSE, <<>>, <<>>, <<>>, IntConv, <<24>>),
           Piece(TRUE, <<"star", 3>>, <<>>, <<>>, StringConv, <<1, 5>>)}

FormatCalls == Call("vfmt", Pieces \X Behind)

\* Every piece of a format prints what C says of it, as far as vfmt heeds it, and
\* what stands between the pieces is printed as it is: no argument is taken twice
\* or left for the next piece, whatever flags, widths and precisions come before.
\* A % at the very end is printed.
FormatsRead ==
  call.fn = "vfmt" =>
    LET x == call.a[1]  y == call.a[2]
    IN  vfmt(x.f \o y.f, x.a \o y.a) = x.text \o y.text

\* What the formatter prints fits its buffers, and is what C says of the
\* format, but for the fields that vfmt does not heed.
PrintsAll == PrintsBounded /\ FormatsRead
=============================================================================
