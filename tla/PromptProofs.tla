---------------------------- MODULE PromptProofs ----------------------------
(***************************************************************************)
(* Theorems about the prompt: the buffer of perlos_readline() (Readline)    *)
(* and what it returns, for every size of the buffer and every set of       *)
(* characters; then the loop of perlos_repl() (Repl), for every limit and   *)
(* every set of lines, wherever realloc() puts the block.                   *)
(*                                                                         *)
(* What readline returns is compared with LineText, which reads a whole     *)
(* sequence of keys, so the proof goes key by key twice: how the parser     *)
(* that leaves escape sequences out reads one key more (At), and what one   *)
(* key more does to the text (Spelt).  Where an induction over sequences is *)
(* wanted, a shortest counterexample is taken.                              *)
(***************************************************************************)
EXTENDS Readline, Repl, ModuloFacts, SequenceTheorems, FiniteSetTheorems, TLAPS

(***************************************************************************)
(* TypeOK and, for the bound on keys, that an LF is skipped first or never. *)
(***************************************************************************)
ReadInv ==
  /\ TypeOK
  /\ reading => Len(keys) <= MaxKeys
  /\ reading /\ skip_lf = TRUE => keys = <<>>

LEMMA EmptyFits ==
  /\ \A T : <<>> \in Seq(T)
  /\ Len(<<>>) = 0 /\ Len(<<>>) < Cap /\ Len(<<>>) <= MaxKeys
BY ReadlineAssumption

\* A state in which nothing is typed.
LEMMA EmptyInv ==
  ASSUME skip_lf \in BOOLEAN, reading \in BOOLEAN, too_long = FALSE, escape = 0, s = <<>>,
         ret = NoResult, screen = <<>>, keys = <<>>, afterCr \in BOOLEAN
  PROVE  ReadInv
<1>1. ret.line = <<>> /\ ret.code = Len(ret.line) /\ ret.code \notin Codes
  BY EmptyFits DEF NoResult, Codes
<1>2. Len(s) < Cap /\ Len(ret.line) < Cap /\ Len(keys) <= MaxKeys + 1 /\ Len(keys) <= MaxKeys
  BY <1>1, ReadlineAssumption
<1>3. s \in Seq(Visible) /\ ret.line \in Seq(Visible) /\ keys \in Seq(Key) /\ screen \in Seq(Visible)
  BY <1>1, EmptyFits
<1>4. escape \in 0 .. 2
  OBVIOUS
<1>5. TypeOK
  BY <1>1, <1>2, <1>3, <1>4, Zenon DEF TypeOK
<1> QED
  BY <1>2, <1>5, Zenon DEF ReadInv

LEMMA InitInv == Init => ReadInv
<1>. SUFFICES ASSUME Init PROVE ReadInv
  OBVIOUS
<1> QED
  BY EmptyInv, Zenon DEF Init

LEMMA AppendTyped ==
  ASSUME NEW T, NEW t \in Seq(T), NEW e \in T
  PROVE  Append(t, e) \in Seq(T) /\ Len(Append(t, e)) = Len(t) + 1
OBVIOUS

\* Erasing shortens what there is.
LEMMA FrontTyped ==
  ASSUME NEW T, NEW t \in Seq(T), t # <<>>
  PROVE  Front(t) \in Seq(T) /\ Len(Front(t)) = Len(t) - 1
<1>. DEFINE n == Len(t) - 1
<1>1. n \in Nat /\ \A i \in 1 .. n : t[i] \in T
  BY EmptySeq, LenProperties
<1>2. Front(t) = SubSeq(t, 1, n)
  BY DEF Front
<1>. HIDE DEF n
<1>3. SubSeq(t, 1, n) \in Seq(T) /\ Len(SubSeq(t, 1, n)) = IF 1 <= n THEN n - 1 + 1 ELSE 0
  BY <1>1, SubSeqProperties
<1>4. (IF 1 <= n THEN n - 1 + 1 ELSE 0) = n
  BY <1>1
<1>5. Front(t) \in Seq(T) /\ Len(Front(t)) = n
  BY <1>2, <1>3, <1>4
<1> QED
  BY <1>5 DEF n

LEMMA CallInv == ReadInv /\ Call => ReadInv'
<1>. SUFFICES ASSUME ReadInv, Call PROVE ReadInv'
  OBVIOUS
<1>1. skip_lf \in BOOLEAN /\ afterCr \in BOOLEAN
  BY DEF ReadInv, TypeOK
<1>2. afterCr' \in BOOLEAN
  <2>1. CASE keys = <<>>
    BY <1>1, <2>1, Zenon DEF Call
  <2>2. CASE keys # <<>>
    <3>1. afterCr' = (Last(keys) = "CR")
      BY <2>2, Zenon DEF Call
    <3> QED
      BY <3>1, Zenon
  <2> QED
    BY <2>1, <2>2
<1>3. /\ too_long' = FALSE /\ escape' = 0 /\ s' = <<>> /\ ret' = NoResult
      /\ screen' = <<>> /\ keys' = <<>> /\ reading' = TRUE /\ skip_lf' = skip_lf
  BY Zenon DEF Call
<1>4. skip_lf' \in BOOLEAN /\ reading' \in BOOLEAN
  BY <1>1, <1>3, Zenon
<1>5. ret'.line = <<>> /\ ret'.code = Len(ret'.line) /\ ret'.code \notin Codes
  BY <1>3, EmptyFits DEF NoResult, Codes
<1>6. /\ Len(s') < Cap /\ Len(ret'.line) < Cap
      /\ Len(keys') <= MaxKeys + 1 /\ Len(keys') <= MaxKeys
  BY <1>3, <1>5, ReadlineAssumption
<1>7. /\ s' \in Seq(Visible) /\ ret'.line \in Seq(Visible)
      /\ keys' \in Seq(Key) /\ screen' \in Seq(Visible)
  BY <1>3, <1>5, EmptyFits
<1>8. escape' \in 0 .. 2
  BY <1>3
<1>9. TypeOK'
  BY <1>2, <1>3, <1>4, <1>5, <1>6, <1>7, <1>8, Zenon DEF TypeOK
<1> QED
  BY <1>3, <1>6, <1>9, Zenon DEF ReadInv

\* The end of a call returns no more than the buffer has.
LEMMA EndInv ==
  ASSUME ReadInv, NEW c \in Key, reading,
         Enter(c) \/ Interrupt(c) \/ EndOfText(c)
  PROVE  /\ s' \in Seq(Visible) /\ Len(s') < Cap
         /\ ret'.line \in Seq(Visible) /\ Len(ret'.line) < Cap
         /\ ret'.code \in Codes \cup {Len(ret'.line)}
         /\ ret'.code \in Codes => ret'.line = <<>>
         /\ UNCHANGED <<too_long, escape, screen>> /\ reading' = FALSE
<1>1. /\ s \in Seq(Visible) /\ Len(s) < Cap /\ Len(s) \notin Codes
      /\ <<>> \in Seq(Visible) /\ Len(<<>>) < Cap
  BY ReadlineAssumption DEF ReadInv, TypeOK, Codes
<1>. DEFINE Fits(r) == /\ r.line \in Seq(Visible) /\ Len(r.line) < Cap
                       /\ r.code \in Codes \cup {Len(r.line)}
                       /\ r.code \in Codes => r.line = <<>>
<1>2. /\ Fits([code |-> Len(s), line |-> s])
      /\ \A k \in Codes : Fits([code |-> k, line |-> <<>>])
      /\ -1 \in Codes /\ -2 \in Codes /\ -3 \in Codes
  BY <1>1 DEF Codes
<1>. HIDE DEF Fits
<1>3. CASE Enter(c)
  <2>1. /\ UNCHANGED <<s, too_long, escape, screen>> /\ reading' = FALSE
        /\ \/ ret' = [code |-> -3, line |-> <<>>]
           \/ ret' = [code |-> Len(s), line |-> s]
    BY <1>3, Zenon DEF Enter, Returns, Stays
  <2>2. Fits(ret')
    BY <1>2, <2>1, Zenon
  <2> QED
    BY <1>1, <2>1, <2>2 DEF Fits
<1>4. CASE Interrupt(c)
  BY <1>1, <1>4 DEF Interrupt, Returns, Codes
<1>5. CASE EndOfText(c)
  <2>1. /\ s' = s \/ s' = <<>>
        /\ UNCHANGED <<too_long, escape, screen>> /\ reading' = FALSE
        /\ \/ ret' = [code |-> -3, line |-> <<>>]
           \/ ret' = [code |-> -1, line |-> <<>>]
           \/ ret' = [code |-> Len(s), line |-> s]
    BY <1>5, Zenon DEF EndOfText, Returns
  <2>2. Fits(ret')
    BY <1>2, <2>1, Zenon
  <2> QED
    BY <1>1, <2>1, <2>2 DEF Fits
<1> QED
  BY <1>3, <1>4, <1>5

\* Any other key keeps the text and its zero in the buffer.
LEMMA EditInv ==
  ASSUME ReadInv, NEW c \in Key,
         Stays \/ InEscape(c) \/ StartEscape(c) \/ Erase(c) \/ Ignored(c) \/ Put(c)
  PROVE  /\ s' \in Seq(Visible) /\ Len(s') < Cap
         /\ too_long' \in BOOLEAN /\ escape' \in 0 .. 2 /\ screen' \in Seq(Visible)
<1>1. /\ s \in Seq(Visible) /\ Len(s) < Cap /\ too_long \in BOOLEAN
      /\ escape \in 0 .. 2 /\ screen \in Seq(Visible)
  BY DEF ReadInv, TypeOK
<1>2. CASE Stays \/ Ignored(c)
  BY <1>1, <1>2 DEF Stays, Ignored
<1>3. CASE InEscape(c) \/ StartEscape(c)
  BY <1>1, <1>3 DEF InEscape, StartEscape
<1>4. CASE Erase(c)
  <2>1. s # <<>> => Front(s) \in Seq(Visible) /\ Len(Front(s)) < Cap
    BY <1>1, FrontTyped, ReadlineAssumption
  <2>2. screen # <<>> => Front(screen) \in Seq(Visible)
    BY <1>1, FrontTyped
  <2> QED
    BY <1>1, <1>4, <2>1, <2>2 DEF Erase, ShowsErased
<1>5. CASE Put(c)
  <2>1. c \in Visible
    BY <1>5 DEF Put
  <2>2. Len(s) + 1 < Cap => Append(s, c) \in Seq(Visible) /\ Len(Append(s, c)) < Cap
    BY <1>1, <2>1, AppendTyped
  <2>3. screen \o <<c>> \in Seq(Visible)
    BY <1>1, <2>1
  <2>4. CASE UNCHANGED <<s, escape, screen>> /\ (too_long' = too_long \/ too_long' = TRUE)
    BY <1>1, <2>4
  <2>5. CASE /\ ~ (Len(s) + 1 >= Cap) /\ s' = Append(s, c) /\ screen' = screen \o <<c>>
             /\ UNCHANGED <<too_long, escape>>
    BY <1>1, <2>2, <2>3, <2>5, ReadlineAssumption
  <2> QED
    BY <1>5, <2>4, <2>5, Zenon DEF Put, Stays, Shows
<1> QED
  BY <1>2, <1>3, <1>4, <1>5

LEMMA GetKeyInv ==
  ASSUME ReadInv, NEW c \in Key, GetKey(c)
  PROVE  ReadInv'
<1>1. /\ reading /\ keys' = Append(keys, c) /\ afterCr' = afterCr
      /\ skip_lf' = (c = "CR") /\ (Len(keys) < MaxKeys \/ c \in Ending)
  BY DEF GetKey, NextSkip
<1>2. keys' \in Seq(Key) /\ Len(keys') = Len(keys) + 1 /\ Len(keys') <= MaxKeys + 1
  <2>1. keys \in Seq(Key) /\ Len(keys) <= MaxKeys
    BY <1>1 DEF ReadInv, TypeOK
  <2>2. keys' \in Seq(Key) /\ Len(keys') = Len(keys) + 1
    BY <1>1, <2>1, AppendTyped
  <2> QED
    BY <2>1, <2>2, ReadlineAssumption
<1>3. skip_lf' \in BOOLEAN /\ afterCr' \in BOOLEAN
  BY <1>1 DEF ReadInv, TypeOK
<1>4. CASE Enter(c) \/ Interrupt(c) \/ EndOfText(c)
  <2>1. /\ s' \in Seq(Visible) /\ Len(s') < Cap
        /\ ret'.line \in Seq(Visible) /\ Len(ret'.line) < Cap
        /\ ret'.code \in Codes \cup {Len(ret'.line)}
        /\ ret'.code \in Codes => ret'.line = <<>>
        /\ UNCHANGED <<too_long, escape, screen>> /\ reading' = FALSE
    BY <1>1, <1>4, EndInv
  <2>2. TypeOK'
    BY <1>2, <1>3, <2>1 DEF ReadInv, TypeOK
  <2> QED
    BY <2>1, <2>2 DEF ReadInv
<1>5. CASE ~ (Enter(c) \/ Interrupt(c) \/ EndOfText(c))
  <2>1. /\ reading' = reading /\ ret' = ret
        /\ Stays \/ InEscape(c) \/ StartEscape(c) \/ Erase(c) \/ Ignored(c) \/ Put(c)
        /\ Skipped(c) \/ c \notin Ending
    BY <1>5 DEF GetKey
  <2>2. /\ s' \in Seq(Visible) /\ Len(s') < Cap
        /\ too_long' \in BOOLEAN /\ escape' \in 0 .. 2 /\ screen' \in Seq(Visible)
    BY <2>1, EditInv
  <2>3. TypeOK'
    BY <1>2, <1>3, <2>1, <2>2 DEF ReadInv, TypeOK
  <2>4. Len(keys') <= MaxKeys
    <3>1. CASE Skipped(c)
      <4>1. keys = <<>>
        BY <1>1, <3>1 DEF Skipped, ReadInv, TypeOK
      <4> QED
        BY <1>2, <4>1, ReadlineAssumption
    <3>2. CASE c \notin Ending
      BY <1>1, <1>2, <3>2, ReadlineAssumption DEF ReadInv, TypeOK
    <3> QED
      BY <2>1, <3>1, <3>2
  <2>5. skip_lf' = FALSE
    BY <1>1, <2>1 DEF Skipped, Ending
  <2> QED
    BY <2>3, <2>4, <2>5 DEF ReadInv
<1> QED
  BY <1>4, <1>5

(***************************************************************************)
(* The text in the buffer and the text returned are always shorter than the *)
(* buffer, so that there is room for the zero, and a returned n is the      *)
(* length of the line; for every size of the buffer, whatever is typed.     *)
(***************************************************************************)
THEOREM ReadlineTypeCorrect == Spec => []TypeOK
<1>1. Init => ReadInv
  BY InitInv
<1>2. ReadInv /\ [Next]_vars => ReadInv'
  <2>. SUFFICES ASSUME ReadInv, [Next]_vars PROVE ReadInv'
    OBVIOUS
  <2>1. CASE Call
    BY <2>1, CallInv
  <2>2. ASSUME NEW c \in Key, GetKey(c) PROVE ReadInv'
    BY <2>2, GetKeyInv
  <2>3. CASE UNCHANGED vars
    BY <2>3 DEF vars, ReadInv, TypeOK
  <2> QED
    BY <2>1, <2>2, <2>3 DEF Next
<1>3. ReadInv => TypeOK
  BY DEF ReadInv
<1> QED
  BY <1>1, <1>2, <1>3, PTL DEF Spec

-----------------------------------------------------------------------------
\* The parser of LineText.  Its equation, on the sequences of H; it cuts an
\* escape sequence or a key off and goes on with the rest.
Cut(k) == IF k[1] = "ESC" THEN SubSeq(k, Text!EscapeLength(k) + 1, Len(k)) ELSE Tail(k)

Parse(f, k) ==
  IF k = <<>> THEN <<>>
  ELSE IF k[1] = "ESC" THEN f[SubSeq(k, Text!EscapeLength(k) + 1, Len(k))]
  ELSE <<k[1]>> \o f[Tail(k)]

Parses(f, H) == f = [k \in H |-> Parse(f, k)]

UpTo(n) == {k \in Seq(Key) : Len(k) <= n}

KeepsCuts(H) == H \in SUBSET Seq(Key) /\ \A k \in H \ {<<>>} : Cut(k) \in H

LEMMA ParsesIs ==
  ASSUME NEW f, NEW H, Parses(f, H)
  PROVE  \A k \in H : f[k] = Parse(f, k)
BY Zenon DEF Parses

LEMMA EscapeLengthIs ==
  ASSUME NEW k \in Seq(Key), k # <<>>
  PROVE  Text!EscapeLength(k) \in 1 .. Len(k)
<1> DEFINE ends == IF Len(k) >= 2 /\ k[2] \in Intro
                   THEN {i \in 3 .. Len(k) : k[i] \in Final}
                   ELSE {2} \cap DOMAIN k
<1>1. Len(k) \in Nat \ {0} /\ DOMAIN k = 1 .. Len(k)
  BY EmptySeq, LenProperties
<1>2. ends \in SUBSET Nat /\ ends \in SUBSET (1 .. Len(k))
  BY <1>1
<1>3. Text!EscapeLength(k)
        = IF ends = {} THEN Len(k) ELSE CHOOSE i \in ends : \A j \in ends : i <= j
  BY DEF Text!EscapeLength
<1>. HIDE DEF ends
<1>4. CASE ends = {}
  BY <1>1, <1>3, <1>4
<1>5. CASE ends # {}
  <2>1. \E i \in ends : \A j \in ends : i <= j
    BY ONLY <1>2, <1>5, LeastNatural
  <2>2. (CHOOSE i \in ends : \A j \in ends : i <= j) \in ends
    BY <2>1, Zenon
  <2> QED
    BY <1>2, <1>3, <1>5, <2>2
<1> QED
  BY <1>4, <1>5

LEMMA CutShorter ==
  ASSUME NEW k \in Seq(Key), k # <<>>
  PROVE  Cut(k) \in Seq(Key) /\ Len(Cut(k)) \in Nat /\ Len(Cut(k)) < Len(k)
<1>1. Len(k) \in Nat \ {0} /\ \A i \in 1 .. Len(k) : k[i] \in Key
  BY EmptySeq, ElementOfSeq
<1>2. CASE k[1] = "ESC"
  <2>1. PICK m, n : m = Text!EscapeLength(k) + 1 /\ n = Len(k)
    OBVIOUS
  <2>2. m \in 2 .. n + 1 /\ n \in Nat /\ n # 0 /\ \A i \in m .. n : k[i] \in Key
    BY <1>1, <2>1, EscapeLengthIs
  <2>3. SubSeq(k, m, n) \in Seq(Key) /\ Len(SubSeq(k, m, n)) = IF m <= n THEN n - m + 1 ELSE 0
    BY <2>2, SubSeqProperties
  <2>4. Cut(k) = SubSeq(k, m, n)
    BY <1>2, <2>1 DEF Cut
  <2> QED
    BY <2>1, <2>2, <2>3, <2>4
<1>3. CASE k[1] # "ESC"
  <2>1. Tail(k) \in Seq(Key) /\ Len(Tail(k)) = Len(k) - 1
    BY HeadTailProperties
  <2> QED
    BY <1>1, <1>3, <2>1 DEF Cut
<1> QED
  BY <1>2, <1>3

\* Two functions that parse agree where both do.
LEMMA ParseOnce ==
  ASSUME NEW H, NEW T, KeepsCuts(H), KeepsCuts(T),
         NEW f, NEW g, Parses(f, H), Parses(g, T), NEW k, k \in H, k \in T
  PROVE  f[k] = g[k]
<1> DEFINE Bad == {x \in H \cap T : f[x] # g[x]}
           Lens == {n \in Nat : \E x \in Bad : Len(x) = n}
<1>1. SUFFICES ASSUME Bad # {} PROVE FALSE
  BY <1>1
<1>2. \A x \in Bad : Len(x) \in Nat
  BY LenProperties DEF KeepsCuts
<1>3. Lens # {} /\ Lens \in SUBSET Nat
  BY <1>1, <1>2
<1>4. PICK n \in Lens : \A m \in Lens : n <= m
  BY ONLY <1>3, LeastNatural
<1>5. PICK x \in Bad : Len(x) = n
  BY <1>4
<1>6. /\ x \in H /\ x \in T /\ x \in Seq(Key) /\ f[x] # g[x]
      /\ f[x] = Parse(f, x) /\ g[x] = Parse(g, x)
  BY <1>5, ParsesIs DEF KeepsCuts
<1>7. x # <<>>
  BY <1>6 DEF Parse
<1>8. Cut(x) \in H /\ Cut(x) \in T /\ Len(Cut(x)) \in Nat /\ Len(Cut(x)) < Len(x)
  BY <1>6, <1>7, CutShorter DEF KeepsCuts
<1>9. f[Cut(x)] = g[Cut(x)]
  <2>1. Len(Cut(x)) \notin Lens
    BY <1>4, <1>5, <1>8
  <2> QED
    BY <1>8, <2>1
<1> QED
  BY <1>6, <1>7, <1>9 DEF Parse, Cut

LEMMA UpToClosed ==
  ASSUME NEW n \in Nat
  PROVE  KeepsCuts(UpTo(n))
<1> SUFFICES ASSUME NEW k \in UpTo(n) \ {<<>>} PROVE Cut(k) \in UpTo(n)
  BY DEF UpTo, KeepsCuts
<1>1. k \in Seq(Key) /\ k # <<>> /\ Len(k) <= n /\ Len(k) \in Nat
  BY LenProperties DEF UpTo
<1>2. Cut(k) \in Seq(Key) /\ Len(Cut(k)) \in Nat /\ Len(Cut(k)) < Len(k)
  BY <1>1, CutShorter
<1> QED
  BY <1>1, <1>2 DEF UpTo

\* One more key off.
LEMMA ParseTyped ==
  ASSUME NEW k \in Seq(Key), NEW f, k # <<>> => f[Cut(k)] \in Seq(Key)
  PROVE  Parse(f, k) \in Seq(Key)
<1>1. CASE k = <<>>
  BY <1>1, EmptySeq DEF Parse
<1>2. CASE k # <<>> /\ k[1] = "ESC"
  BY <1>2 DEF Parse, Cut
<1>3. CASE k # <<>> /\ k[1] # "ESC"
  <2>1. k[1] \in Key
    <3>1. Len(k) \in Nat \ {0}
      BY <1>3, EmptySeq
    <3> QED
      BY <3>1, ElementOfSeq
  <2>2. <<k[1]>> \in Seq(Key) /\ f[Tail(k)] \in Seq(Key)
    BY <1>3, <2>1 DEF Cut
  <2>3. <<k[1]>> \o f[Tail(k)] \in Seq(Key)
    BY <2>2, ConcatProperties
  <2> QED
    BY <1>3, <2>3 DEF Parse
<1> QED
  BY <1>1, <1>2, <1>3

Typed(f, H) == f \in [H -> Seq(Key)] /\ Parses(f, H)

LEMMA ParseSome ==
  ASSUME NEW n \in Nat
  PROVE  \E f : Typed(f, UpTo(n))
<1> DEFINE Bad == {m \in Nat : ~ \E f : Typed(f, UpTo(m))}
<1>1. SUFFICES ASSUME Bad # {} PROVE FALSE
  BY <1>1
<1>2. PICK m \in Bad : \A c \in Bad : m <= c
  <2>1. Bad \in SUBSET Nat
    OBVIOUS
  <2> QED
    BY ONLY <1>1, <2>1, LeastNatural
<1>3. m \in Nat /\ ~ \E f : Typed(f, UpTo(m))
  OBVIOUS
<1>4. PICK f : \A k \in UpTo(m) \ {<<>>} :
                  f[Cut(k)] \in Seq(Key) /\ (Cut(k) # <<>> => f[Cut(k)] = Parse(f, Cut(k)))
                  /\ (Cut(k) = <<>> => f[Cut(k)] = <<>>)
  <2>1. CASE m = 0
    <3>1. \A k \in UpTo(m) : k = <<>>
      BY <2>1, EmptySeq DEF UpTo
    <3> QED
      BY <3>1
  <2>2. CASE m # 0
    <3>1. m - 1 \in Nat /\ m - 1 \notin Bad
      BY <1>2, <1>3, <2>2
    <3>2. PICK f : Typed(f, UpTo(m - 1))
      BY <3>1
    <3>3. \A x \in UpTo(m - 1) : f[x] \in Seq(Key) /\ f[x] = Parse(f, x)
      BY <3>2, ParsesIs DEF Typed
    <3>4. ASSUME NEW k \in UpTo(m) \ {<<>>} PROVE Cut(k) \in UpTo(m - 1)
      <4>1. k \in Seq(Key) /\ k # <<>> /\ Len(k) <= m /\ Len(k) \in Nat
        BY LenProperties DEF UpTo
      <4>2. Cut(k) \in Seq(Key) /\ Len(Cut(k)) \in Nat /\ Len(Cut(k)) < Len(k)
        BY <4>1, CutShorter
      <4> QED
        BY <1>3, <4>1, <4>2 DEF UpTo
    <3> QED
      BY <3>3, <3>4 DEF Parse
  <2> QED
    BY <2>1, <2>2
<1> DEFINE g == [k \in UpTo(m) |-> Parse(f, k)]
<1>5. ASSUME NEW k \in UpTo(m) PROVE Parse(g, k) = Parse(f, k) /\ Parse(f, k) \in Seq(Key)
  <2>1. k \in Seq(Key)
    BY DEF UpTo
  <2>2. CASE k = <<>>
    BY <2>1, <2>2, ParseTyped DEF Parse
  <2>3. CASE k # <<>>
    <3>1. Cut(k) \in UpTo(m) /\ f[Cut(k)] \in Seq(Key) /\ f[Cut(k)] = Parse(f, Cut(k))
      BY <1>3, <1>4, <2>3, UpToClosed DEF Parse, KeepsCuts
    <3>2. g[Cut(k)] = f[Cut(k)]
      BY <3>1
    <3>. HIDE DEF g
    <3> QED
      BY <2>1, <2>3, <3>1, <3>2, ParseTyped DEF Parse, Cut
  <2> QED
    BY <2>2, <2>3
<1>6. g \in [UpTo(m) -> Seq(Key)]
  BY <1>5
<1>7. g = [k \in UpTo(m) |-> Parse(g, k)]
  BY <1>5, Zenon
<1> QED
  BY <1>3, <1>6, <1>7 DEF Typed, Parses

\* Plain is well defined.
LEMMA PlainParses == Parses(Text!Plain, Seq(Key)) /\ Text!Plain \in [Seq(Key) -> Seq(Key)]
<1> DEFINE At(n) == CHOOSE f : Typed(f, UpTo(n))
           G == [k \in Seq(Key) |-> At(Len(k))[k]]
<1>1. \A n \in Nat : Typed(At(n), UpTo(n))
  BY ParseSome, Zenon
<1>. HIDE DEF At
<1>2. ASSUME NEW k \in Seq(Key)
      PROVE  G[k] = Parse(G, k) /\ G[k] \in Seq(Key)
  <2>1. PICK n \in Nat : n = Len(k)
    BY LenProperties
  <2>2. k \in UpTo(n) /\ G[k] = At(n)[k]
    BY <2>1 DEF UpTo
  <2>3. At(n)[k] = Parse(At(n), k) /\ At(n)[k] \in Seq(Key)
    BY <1>1, <2>2, ParsesIs DEF Typed
  <2>4. ASSUME k # <<>> PROVE G[Cut(k)] = At(n)[Cut(k)]
    <3>1. PICK m \in Nat : m = Len(Cut(k))
      BY <2>4, CutShorter
    <3>2. Cut(k) \in Seq(Key) /\ m < n
      BY <2>1, <2>4, <3>1, CutShorter
    <3>3. Cut(k) \in UpTo(m) /\ Cut(k) \in UpTo(n)
      BY <3>1, <3>2 DEF UpTo
    <3>4. At(m)[Cut(k)] = At(n)[Cut(k)]
      <4>1. Parses(At(m), UpTo(m)) /\ Parses(At(n), UpTo(n))
        BY <1>1 DEF Typed
      <4>2. PICK f, g : f = At(m) /\ g = At(n)
        OBVIOUS
      <4>3. KeepsCuts(UpTo(m)) /\ KeepsCuts(UpTo(n))
        BY UpToClosed
      <4>4. Parses(f, UpTo(m)) /\ Parses(g, UpTo(n))
        BY <4>1, <4>2
      <4>5. f[Cut(k)] = g[Cut(k)]
        BY <3>3, <4>3, <4>4, ParseOnce
      <4> QED
        BY <4>2, <4>5
    <3> QED
      BY <3>1, <3>2, <3>4
  <2>. HIDE DEF G
  <2> QED
    BY <2>2, <2>3, <2>4 DEF Parse, Cut
<1>3. Parses(G, Seq(Key))
  <2>1. \A k \in Seq(Key) : At(Len(k))[k] = Parse(G, k)
    BY <1>2
  <2>2. G = [k \in Seq(Key) |-> Parse(G, k)]
    BY <2>1, Zenon
  <2> QED
    BY <2>2 DEF Parses
<1>4. Text!Plain = CHOOSE f : Parses(f, Seq(Key))
  BY Zenon DEF Text!Plain, Parses, Parse
<1>5. Parses(Text!Plain, Seq(Key))
  BY <1>3, <1>4, Zenon
<1>6. \A k \in Seq(Key) : Text!Plain[k] = G[k]
  <2>1. KeepsCuts(Seq(Key))
    BY CutShorter DEF KeepsCuts
  <2>. HIDE DEF G
  <2> QED
    BY <1>3, <1>5, <2>1, ParseOnce
<1>7. Text!Plain = [k \in Seq(Key) |-> Parse(Text!Plain, k)]
  BY <1>5 DEF Parses
<1>8. \A k \in Seq(Key) : Text!Plain[k] \in Seq(Key)
  BY <1>2, <1>6
<1> QED
  BY <1>5, <1>7, <1>8

LEMMA PlainIs ==
  /\ Text!Plain[<<>>] = <<>>
  /\ \A k \in Seq(Key) : Text!Plain[k] \in Seq(Key)
  /\ \A k \in Seq(Key) \ {<<>>} :
       Text!Plain[k] = IF k[1] = "ESC" THEN Text!Plain[Cut(k)] ELSE <<k[1]>> \o Text!Plain[Tail(k)]
<1>1. \A k \in Seq(Key) : Text!Plain[k] = Parse(Text!Plain, k)
  BY PlainParses, ParsesIs
<1>2. <<>> \in Seq(Key)
  BY EmptySeq
<1>3. \A k \in Seq(Key) : Text!Plain[k] \in Seq(Key)
  BY PlainParses
<1> QED
  BY <1>1, <1>2, <1>3 DEF Parse, Cut

-----------------------------------------------------------------------------
\* Where the parser is after the keys k: everything but an unfinished escape
\* sequence is done with, and whatever follows is parsed on its own.
P == Text!Plain

Done(a) == \A x \in Seq(Key) : P[a \o x] = P[a] \o P[x]

\* escape is 1 after ESC and 2 in a long sequence.
Unfinished(b, e) ==
  \/ e = 0 /\ b = <<>>
  \/ e = 1 /\ b = <<"ESC">>
  \/ e = 2 /\ Len(b) >= 2 /\ b[1] = "ESC" /\ b[2] \in Intro /\ \A i \in 3 .. Len(b) : b[i] \notin Final

Finished(b) ==
  /\ Len(b) >= 2 /\ b[1] = "ESC"
  /\ \/ Len(b) = 2 /\ b[2] \notin Intro
     \/ /\ Len(b) >= 3 /\ b[2] \in Intro /\ b[Len(b)] \in Final
        /\ \A i \in 3 .. Len(b) - 1 : b[i] \notin Final

At(k, e) == \E a, b \in Seq(Key) : k = a \o b /\ Done(a) /\ P[k] = P[a] /\ Unfinished(b, e)

LEMMA Joined ==
  ASSUME NEW b \in Seq(Key), NEW x \in Seq(Key)
  PROVE  /\ b \o x \in Seq(Key) /\ Len(b \o x) = Len(b) + Len(x) /\ Len(b) \in Nat /\ Len(x) \in Nat
         /\ DOMAIN (b \o x) = 1 .. Len(b) + Len(x)
         /\ \A i \in 1 .. Len(b) : (b \o x)[i] = b[i]
         /\ \A i \in 1 .. Len(x) : (b \o x)[Len(b) + i] = x[i]
         /\ SubSeq(b \o x, Len(b) + 1, Len(b) + Len(x)) = x
<1>1. PICK z, m, n : z = b \o x /\ m = Len(b) /\ n = Len(x)
  OBVIOUS
<1>2. m \in Nat /\ n \in Nat
  BY <1>1, LenProperties
<1>3. /\ z \in Seq(Key) /\ Len(z) = m + n
      /\ \A i \in 1 .. m + n : z[i] = IF i <= m THEN b[i] ELSE x[i - m]
  BY <1>1, ConcatProperties
<1>4. /\ \A i \in 1 .. m : z[i] = b[i]
      /\ \A i \in 1 .. n : z[m + i] = x[i]
  BY <1>2, <1>3
<1>5. DOMAIN z = 1 .. m + n /\ \A i \in 1 .. m + n : z[i] \in Key
  BY <1>3, LenProperties, ElementOfSeq
<1>6. SubSeq(z, m + 1, m + n) = x
  <2>1. PICK y, p, q : y = SubSeq(z, p, q) /\ p = m + 1 /\ q = m + n
    OBVIOUS
  <2>2. \A i \in p .. q : z[i] \in Key
    BY <1>2, <1>5, <2>1
  <2>3. /\ y \in Seq(Key) /\ Len(y) = (IF p <= q THEN q - p + 1 ELSE 0)
        /\ \A i \in 1 .. q - p + 1 : y[i] = z[p + i - 1]
    BY <1>2, <2>1, <2>2, SubSeqProperties
  <2>4. Len(y) = n /\ q - p + 1 = n
    BY <1>2, <2>1, <2>3
  <2>5. \A i \in 1 .. n : y[i] = x[i]
    <3> TAKE i \in 1 .. n
    <3>1. y[i] = z[p + i - 1] /\ p + i - 1 = m + i
      BY <1>2, <2>1, <2>3, <2>4
    <3> QED
      BY <1>4, <3>1
  <2>6. y = x
    BY <1>1, <2>3, <2>4, <2>5, SeqEqual
  <2> QED
    BY <2>1, <2>6
<1> QED
  BY <1>1, <1>2, <1>3, <1>4, <1>5, <1>6

\* An escape sequence that is finished leaves nothing behind.
LEMMA FinishedCut ==
  ASSUME NEW b \in Seq(Key), Finished(b), NEW x \in Seq(Key)
  PROVE  P[b \o x] = P[x]
<1>1. PICK z, n : z = b \o x /\ n = Len(b)
  OBVIOUS
<1>2. /\ z \in Seq(Key) /\ n \in Nat /\ Len(x) \in Nat /\ Len(z) = n + Len(x)
      /\ DOMAIN z = 1 .. n + Len(x) /\ \A i \in 1 .. n : z[i] = b[i]
      /\ SubSeq(z, n + 1, n + Len(x)) = x
  BY <1>1, Joined
<1>3. n >= 2 /\ z[1] = "ESC" /\ z # <<>>
  BY <1>1, <1>2 DEF Finished
<1>4. Text!EscapeLength(z) = n
  <2> DEFINE ends == IF Len(z) >= 2 /\ z[2] \in Intro
                     THEN {i \in 3 .. Len(z) : z[i] \in Final}
                     ELSE {2} \cap DOMAIN z
  <2>1. n \in ends /\ \A j \in ends : n <= j
    <3>1. CASE n = 2 /\ b[2] \notin Intro
      BY <1>2, <1>3, <3>1
    <3>2. CASE /\ n >= 3 /\ b[2] \in Intro /\ b[n] \in Final
               /\ \A i \in 3 .. n - 1 : b[i] \notin Final
      BY <1>2, <1>3, <3>2
    <3> QED
      BY <1>1, <3>1, <3>2 DEF Finished
  <2>2. ends \in SUBSET Nat
    BY <1>2
  <2>3. Text!EscapeLength(z)
          = IF ends = {} THEN Len(z) ELSE CHOOSE i \in ends : \A j \in ends : i <= j
    BY DEF Text!EscapeLength
  <2>. HIDE DEF ends
  <2>4. \A i \in ends : (\A j \in ends : i <= j) => i = n
    BY <1>2, <2>1, <2>2
  <2>5. (CHOOSE i \in ends : \A j \in ends : i <= j) = n
    <3> DEFINE c == CHOOSE i \in ends : \A j \in ends : i <= j
    <3>1. c \in ends /\ \A j \in ends : c <= j
      BY <2>1, Zenon
    <3>. HIDE DEF c
    <3>2. c = n
      BY <2>4, <3>1
    <3> QED
      BY <3>2 DEF c
  <2> QED
    BY <2>1, <2>3, <2>5
<1>5. Cut(z) = x
  BY <1>2, <1>3, <1>4 DEF Cut
<1>6. P[z] = P[Cut(z)]
  BY <1>2, <1>3, PlainIs DEF P
<1> QED
  BY <1>1, <1>5, <1>6

\* One that is not finished takes all that there is.
LEMMA UnfinishedCut ==
  ASSUME NEW b \in Seq(Key), NEW e, Unfinished(b, e)
  PROVE  P[b] = <<>>
<1>1. CASE b = <<>>
  BY <1>1, PlainIs DEF P
<1>2. CASE b # <<>>
  <2>1. b[1] = "ESC" /\ Len(b) \in Nat /\ DOMAIN b = 1 .. Len(b)
    BY <1>2, LenProperties DEF Unfinished
  <2> DEFINE ends == IF Len(b) >= 2 /\ b[2] \in Intro
                     THEN {i \in 3 .. Len(b) : b[i] \in Final}
                     ELSE {2} \cap DOMAIN b
  <2>2. ends = {}
    <3>1. CASE b = <<"ESC">>
      <4>1. Len(b) = 1
        BY <3>1
      <4> QED
        BY <2>1, <4>1
    <3>2. CASE Len(b) >= 2 /\ b[2] \in Intro /\ \A i \in 3 .. Len(b) : b[i] \notin Final
      BY <3>2
    <3> QED
      BY <1>2, <3>1, <3>2 DEF Unfinished
  <2>3. Text!EscapeLength(b) = Len(b)
    <3>1. Text!EscapeLength(b)
            = IF ends = {} THEN Len(b) ELSE CHOOSE i \in ends : \A j \in ends : i <= j
      BY DEF Text!EscapeLength
    <3>. HIDE DEF ends
    <3> QED
      BY <2>2, <3>1
  <2>4. SubSeq(b, Len(b) + 1, Len(b)) = <<>>
    BY <2>1, SubSeqEmpty
  <2>5. Cut(b) = <<>>
    BY <2>1, <2>3, <2>4 DEF Cut
  <2>6. P[b] = P[Cut(b)]
    BY <1>2, <2>1, PlainIs DEF P
  <2> QED
    BY <2>5, <2>6, PlainIs DEF P
<1> QED
  BY <1>1, <1>2

LEMMA Associative ==
  ASSUME NEW r \in Seq(Key), NEW t \in Seq(Key), NEW u \in Seq(Key)
  PROVE  r \o (t \o u) = (r \o t) \o u
BY ConcatAssociative

\* What is done with, and then a piece that is read on its own as t.
LEMMA DoneThen ==
  ASSUME NEW a \in Seq(Key), Done(a), NEW b \in Seq(Key), NEW t \in Seq(Key),
         \A x \in Seq(Key) : P[b \o x] = t \o P[x]
  PROVE  Done(a \o b) /\ P[a \o b] = P[a] \o t
<1>1. P[b] = t
  <2>1. <<>> \in Seq(Key) /\ b \o <<>> = b /\ t \o <<>> = t /\ P[<<>>] = <<>>
    BY EmptySeq, ConcatEmptySeq, PlainIs DEF P
  <2>2. P[b \o <<>>] = t \o P[<<>>]
    BY <2>1
  <2> QED
    BY <2>1, <2>2
<1>2. P[a \o b] = P[a] \o t
  BY <1>1 DEF Done
<1>3. ASSUME NEW x \in Seq(Key)
      PROVE  P[(a \o b) \o x] = P[a \o b] \o P[x]
  <2>1. (a \o b) \o x = a \o (b \o x) /\ b \o x \in Seq(Key)
    <3>1. a \o (b \o x) = (a \o b) \o x
      BY ONLY a \in Seq(Key), b \in Seq(Key), x \in Seq(Key), Associative, SMTT(30)
    <3> QED
      BY <3>1, ConcatProperties
  <2>2. P[a \o (b \o x)] = P[a] \o P[b \o x]
    BY <2>1 DEF Done
  <2>3. P[b \o x] = t \o P[x]
    OBVIOUS
  <2>4. P[a] \in Seq(Key) /\ P[x] \in Seq(Key)
    BY PlainIs DEF P
  <2>5. P[a] \o (t \o P[x]) = (P[a] \o t) \o P[x]
    <3>1. \A u, v \in Seq(Key) : u \o (t \o v) = (u \o t) \o v
      BY ONLY t \in Seq(Key), Associative, Zenon
    <3> QED
      BY ONLY <2>4, <3>1, Zenon
  <2> QED
    BY <1>2, <2>1, <2>2, <2>3, <2>5
<1> QED
  BY <1>2, <1>3 DEF Done

LEMMA Appended ==
  ASSUME NEW b \in Seq(Key), NEW c \in Key
  PROVE  \E d \in Seq(Key) : /\ d = Append(b, c) /\ Len(d) = Len(b) + 1 /\ Len(b) \in Nat
                             /\ d[Len(b) + 1] = c /\ \A i \in 1 .. Len(b) : d[i] = b[i]
<1>1. PICK d : d = Append(b, c)
  OBVIOUS
<1>2. d \in Seq(Key) /\ Len(d) = Len(b) + 1
  BY <1>1, AppendProperties
<1>3. d[Len(b) + 1] = c /\ \A i \in 1 .. Len(b) : d[i] = b[i]
  BY <1>1, AppendProperties
<1>4. Len(b) \in Nat
  BY LenProperties
<1> QED
  BY <1>1, <1>2, <1>3, <1>4

LEMMA AtStart == At(<<>>, 0)
<1>1. <<>> \in Seq(Key) /\ <<>> \o <<>> = <<>> /\ P[<<>>] = <<>>
  BY EmptySeq, ConcatEmptySeq, PlainIs DEF P
<1>2. Done(<<>>)
  <2> SUFFICES ASSUME NEW x \in Seq(Key) PROVE P[<<>> \o x] = P[<<>>] \o P[x]
    BY DEF Done
  <2>1. P[x] \in Seq(Key)
    BY PlainIs DEF P
  <2> QED
    BY <1>1, <2>1, ConcatEmptySeq
<1> QED
  BY <1>1, <1>2 DEF At, Unfinished

\* Outside of escape sequences keys are read one by one.
LEMMA AtKey ==
  ASSUME NEW k \in Seq(Key), At(k, 0), NEW c \in Key, c # "ESC"
  PROVE  At(Append(k, c), 0) /\ P[Append(k, c)] = Append(P[k], c)
<1>1. PICK a, b \in Seq(Key) : k = a \o b /\ Done(a) /\ P[k] = P[a] /\ Unfinished(b, 0)
  BY DEF At
<1>2. k = a /\ Done(k)
  BY <1>1, ConcatEmptySeq DEF Unfinished
<1>3. <<c>> \in Seq(Key) /\ Append(k, c) = k \o <<c>> /\ k \o <<c>> \in Seq(Key)
  BY AppendIsConcat, ConcatProperties
<1>4. ASSUME NEW x \in Seq(Key) PROVE P[<<c>> \o x] = <<c>> \o P[x]
  <2>1. PICK z : z = <<c>> \o x
    OBVIOUS
  <2>2. z \in Seq(Key) /\ z # <<>> /\ z[1] = c /\ Tail(z) = x
    <3>1. z \in Seq(Key) /\ Len(z) = 1 + Len(x) /\ Len(x) \in Nat
      BY <1>3, <2>1, ConcatProperties, LenProperties
    <3>2. \A i \in 1 .. 1 + Len(x) : z[i] = IF i <= 1 THEN c ELSE x[i - 1]
      BY <1>3, <2>1, ConcatProperties
    <3>3. z # <<>> /\ z[1] = c
      BY <3>1, <3>2
    <3>4. Tail(z) \in Seq(Key) /\ Len(Tail(z)) = Len(x) /\ \A i \in 1 .. Len(x) : Tail(z)[i] = z[i + 1]
      BY <3>1, <3>3, HeadTailProperties
    <3>5. \A i \in 1 .. Len(x) : Tail(z)[i] = x[i]
      BY <3>1, <3>2, <3>4
    <3>6. Tail(z) = x
      BY <3>4, <3>5, SeqEqual
    <3> QED
      BY <3>1, <3>3, <3>6
  <2> QED
    BY <2>1, <2>2, PlainIs DEF P
<1>5. Done(k \o <<c>>) /\ P[k \o <<c>>] = P[k] \o <<c>>
  BY <1>2, <1>3, <1>4, DoneThen, ZenonT(40)
<1>6. P[k] \o <<c>> = Append(P[k], c)
  <2>1. P[k] \in Seq(Key)
    BY PlainIs DEF P
  <2> QED
    BY <2>1, AppendIsConcat
<1>7. At(k \o <<c>>, 0)
  <2>1. (k \o <<c>>) \o <<>> = k \o <<c>> /\ <<>> \in Seq(Key)
    BY <1>3, ConcatEmptySeq, EmptySeq
  <2> QED
    BY <1>3, <1>5, <2>1 DEF At, Unfinished
<1> QED
  BY <1>3, <1>5, <1>6, <1>7

\* A key of an escape sequence, the first one included.
Escaping(e, c, f) ==
  \/ e = 0 /\ c = "ESC" /\ f = 1
  \/ e = 1 /\ f = IF c \in Intro THEN 2 ELSE 0
  \/ e = 2 /\ f = IF c \in Final THEN 0 ELSE 2

LEMMA AtEscape ==
  ASSUME NEW k \in Seq(Key), NEW e, At(k, e), NEW c \in Key, NEW f, Escaping(e, c, f)
  PROVE  At(Append(k, c), f) /\ P[Append(k, c)] = P[k]
<1>1. PICK a, b \in Seq(Key) : k = a \o b /\ Done(a) /\ P[k] = P[a] /\ Unfinished(b, e)
  BY DEF At
<1>2. PICK d \in Seq(Key) : d = Append(b, c) /\ Len(d) = Len(b) + 1 /\ Len(b) \in Nat
                            /\ d[Len(b) + 1] = c /\ \A i \in 1 .. Len(b) : d[i] = b[i]
  BY Appended
<1>3. Append(k, c) = a \o d /\ Append(k, c) \in Seq(Key)
  <2>1. <<c>> \in Seq(Key) /\ k \o <<c>> = Append(k, c) /\ b \o <<c>> = d
    BY <1>2, AppendIsConcat
  <2>2. (a \o b) \o <<c>> = a \o (b \o <<c>>)
    BY <2>1, Associative, SMTT(30)
  <2> QED
    BY <1>1, <2>1, <2>2, AppendProperties
<1>4. P[a] \in Seq(Key) /\ P[a] \o <<>> = P[a] /\ <<>> \in Seq(Key)
  BY PlainIs, ConcatEmptySeq, EmptySeq DEF P
<1>5. CASE Unfinished(d, f)
  <2>1. P[a \o d] = P[a]
    BY <1>1, <1>4, <1>5, UnfinishedCut DEF Done
  <2> QED
    BY <1>1, <1>3, <1>5, <2>1 DEF At
<1>6. CASE Finished(d) /\ f = 0
  <2>1. \A x \in Seq(Key) : P[d \o x] = <<>> \o P[x]
    <3> TAKE x \in Seq(Key)
    <3>1. P[d \o x] = P[x] /\ P[x] \in Seq(Key)
      BY <1>6, FinishedCut, PlainIs DEF P
    <3> QED
      BY <3>1, ConcatEmptySeq
  <2>2. Done(a \o d) /\ P[a \o d] = P[a] \o <<>>
    BY <1>1, <1>4, <2>1, DoneThen, ZenonT(40)
  <2>3. (a \o d) \o <<>> = a \o d
    BY <1>3, ConcatEmptySeq
  <2> QED
    BY <1>1, <1>3, <1>4, <1>6, <2>2, <2>3 DEF At, Unfinished
<1>7. Unfinished(d, f) \/ (Finished(d) /\ f = 0)
  <2>1. CASE e = 0
    <3>1. b = <<>> /\ c = "ESC" /\ f = 1
      BY <1>1, <2>1 DEF Unfinished, Escaping
    <3>2. d = <<"ESC">>
      BY <1>2, <3>1
    <3> QED
      BY <3>1, <3>2 DEF Unfinished
  <2>2. CASE e = 1
    <3>1. b = <<"ESC">> /\ f = IF c \in Intro THEN 2 ELSE 0
      BY <1>1, <2>2 DEF Unfinished, Escaping
    <3>2. Len(b) = 1 /\ b[1] = "ESC"
      BY <3>1
    <3>3. Len(d) = 2 /\ d[1] = "ESC" /\ d[2] = c
      BY <1>2, <3>2
    <3> QED
      BY <3>1, <3>3 DEF Unfinished, Finished
  <2>3. CASE e = 2
    <3>1. /\ Len(b) >= 2 /\ b[1] = "ESC" /\ b[2] \in Intro
          /\ \A i \in 3 .. Len(b) : b[i] \notin Final
          /\ f = IF c \in Final THEN 0 ELSE 2
      BY <1>1, <2>3 DEF Unfinished, Escaping
    <3>2. Len(d) >= 3 /\ d[1] = "ESC" /\ d[2] \in Intro /\ d[Len(d)] = c
      BY <1>2, <3>1
    <3>3. \A i \in 3 .. Len(d) - 1 : d[i] \notin Final
      BY <1>2, <3>1
    <3>4. CASE c \in Final
      BY <3>1, <3>2, <3>3, <3>4 DEF Finished
    <3>5. CASE c \notin Final
      <4>1. \A i \in 3 .. Len(d) : d[i] \notin Final
        BY <1>2, <3>2, <3>3, <3>5
      <4> QED
        BY <1>2, <3>1, <3>2, <3>5, <4>1 DEF Unfinished
    <3> QED
      BY <3>4, <3>5
  <2> QED
    BY <2>1, <2>2, <2>3 DEF Escaping
<1> QED
  BY <1>5, <1>6, <1>7

-----------------------------------------------------------------------------
\* What is left of a text.  Bal is how many more characters than erasures there
\* are in p from i to j.
Chars(p, i, j) == {m \in i .. j : p[m] \in Visible}
Erasures(p, i, j) == {m \in i .. j : p[m] = "BS"}
Bal(p, i, j) == Cardinality(Chars(p, i, j)) - Cardinality(Erasures(p, i, j))

LEMMA BalTypes ==
  ASSUME NEW p, NEW i \in Int, NEW j \in Int
  PROVE  /\ IsFiniteSet(Chars(p, i, j)) /\ IsFiniteSet(Erasures(p, i, j))
         /\ Cardinality(Chars(p, i, j)) \in Nat /\ Cardinality(Erasures(p, i, j)) \in Nat
         /\ Bal(p, i, j) \in Int
<1>1. IsFiniteSet(i .. j)
  BY FS_Interval
<1>2. Chars(p, i, j) \in SUBSET (i .. j) /\ Erasures(p, i, j) \in SUBSET (i .. j)
  BY DEF Chars, Erasures
<1>3. /\ IsFiniteSet(Chars(p, i, j)) /\ IsFiniteSet(Erasures(p, i, j))
      /\ Cardinality(Chars(p, i, j)) \in Nat /\ Cardinality(Erasures(p, i, j)) \in Nat
  BY <1>1, <1>2, FS_Subset, FS_CardinalityType
<1> QED
  BY <1>3 DEF Bal

\* The place j + 1 counts by its key.
Worth(c) == IF c \in Visible THEN 1 ELSE IF c = "BS" THEN -1 ELSE 0

LEMMA NotVisible == "BS" \notin Visible /\ "BEL" \notin Visible /\ "ESC" \notin Visible
BY ReadlineAssumption DEF Control

LEMMA BalStep ==
  ASSUME NEW p, NEW i \in Int, NEW j \in Int, i <= j + 1
  PROVE  Bal(p, i, j + 1) = Bal(p, i, j) + Worth(p[j + 1])
<1>1. PICK k, C, E, x, y : /\ k = j + 1 /\ C = Chars(p, i, j) /\ E = Erasures(p, i, j)
                           /\ x = Cardinality(C) /\ y = Cardinality(E)
  OBVIOUS
<1>2. IsFiniteSet(C) /\ IsFiniteSet(E) /\ x \in Nat /\ y \in Nat
  BY <1>1, BalTypes
<1>3. k \notin C /\ k \notin E /\ i .. k = (i .. j) \cup {k}
  BY <1>1 DEF Chars, Erasures
<1>4. Cardinality(C \cup {k}) = x + 1 /\ Cardinality(E \cup {k}) = y + 1
  BY <1>1, <1>2, <1>3, FS_AddElement
<1>5. Bal(p, i, j) = x - y
  BY <1>1 DEF Bal
<1>6. Bal(p, i, k) = Cardinality(Chars(p, i, k)) - Cardinality(Erasures(p, i, k))
  BY DEF Bal
<1>7. CASE p[k] \in Visible
  <2>1. Chars(p, i, k) = C \cup {k} /\ Erasures(p, i, k) = E
    BY <1>1, <1>3, <1>7, NotVisible DEF Chars, Erasures
  <2>2. Worth(p[k]) = 1
    BY <1>7 DEF Worth
  <2>3. Bal(p, i, k) = (x + 1) - y
    BY <1>1, <1>4, <1>6, <2>1
  <2> QED
    BY <1>1, <1>2, <1>5, <2>2, <2>3
<1>8. CASE p[k] = "BS"
  <2>1. Chars(p, i, k) = C /\ Erasures(p, i, k) = E \cup {k}
    BY <1>1, <1>3, <1>8, NotVisible DEF Chars, Erasures
  <2>2. Worth(p[k]) = -1
    BY <1>8, NotVisible DEF Worth
  <2>3. Bal(p, i, k) = x - (y + 1)
    BY <1>1, <1>4, <1>6, <2>1
  <2> QED
    BY <1>1, <1>2, <1>5, <2>2, <2>3
<1>9. CASE p[k] \notin Visible /\ p[k] # "BS"
  <2>1. Chars(p, i, k) = C /\ Erasures(p, i, k) = E
    BY <1>1, <1>3, <1>9 DEF Chars, Erasures
  <2>2. Worth(p[k]) = 0
    BY <1>9 DEF Worth
  <2>3. Bal(p, i, k) = x - y
    BY <1>1, <1>6, <2>1
  <2> QED
    BY <1>1, <1>2, <1>5, <2>2, <2>3
<1> QED
  BY <1>7, <1>8, <1>9

LEMMA Apart ==
  ASSUME NEW A, NEW B, IsFiniteSet(A), IsFiniteSet(B), A \cap B = {}
  PROVE  Cardinality(A \cup B) = Cardinality(A) + Cardinality(B)
<1>1. PICK x, y : x = Cardinality(A) /\ y = Cardinality(B) /\ x \in Nat /\ y \in Nat
  BY FS_CardinalityType
<1>2. Cardinality(A \cup B) = x + y - Cardinality(A \cap B)
  BY <1>1, FS_Union
<1>3. Cardinality(A \cap B) = 0
  BY FS_EmptySet
<1> QED
  BY <1>1, <1>2, <1>3

LEMMA BalSplit ==
  ASSUME NEW p, NEW i \in Int, NEW m \in Int, NEW j \in Int, i <= m + 1, m <= j
  PROVE  Bal(p, i, j) = Bal(p, i, m) + Bal(p, m + 1, j)
<1>1. /\ Chars(p, i, j) = Chars(p, i, m) \cup Chars(p, m + 1, j)
      /\ Chars(p, i, m) \cap Chars(p, m + 1, j) = {}
      /\ Erasures(p, i, j) = Erasures(p, i, m) \cup Erasures(p, m + 1, j)
      /\ Erasures(p, i, m) \cap Erasures(p, m + 1, j) = {}
  BY DEF Chars, Erasures
<1>2. PICK A, B, C, D : /\ A = Chars(p, i, m) /\ B = Chars(p, m + 1, j)
                        /\ C = Erasures(p, i, m) /\ D = Erasures(p, m + 1, j)
  OBVIOUS
<1>3. /\ IsFiniteSet(A) /\ IsFiniteSet(B) /\ IsFiniteSet(C) /\ IsFiniteSet(D)
      /\ Cardinality(A) \in Nat /\ Cardinality(B) \in Nat
      /\ Cardinality(C) \in Nat /\ Cardinality(D) \in Nat
  BY <1>2, BalTypes
<1>4. Cardinality(A \cup B) = Cardinality(A) + Cardinality(B)
  BY <1>1, <1>2, <1>3, Apart
<1>5. Cardinality(C \cup D) = Cardinality(C) + Cardinality(D)
  BY <1>1, <1>2, <1>3, Apart
<1>6. Bal(p, i, j) = Cardinality(A \cup B) - Cardinality(C \cup D)
  BY <1>1, <1>2 DEF Bal
<1>7. Bal(p, i, m) = Cardinality(A) - Cardinality(C) /\ Bal(p, m + 1, j) = Cardinality(B) - Cardinality(D)
  BY <1>2 DEF Bal
<1> QED
  BY <1>3, <1>4, <1>5, <1>6, <1>7

LEMMA BalNone ==
  ASSUME NEW p, NEW i \in Int, NEW j \in Int, j < i
  PROVE  Bal(p, i, j) = 0
<1>1. Chars(p, i, j) = {} /\ Erasures(p, i, j) = {}
  BY DEF Chars, Erasures
<1> QED
  BY <1>1, FS_EmptySet DEF Bal

LEMMA BalSame ==
  ASSUME NEW p, NEW q, NEW i \in Int, NEW j \in Int, \A m \in i .. j : q[m] = p[m]
  PROVE  Bal(q, i, j) = Bal(p, i, j)
<1>1. Chars(q, i, j) = Chars(p, i, j) /\ Erasures(q, i, j) = Erasures(p, i, j)
  BY DEF Chars, Erasures
<1> QED
  BY <1>1 DEF Bal

LEMMA SameCardinality == \A H : Text!Cardinality(H) = Cardinality(H)
BY Zenon DEF Text!Cardinality, Cardinality

LEMMA LeftIs ==
  ASSUME NEW p \in Seq(Key)
  PROVE  /\ Text!LeftOf(p) = {i \in 1 .. Len(p) : /\ p[i] \in Visible
                                                 /\ \A j \in i + 1 .. Len(p) : Bal(p, i + 1, j) >= 0}
         /\ IsFiniteSet(Text!LeftOf(p)) /\ Cardinality(Text!LeftOf(p)) \in Nat
<1>1. Len(p) \in Nat /\ DOMAIN p = 1 .. Len(p)
  BY LenProperties
<1>2. ASSUME NEW i \in 1 .. Len(p), NEW j \in i + 1 .. Len(p)
      PROVE  (Cardinality({m \in i + 1 .. j : p[m] = "BS"})
                <= Cardinality({m \in i + 1 .. j : p[m] \in Visible})) <=> Bal(p, i + 1, j) >= 0
  <2>1. PICK x, y : /\ x = Cardinality({m \in i + 1 .. j : p[m] = "BS"})
                    /\ y = Cardinality({m \in i + 1 .. j : p[m] \in Visible})
    OBVIOUS
  <2>2. i + 1 \in Int /\ j \in Int
    BY <1>1
  <2>3. x \in Nat /\ y \in Nat /\ Bal(p, i + 1, j) = y - x
    BY <2>1, <2>2, BalTypes DEF Bal, Chars, Erasures
  <2>4. x <= y <=> y - x >= 0
    BY <2>3
  <2> QED
    BY <2>1, <2>3, <2>4
<1>3. Text!LeftOf(p) = {i \in 1 .. Len(p) : /\ p[i] \in Visible
                                           /\ \A j \in i + 1 .. Len(p) : Bal(p, i + 1, j) >= 0}
  <2>1. \A i \in 1 .. Len(p) :
          Text!Left(p, i) <=> p[i] \in Visible /\ \A j \in i + 1 .. Len(p) : Bal(p, i + 1, j) >= 0
    <3> TAKE i \in 1 .. Len(p)
    <3>1. \A j \in i + 1 .. Len(p) :
            (Cardinality({m \in i + 1 .. j : p[m] = "BS"})
               <= Cardinality({m \in i + 1 .. j : p[m] \in Visible})) <=> Bal(p, i + 1, j) >= 0
      BY <1>2
    <3> QED
      BY <3>1, SameCardinality DEF Text!Left
  <2>2. Text!LeftOf(p) = {i \in 1 .. Len(p) : Text!Left(p, i)}
    BY <1>1 DEF Text!LeftOf
  <2> QED
    BY <2>1, <2>2
<1>4. IsFiniteSet(1 .. Len(p))
  BY <1>1, FS_Interval
<1>5. Text!LeftOf(p) \in SUBSET (1 .. Len(p))
  BY <1>3
<1> QED
  BY <1>3, <1>4, <1>5, FS_Subset, FS_CardinalityType

\* A character is left; another key that does not erase leaves what there was.
LEMMA LeftAppend ==
  ASSUME NEW p \in Seq(Key), NEW c \in Key, c # "BS"
  PROVE  Text!LeftOf(Append(p, c))
           = Text!LeftOf(p) \cup (IF c \in Visible THEN {Len(p) + 1} ELSE {})
<1>1. PICK q \in Seq(Key) : /\ q = Append(p, c) /\ Len(q) = Len(p) + 1 /\ Len(p) \in Nat
                            /\ q[Len(p) + 1] = c /\ \A i \in 1 .. Len(p) : q[i] = p[i]
  BY Appended
<1>2. PICK n \in Nat : n = Len(p)
  BY <1>1
<1>3. /\ Text!LeftOf(p) = {i \in 1 .. n : p[i] \in Visible /\ \A j \in i + 1 .. n : Bal(p, i + 1, j) >= 0}
      /\ Text!LeftOf(q) = {i \in 1 .. n + 1 : /\ q[i] \in Visible
                                              /\ \A j \in i + 1 .. n + 1 : Bal(q, i + 1, j) >= 0}
  BY <1>1, <1>2, LeftIs
<1>4. ASSUME NEW i \in 1 .. n
      PROVE  /\ \A j \in i + 1 .. n : Bal(q, i + 1, j) = Bal(p, i + 1, j)
             /\ Bal(q, i + 1, n + 1) >= Bal(p, i + 1, n) /\ Bal(p, i + 1, n) \in Int
             /\ Bal(q, i + 1, n + 1) \in Int
  <2>1. \A j \in i .. n : Bal(q, i + 1, j) = Bal(p, i + 1, j)
    <3> TAKE j \in i .. n
    <3>1. i + 1 \in Int /\ j \in Int /\ \A m \in i + 1 .. j : q[m] = p[m]
      BY <1>1, <1>2
    <3> QED
      BY <3>1, BalSame
  <2>2. Bal(q, i + 1, n + 1) = Bal(q, i + 1, n) + Worth(c)
    <3>1. i + 1 \in Int /\ n \in Int /\ i + 1 <= n + 1 /\ q[n + 1] = c
      BY <1>1, <1>2
    <3> QED
      BY <3>1, BalStep
  <2>3. Bal(p, i + 1, n) \in Int /\ Worth(c) \in Nat
    BY BalTypes DEF Worth
  <2>4. Bal(q, i + 1, n) = Bal(p, i + 1, n)
    BY <2>1
  <2> QED
    BY <2>1, <2>2, <2>3, <2>4
<1>5. ASSUME NEW i \in 1 .. n
      PROVE  i \in Text!LeftOf(q) <=> i \in Text!LeftOf(p)
  <2>1. (\A j \in i + 1 .. n + 1 : Bal(q, i + 1, j) >= 0) <=> (\A j \in i + 1 .. n : Bal(p, i + 1, j) >= 0)
    <3>1. ASSUME \A j \in i + 1 .. n : Bal(p, i + 1, j) >= 0
          PROVE  Bal(q, i + 1, n + 1) >= 0
      <4>1. CASE i = n
        <5>1. Bal(p, i + 1, n) = 0
          BY <4>1, BalNone
        <5> QED
          BY <1>4, <5>1
      <4>2. CASE i # n
        <5>1. Bal(p, i + 1, n) >= 0
          BY <3>1, <4>2
        <5> QED
          BY <1>4, <5>1
      <4> QED
        BY <4>1, <4>2
    <3> QED
      BY <1>4, <3>1
  <2>2. q[i] = p[i]
    BY <1>1, <1>2
  <2> QED
    BY <1>3, <2>1, <2>2
<1>6. n + 1 \in Text!LeftOf(q) <=> c \in Visible
  BY <1>1, <1>2, <1>3
<1>7. Text!LeftOf(q) \subseteq 1 .. n + 1 /\ Text!LeftOf(p) \subseteq 1 .. n
  BY <1>3
<1> QED
  BY <1>1, <1>2, <1>5, <1>6, <1>7

\* An erasure takes the last one.
LEMMA LeftErase ==
  ASSUME NEW p \in Seq(Key)
  PROVE  Text!LeftOf(Append(p, "BS"))
           = {i \in Text!LeftOf(p) : \E j \in Text!LeftOf(p) : i < j}
<1>1. PICK q \in Seq(Key) : /\ q = Append(p, "BS") /\ Len(q) = Len(p) + 1 /\ Len(p) \in Nat
                            /\ q[Len(p) + 1] = "BS" /\ \A i \in 1 .. Len(p) : q[i] = p[i]
  <2>1. "BS" \in Key
    BY DEF Key, Control
  <2> QED
    BY <2>1, Appended
<1>2. PICK n \in Nat : n = Len(p)
  BY <1>1
<1> DEFINE L == Text!LeftOf(p)
<1>3. /\ L = {i \in 1 .. n : p[i] \in Visible /\ \A j \in i + 1 .. n : Bal(p, i + 1, j) >= 0}
      /\ Text!LeftOf(q) = {i \in 1 .. n + 1 : /\ q[i] \in Visible
                                              /\ \A j \in i + 1 .. n + 1 : Bal(q, i + 1, j) >= 0}
  BY <1>1, <1>2, LeftIs
<1>. HIDE DEF L
<1>4. ASSUME NEW i \in 1 .. n
      PROVE  /\ \A j \in i + 1 .. n : Bal(q, i + 1, j) = Bal(p, i + 1, j)
             /\ Bal(q, i + 1, n + 1) = Bal(p, i + 1, n) - 1 /\ Bal(p, i + 1, n) \in Int
  <2>1. \A j \in i .. n : Bal(q, i + 1, j) = Bal(p, i + 1, j)
    <3> TAKE j \in i .. n
    <3>1. i + 1 \in Int /\ j \in Int /\ \A m \in i + 1 .. j : q[m] = p[m]
      BY <1>1, <1>2
    <3> QED
      BY <3>1, BalSame
  <2>2. Bal(q, i + 1, n + 1) = Bal(q, i + 1, n) + Worth("BS")
    <3>1. i + 1 \in Int /\ n \in Int /\ i + 1 <= n + 1 /\ q[n + 1] = "BS"
      BY <1>1, <1>2
    <3> QED
      BY <3>1, BalStep
  <2>3. Bal(p, i + 1, n) \in Int /\ Worth("BS") = -1
    BY BalTypes, NotVisible DEF Worth
  <2>4. Bal(q, i + 1, n) = Bal(p, i + 1, n)
    BY <2>1
  <2> QED
    BY <2>1, <2>2, <2>3, <2>4
<1>5. ASSUME NEW i \in L
      PROVE  Bal(p, i + 1, n) >= 1 <=> \E j \in L : i < j
  <2>1. i \in 1 .. n /\ p[i] \in Visible /\ \A j \in i + 1 .. n : Bal(p, i + 1, j) >= 0
    BY <1>3
  <2>2. ASSUME NEW j \in L, i < j PROVE Bal(p, i + 1, n) >= 1
    <3>1. j \in 1 .. n /\ p[j] \in Visible /\ \A m \in j + 1 .. n : Bal(p, j + 1, m) >= 0
      BY <1>3
    <3>2. Bal(p, i + 1, j - 1) \in Int /\ Bal(p, i + 1, j - 1) >= 0
      <4>1. CASE i + 1 <= j - 1
        BY <2>1, <3>1, <4>1, BalTypes
      <4>2. CASE i + 1 > j - 1
        BY <2>1, <3>1, <4>2, BalNone
      <4> QED
        BY <2>1, <3>1, <4>1, <4>2
    <3>3. Bal(p, j + 1, n) \in Int /\ Bal(p, j + 1, n) >= 0
      <4>1. CASE j + 1 <= n
        BY <3>1, <4>1, BalTypes
      <4>2. CASE j + 1 > n
        BY <3>1, <4>2, BalNone
      <4> QED
        BY <3>1, <4>1, <4>2
    <3>4. Bal(p, i + 1, j) = Bal(p, i + 1, j - 1) + 1
      <4>1. PICK k \in Int : k = j - 1 /\ i + 1 <= k + 1 /\ k + 1 = j /\ i + 1 \in Int
        BY <2>1, <2>2, <3>1
      <4>2. Bal(p, i + 1, k + 1) = Bal(p, i + 1, k) + Worth(p[k + 1])
        BY <4>1, BalStep
      <4> QED
        BY <3>1, <4>1, <4>2 DEF Worth
    <3>5. Bal(p, i + 1, n) = Bal(p, i + 1, j) + Bal(p, j + 1, n)
      <4>1. i + 1 \in Int /\ j \in Int /\ n \in Int /\ i + 1 <= j + 1 /\ j <= n
        BY <2>1, <2>2, <3>1
      <4> QED
        BY <4>1, BalSplit
    <3> QED
      BY <3>2, <3>3, <3>4, <3>5
  <2>3. ASSUME Bal(p, i + 1, n) >= 1 PROVE \E j \in L : i < j
    <3> DEFINE Level == {m \in Nat : m <= n /\ n - m >= i /\ Bal(p, i + 1, n - m) = 0}
    <3>1. n - i \in Level /\ Level \in SUBSET Nat
      <4>1. n - i \in Nat /\ n - (n - i) = i /\ n - i <= n /\ i \in Int /\ i < i + 1
        BY <2>1
      <4>2. Bal(p, i + 1, i) = 0
        BY <2>1, <4>1, BalNone
      <4> QED
        BY <4>1, <4>2
    <3>2. PICK r \in Level : \A c \in Level : r <= c
      <4>1. Level # {}
        BY <3>1
      <4> QED
        BY ONLY <3>1, <4>1, LeastNatural
    <3>3. PICK m \in Nat : /\ m = n - r /\ i <= m /\ m <= n /\ Bal(p, i + 1, m) = 0
                           /\ \A k \in m + 1 .. n : Bal(p, i + 1, k) # 0
      <4>1. r \in Nat /\ r <= n /\ n - r >= i /\ Bal(p, i + 1, n - r) = 0 /\ i \in Nat
        BY <2>1, <3>2
      <4>2. ASSUME NEW k \in (n - r) + 1 .. n PROVE Bal(p, i + 1, k) # 0
        <5>1. n - k \in Nat /\ n - k < r /\ n - (n - k) = k /\ n - k <= n /\ k >= i
          BY <4>1
        <5>2. n - k \in Level => r <= n - k
          BY <3>2, Zenon
        <5>3. ~ (r <= n - k)
          BY <4>1, <5>1
        <5> QED
          BY <5>1, <5>2, <5>3
      <4> QED
        BY <4>1, <4>2
    <3>. HIDE DEF Level
    <3>4. m < n
      BY <2>3, <3>3
    <3>5. \A k \in m + 1 .. n : Bal(p, i + 1, k) \in Int /\ Bal(p, i + 1, k) >= 1
      <4> TAKE k \in m + 1 .. n
      <4>1. k \in i + 1 .. n /\ k \in Int /\ i + 1 \in Int
        BY <2>1, <3>3
      <4>2. Bal(p, i + 1, k) >= 0 /\ Bal(p, i + 1, k) \in Int /\ Bal(p, i + 1, k) # 0
        BY <2>1, <3>3, <4>1, BalTypes
      <4> QED
        BY <4>2
    <3>6. Bal(p, i + 1, m + 1) = 1 /\ p[m + 1] \in Visible
      <4>1. i + 1 \in Int /\ m \in Int /\ i + 1 <= m + 1 /\ m + 1 \in m + 1 .. n
        BY <2>1, <3>3, <3>4
      <4>2. Bal(p, i + 1, m + 1) = Bal(p, i + 1, m) + Worth(p[m + 1])
        BY <4>1, BalStep
      <4>3. Bal(p, i + 1, m + 1) = Worth(p[m + 1])
        BY <3>3, <4>2 DEF Worth
      <4>4. Worth(p[m + 1]) >= 1
        BY <3>5, <4>1, <4>3
      <4> QED
        BY <4>3, <4>4 DEF Worth
    <3>7. \A k \in m + 2 .. n : Bal(p, m + 2, k) >= 0
      <4> TAKE k \in m + 2 .. n
      <4>1. PICK h \in Int : h = m + 1 /\ i + 1 <= h + 1 /\ h <= k /\ k \in Int /\ i + 1 \in Int
                             /\ h + 1 = m + 2 /\ k \in m + 1 .. n
        BY <2>1, <3>3
      <4>2. Bal(p, i + 1, k) = Bal(p, i + 1, h) + Bal(p, h + 1, k)
        BY <4>1, BalSplit
      <4>3. Bal(p, h + 1, k) \in Int
        BY <4>1, BalTypes
      <4>4. Bal(p, i + 1, k) \in Int /\ Bal(p, i + 1, k) >= 1
        BY <3>5, <4>1
      <4> QED
        BY <3>6, <4>1, <4>2, <4>3, <4>4
    <3>8. m + 1 \in 1 .. n /\ m + 1 + 1 = m + 2 /\ i < m + 1
      BY <2>1, <3>3, <3>4
    <3>9. m + 1 \in L
      BY <1>3, <3>6, <3>7, <3>8
    <3> QED
      BY <3>8, <3>9
  <2> QED
    BY <2>2, <2>3
<1>6. ASSUME NEW i \in 1 .. n
      PROVE  i \in Text!LeftOf(q) <=> i \in L /\ \E j \in L : i < j
  <2>1. q[i] = p[i] /\ i \in Int /\ n + 1 \in i + 1 .. n + 1
    BY <1>1, <1>2
  <2>2. i \in Text!LeftOf(q) <=> i \in L /\ Bal(q, i + 1, n + 1) >= 0
    <3>1. (\A j \in i + 1 .. n + 1 : Bal(q, i + 1, j) >= 0)
            <=> (\A j \in i + 1 .. n : Bal(p, i + 1, j) >= 0) /\ Bal(q, i + 1, n + 1) >= 0
      BY <1>4, <2>1
    <3> QED
      BY <1>3, <2>1, <3>1
  <2>3. Bal(q, i + 1, n + 1) >= 0 <=> Bal(p, i + 1, n) >= 1
    BY <1>4
  <2> QED
    BY <1>5, <2>2, <2>3
<1>7. n + 1 \notin Text!LeftOf(q)
  BY <1>1, <1>2, <1>3, NotVisible
<1>8. Text!LeftOf(q) \subseteq 1 .. n + 1 /\ L \subseteq 1 .. n
  BY <1>3
<1>9. Text!LeftOf(q) = {i \in L : \E j \in L : i < j}
  <2>1. \A i \in 1 .. n + 1 : i \in 1 .. n \/ i = n + 1
    OBVIOUS
  <2>2. \A i \in Text!LeftOf(q) : i \in 1 .. n
    BY <1>7, <1>8, <2>1
  <2>3. PICK M : M = Text!LeftOf(q)
    OBVIOUS
  <2>4. \A i : i \in M <=> i \in L /\ \E j \in L : i < j
    BY <1>6, <1>8, <2>2, <2>3, Zenon
  <2> QED
    BY <2>3, <2>4
<1> QED
  BY <1>1, <1>9 DEF L

LEMMA LeftNone == Text!LeftOf(<<>>) = {}
<1>1. PICK e \in Seq(Key) : e = <<>> /\ Len(e) = 0
  BY EmptySeq
<1>2. PICK n : n = Len(e)
  OBVIOUS
<1>3. Text!LeftOf(e) \subseteq 1 .. n
  BY <1>2, LeftIs
<1>4. 1 .. n = {}
  BY <1>1, <1>2
<1> QED
  BY <1>1, <1>3, <1>4

\* The place of i in the text.
Rank(L, i) == Cardinality({j \in L : j <= i})

LEMMA RankIn ==
  ASSUME NEW L \in SUBSET Nat, IsFiniteSet(L), NEW i \in L
  PROVE  Rank(L, i) \in 1 .. Cardinality(L)
<1>1. PICK B : B = {j \in L : j <= i}
  OBVIOUS
<1>2. B \in SUBSET L /\ i \in B
  BY <1>1
<1>3. IsFiniteSet(B) /\ Cardinality(B) <= Cardinality(L)
  BY <1>2, FS_Subset
<1>4. Cardinality(B) \in Nat /\ Cardinality(L) \in Nat
  BY <1>3, FS_CardinalityType
<1>5. Cardinality(B) # 0
  BY <1>2, <1>3, FS_EmptySet
<1> QED
  BY <1>1, <1>3, <1>4, <1>5 DEF Rank

LEMMA TextIs ==
  ASSUME NEW t, NEW p
  PROVE  Text!IsText(t, p) <=> LET L == Text!LeftOf(p)
                               IN  Len(t) = Cardinality(L) /\ \A i \in L : t[Rank(L, i)] = p[i]
BY SameCardinality DEF Text!IsText, Rank

LEMMA TextAppend ==
  ASSUME NEW p \in Seq(Key), NEW t \in Seq(Visible), Text!IsText(t, p), NEW c \in Visible
  PROVE  /\ Text!IsText(Append(t, c), Append(p, c))
         /\ Cardinality(Text!LeftOf(Append(p, c))) = Len(t) + 1
<1>1. c \in Key /\ c # "BS"
  BY NotVisible DEF Key
<1>2. PICK q \in Seq(Key) : /\ q = Append(p, c) /\ Len(q) = Len(p) + 1 /\ Len(p) \in Nat
                            /\ q[Len(p) + 1] = c /\ \A i \in 1 .. Len(p) : q[i] = p[i]
  BY <1>1, Appended
<1>3. PICK n, L, K, u, m : /\ n = Len(p) /\ L = Text!LeftOf(p) /\ K = Text!LeftOf(q)
                           /\ u = Append(t, c) /\ m = Len(t)
  OBVIOUS
<1>4. K = L \cup {n + 1}
  BY <1>1, <1>2, <1>3, LeftAppend
<1>5. n \in Nat /\ L \in SUBSET (1 .. n) /\ IsFiniteSet(L) /\ n + 1 \notin L
  BY <1>2, <1>3, LeftIs
<1>6. m \in Nat /\ Len(u) = m + 1 /\ u[m + 1] = c /\ \A k \in 1 .. m : u[k] = t[k]
  BY <1>3, LenProperties, AppendProperties
<1>7. m = Cardinality(L) /\ \A i \in L : t[Rank(L, i)] = p[i]
  BY <1>3, TextIs
<1>8. Cardinality(K) = m + 1
  BY <1>4, <1>5, <1>7, FS_AddElement
<1>9. ASSUME NEW i \in L PROVE u[Rank(K, i)] = q[i]
  <2>1. i \in 1 .. n /\ q[i] = p[i]
    BY <1>2, <1>3, <1>5
  <2>2. {j \in K : j <= i} = {j \in L : j <= i}
    BY <1>4, <1>5, <2>1
  <2>3. Rank(K, i) = Rank(L, i)
    BY <2>2 DEF Rank
  <2>4. Rank(L, i) \in 1 .. m
    <3>1. L \in SUBSET Nat
      BY <1>5
    <3> QED
      BY <1>5, <1>7, <3>1, RankIn
  <2> QED
    BY <1>6, <1>7, <2>1, <2>3, <2>4
<1>10. u[Rank(K, n + 1)] = q[n + 1]
  <2>1. {j \in K : j <= n + 1} = K
    <3>1. \A j \in K : j <= n + 1
      BY <1>4, <1>5
    <3> QED
      BY <3>1, Zenon
  <2> QED
    BY <1>2, <1>3, <1>6, <1>8, <2>1 DEF Rank
<1>11. \A i \in K : u[Rank(K, i)] = q[i]
  BY <1>4, <1>9, <1>10
<1>12. Text!IsText(u, q)
  BY <1>3, <1>6, <1>8, <1>11, TextIs
<1> QED
  BY <1>2, <1>3, <1>8, <1>12

\* A key that neither is seen nor erases.
LEMMA TextSame ==
  ASSUME NEW p \in Seq(Key), NEW t, Text!IsText(t, p), NEW c \in Key, c # "BS", c \notin Visible
  PROVE  /\ Text!IsText(t, Append(p, c))
         /\ Cardinality(Text!LeftOf(Append(p, c))) = Len(t)
<1>1. PICK q \in Seq(Key) : /\ q = Append(p, c) /\ Len(p) \in Nat
                            /\ \A i \in 1 .. Len(p) : q[i] = p[i]
  BY Appended
<1>2. PICK L : L = Text!LeftOf(p) /\ Text!LeftOf(q) = L
  BY <1>1, LeftAppend
<1>3. L \in SUBSET (1 .. Len(p))
  BY <1>2, LeftIs
<1>4. Len(t) = Cardinality(L) /\ \A i \in L : t[Rank(L, i)] = p[i]
  BY <1>2, TextIs
<1>5. \A i \in L : t[Rank(L, i)] = q[i]
  BY <1>1, <1>3, <1>4
<1>6. Text!IsText(t, q)
  BY <1>2, <1>4, <1>5, TextIs
<1> QED
  BY <1>1, <1>2, <1>4, <1>6

LEMMA Greatest ==
  ASSUME NEW n \in Nat, NEW L \in SUBSET (1 .. n), L # {}
  PROVE  \E m \in L : \A i \in L : i <= m
<1> DEFINE D == {d \in Nat : n - d \in L}
<1>1. D \in SUBSET Nat /\ D # {}
  <2>1. PICK i \in L : TRUE
    OBVIOUS
  <2>2. n - i \in Nat /\ n - (n - i) = i
    OBVIOUS
  <2> QED
    BY <2>2
<1>2. PICK d \in D : \A c \in D : d <= c
  BY ONLY <1>1, LeastNatural
<1>3. d \in Nat /\ n - d \in L
  BY <1>2
<1>4. ASSUME NEW i \in L PROVE i <= n - d
  <2>1. i \in 1 .. n /\ n - i \in Nat /\ n - (n - i) = i
    OBVIOUS
  <2>2. n - i \in D
    BY <2>1
  <2>3. d <= n - i
    BY <1>2, <2>2
  <2> QED
    BY <1>3, <2>1, <2>3
<1> QED
  BY <1>3, <1>4

LEMMA FrontIs ==
  ASSUME NEW t \in Seq(Visible), t # <<>>
  PROVE  /\ Len(t) \in Nat \ {0} /\ Len(Front(t)) = Len(t) - 1
         /\ \A k \in 1 .. Len(t) - 1 : Front(t)[k] = t[k]
<1>1. Len(t) \in Nat \ {0} /\ \A i \in 1 .. Len(t) : t[i] \in Visible
  BY EmptySeq, ElementOfSeq
<1>2. PICK a, b, u : a = 1 /\ b = Len(t) - 1 /\ u = SubSeq(t, a, b)
  OBVIOUS
<1>3. b \in Nat /\ a \in Int /\ \A i \in a .. b : t[i] \in Visible
  BY <1>1, <1>2
<1>4. \A k \in 1 .. b - a + 1 : u[k] = t[a + k - 1]
  BY <1>2, <1>3, SubSeqProperties
<1>5. \A k \in 1 .. b : u[k] = t[k]
  <2> TAKE k \in 1 .. b
  <2>1. k \in 1 .. b - a + 1 /\ a + k - 1 = k
    BY <1>2, <1>3
  <2> QED
    BY <1>4, <2>1
<1>6. Front(t) = u
  BY <1>2 DEF Front
<1> QED
  BY <1>1, <1>2, <1>5, <1>6, FrontTyped

LEMMA TextErase ==
  ASSUME NEW p \in Seq(Key), NEW t \in Seq(Visible), Text!IsText(t, p)
  PROVE  LET u == IF t = <<>> THEN t ELSE Front(t)
         IN  /\ Text!IsText(u, Append(p, "BS"))
             /\ Cardinality(Text!LeftOf(Append(p, "BS"))) = Len(u)
<1>1. PICK q \in Seq(Key) : /\ q = Append(p, "BS") /\ Len(p) \in Nat
                            /\ \A i \in 1 .. Len(p) : q[i] = p[i]
  <2>1. "BS" \in Key
    BY DEF Key, Control
  <2> QED
    BY <2>1, Appended
<1>2. PICK n, L, K : n = Len(p) /\ L = Text!LeftOf(p) /\ K = Text!LeftOf(q)
  OBVIOUS
<1>3. K = {i \in L : \E j \in L : i < j}
  BY <1>1, <1>2, LeftErase
<1>4. n \in Nat /\ L \in SUBSET (1 .. n) /\ L \in SUBSET Nat /\ IsFiniteSet(L)
  BY <1>1, <1>2, LeftIs
<1>5. Len(t) = Cardinality(L) /\ \A i \in L : t[Rank(L, i)] = p[i]
  BY <1>2, TextIs
<1>6. CASE t = <<>>
  <2>1. L = {}
    <3>1. Cardinality(L) = 0
      BY <1>5, <1>6, EmptySeq
    <3> QED
      BY <1>4, <3>1, FS_EmptySet
  <2>2. K = L
    BY <1>3, <2>1
  <2>3. Text!IsText(t, q)
    BY <1>2, <1>5, <2>1, <2>2, TextIs
  <2> QED
    BY <1>1, <1>2, <1>5, <1>6, <2>2, <2>3
<1>7. CASE t # <<>>
  <2>1. PICK u, k : u = Front(t) /\ k = Len(t) - 1
    OBVIOUS
  <2>2. k \in Nat /\ Len(t) = k + 1 /\ Len(u) = k /\ \A h \in 1 .. k : u[h] = t[h]
    BY <1>7, <2>1, FrontIs
  <2>3. L # {}
    <3>1. Cardinality(L) # 0
      BY <1>5, <2>2
    <3> QED
      BY <3>1, FS_EmptySet, Zenon
  <2>4. PICK m \in L : \A i \in L : i <= m
    BY <1>4, <2>3, Greatest
  <2>5. K = L \ {m}
    <3>1. \A i, j \in L : i \in Nat /\ j \in Nat
      BY <1>4
    <3> QED
      BY <1>3, <2>4, <3>1
  <2>6. IsFiniteSet(K) /\ Cardinality(K) = k
    <3>1. Cardinality(K) = Cardinality(L) - 1 /\ IsFiniteSet(K)
      BY <1>4, <2>4, <2>5, FS_RemoveElement
    <3>2. PICK a, b : a = Cardinality(L) /\ b = Cardinality(K)
      OBVIOUS
    <3>3. a = k + 1 /\ b = a - 1
      BY <1>5, <2>2, <3>1, <3>2
    <3>4. b = k
      BY <2>2, <3>3
    <3> QED
      BY <3>1, <3>2, <3>4
  <2>7. ASSUME NEW i \in K PROVE u[Rank(K, i)] = q[i]
    <3>1. i \in L /\ i \in 1 .. n /\ q[i] = p[i] /\ i < m /\ m \in Nat
      <4>1. i \in L /\ i # m /\ i <= m
        BY <2>4, <2>5
      <4> QED
        BY <1>1, <1>2, <1>4, <4>1
    <3>2. {j \in K : j <= i} = {j \in L : j <= i}
      BY <2>5, <3>1
    <3>3. Rank(K, i) = Rank(L, i)
      BY <3>2 DEF Rank
    <3>4. Rank(K, i) \in 1 .. k
      <4>1. K \in SUBSET Nat
        BY <1>4, <2>5
      <4> QED
        BY <2>6, <4>1, RankIn
    <3> QED
      BY <1>5, <2>2, <3>1, <3>3, <3>4
  <2>8. Text!IsText(u, q)
    BY <1>2, <2>2, <2>6, <2>7, TextIs
  <2> QED
    BY <1>1, <1>2, <1>7, <2>1, <2>2, <2>6, <2>8
<1> QED
  BY <1>6, <1>7

LEMMA ExceedsAppend ==
  ASSUME NEW p \in Seq(Key), NEW c \in Key, NEW room
  PROVE  Text!Exceeds(Append(p, c), room)
           <=> Text!Exceeds(p, room) \/ Cardinality(Text!LeftOf(Append(p, c))) > room
<1>1. PICK q \in Seq(Key) : /\ q = Append(p, c) /\ Len(q) = Len(p) + 1 /\ Len(p) \in Nat
                            /\ \A i \in 1 .. Len(p) : q[i] = p[i]
  BY Appended
<1>2. PICK n \in Nat : n = Len(p)
  BY <1>1
<1>3. DOMAIN p = 1 .. n /\ DOMAIN q = 1 .. n + 1
  BY <1>1, <1>2, LenProperties
<1>4. SubSeq(q, 1, n + 1) = q
  BY <1>1, <1>2, SubSeqFull
<1>5. ASSUME NEW j \in 1 .. n PROVE SubSeq(q, 1, j) = SubSeq(p, 1, j)
  <2>1. \A i \in 1 .. j : p[i] \in Key /\ q[i] = p[i]
    BY <1>1, <1>2, ElementOfSeq
  <2>2. PICK x, y, a : x = SubSeq(p, a, j) /\ y = SubSeq(q, a, j) /\ a = 1
    OBVIOUS
  <2>3. a \in Int /\ j \in Int /\ \A i \in a .. j : p[i] \in Key /\ q[i] \in Key
    BY <2>1, <2>2
  <2>4. /\ x \in Seq(Key) /\ Len(x) = (IF a <= j THEN j - a + 1 ELSE 0)
        /\ \A i \in 1 .. j - a + 1 : x[i] = p[a + i - 1]
    BY <2>2, <2>3, SubSeqProperties
  <2>5. /\ y \in Seq(Key) /\ Len(y) = (IF a <= j THEN j - a + 1 ELSE 0)
        /\ \A i \in 1 .. j - a + 1 : y[i] = q[a + i - 1]
    BY <2>2, <2>3, SubSeqProperties
  <2>6. \A i \in 1 .. j - a + 1 : a + i - 1 \in 1 .. j
    BY <2>2
  <2>7. Len(x) = Len(y) /\ \A i \in 1 .. Len(x) : x[i] = y[i]
    BY <2>1, <2>2, <2>4, <2>5, <2>6
  <2>8. x = y
    BY <2>4, <2>5, <2>7, SeqEqual
  <2> QED
    BY <2>2, <2>8
<1>6. Text!Exceeds(p, room) <=> \E j \in 1 .. n : Cardinality(Text!LeftOf(SubSeq(p, 1, j))) > room
  BY <1>3, SameCardinality DEF Text!Exceeds
<1>7. Text!Exceeds(q, room) <=> \E j \in 1 .. n + 1 : Cardinality(Text!LeftOf(SubSeq(q, 1, j))) > room
  BY <1>3, SameCardinality DEF Text!Exceeds
<1>8. \A j \in 1 .. n + 1 : j \in 1 .. n \/ j = n + 1
  OBVIOUS
<1>9. 1 .. n \subseteq 1 .. n + 1 /\ n + 1 \in 1 .. n + 1
  OBVIOUS
<1> QED
  BY <1>1, <1>4, <1>5, <1>6, <1>7, <1>8, <1>9

LEMMA ExceedsNone == \A room : ~ Text!Exceeds(<<>>, room)
BY DEF Text!Exceeds
-----------------------------------------------------------------------------
\* The buffer holds what the keys p without escape sequences spell.
Spelt(p, t, long) ==
  /\ long <=> Text!Exceeds(p, Cap - 1)
  /\ ~ long => Text!IsText(t, p)

LEMMA SpeltNone == Spelt(<<>>, <<>>, FALSE)
<1>1. Text!LeftOf(<<>>) = {} /\ Cardinality({}) = 0
  BY LeftNone, FS_EmptySet
<1>2. PICK t, p : t = <<>> /\ p = <<>> /\ Len(t) = 0
  OBVIOUS
<1>3. Text!IsText(t, p)
  BY <1>1, <1>2, TextIs
<1> QED
  BY <1>2, <1>3, ExceedsNone DEF Spelt

LEMMA SpeltPut ==
  ASSUME NEW p \in Seq(Key), NEW t \in Seq(Visible), NEW long \in BOOLEAN, Spelt(p, t, long),
         NEW c \in Visible
  PROVE  /\ long => Spelt(Append(p, c), t, long)
         /\ ~ long /\ Len(t) + 1 >= Cap => Spelt(Append(p, c), t, TRUE)
         /\ ~ long /\ ~ (Len(t) + 1 >= Cap) => Spelt(Append(p, c), Append(t, c), long)
<1>1. c \in Key
  BY DEF Key
<1>2. PICK q, room : q = Append(p, c) /\ room = Cap - 1
  OBVIOUS
<1>3. Text!Exceeds(q, room) <=> Text!Exceeds(p, room) \/ Cardinality(Text!LeftOf(q)) > room
  BY <1>1, <1>2, ExceedsAppend
<1>4. CASE long
  BY <1>2, <1>3, <1>4 DEF Spelt
<1>5. CASE ~ long
  <2>1. Text!IsText(t, p) /\ ~ Text!Exceeds(p, room)
    BY <1>2, <1>5 DEF Spelt
  <2>2. Text!IsText(Append(t, c), q) /\ Cardinality(Text!LeftOf(q)) = Len(t) + 1
    BY <1>2, <2>1, TextAppend
  <2>3. Len(t) + 1 > room <=> Len(t) + 1 >= Cap
    BY <1>2, ReadlineAssumption
  <2>4. Text!Exceeds(q, room) <=> Len(t) + 1 >= Cap
    BY <1>3, <2>1, <2>2, <2>3
  <2> QED
    BY <1>2, <1>5, <2>2, <2>4 DEF Spelt
<1> QED
  BY <1>4, <1>5

LEMMA SpeltErase ==
  ASSUME NEW p \in Seq(Key), NEW t \in Seq(Visible), Len(t) < Cap, NEW long \in BOOLEAN,
         Spelt(p, t, long)
  PROVE  /\ t # <<>> /\ ~ long => Spelt(Append(p, "BS"), Front(t), long)
         /\ t = <<>> \/ long => Spelt(Append(p, "BS"), t, long)
<1>1. "BS" \in Key
  BY DEF Key, Control
<1>2. PICK q, room : q = Append(p, "BS") /\ room = Cap - 1
  OBVIOUS
<1>3. Text!Exceeds(q, room) <=> Text!Exceeds(p, room) \/ Cardinality(Text!LeftOf(q)) > room
  BY <1>1, <1>2, ExceedsAppend
<1>4. CASE long
  BY <1>2, <1>3, <1>4 DEF Spelt
<1>5. CASE ~ long
  <2>1. Text!IsText(t, p) /\ ~ Text!Exceeds(p, room)
    BY <1>2, <1>5 DEF Spelt
  <2>2. PICK u : u = IF t = <<>> THEN t ELSE Front(t)
    OBVIOUS
  <2>3. Text!IsText(u, q) /\ Cardinality(Text!LeftOf(q)) = Len(u)
    BY <1>2, <2>1, <2>2, TextErase
  <2>4. ~ (Len(u) > room)
    <3>1. CASE t = <<>>
      BY <1>2, <2>2, <3>1, ReadlineAssumption
    <3>2. CASE t # <<>>
      <4>1. Len(t) \in Nat /\ Len(u) = Len(t) - 1
        BY <2>2, <3>2, FrontIs
      <4> QED
        BY <1>2, <4>1, ReadlineAssumption
    <3> QED
      BY <3>1, <3>2
  <2>5. ~ Text!Exceeds(q, room)
    BY <1>3, <2>1, <2>3, <2>4
  <2> QED
    BY <1>2, <1>5, <2>2, <2>3, <2>5 DEF Spelt
<1> QED
  BY <1>4, <1>5

LEMMA SpeltSame ==
  ASSUME NEW p \in Seq(Key), NEW t \in Seq(Visible), Len(t) < Cap, NEW long \in BOOLEAN,
         Spelt(p, t, long), NEW c \in Key, c # "BS", c \notin Visible
  PROVE  Spelt(Append(p, c), t, long)
<1>1. PICK q, room : q = Append(p, c) /\ room = Cap - 1
  OBVIOUS
<1>2. Text!Exceeds(q, room) <=> Text!Exceeds(p, room) \/ Cardinality(Text!LeftOf(q)) > room
  BY <1>1, ExceedsAppend
<1>3. CASE long
  BY <1>1, <1>2, <1>3 DEF Spelt
<1>4. CASE ~ long
  <2>1. Text!IsText(t, p) /\ ~ Text!Exceeds(p, room)
    BY <1>1, <1>4 DEF Spelt
  <2>2. Text!IsText(t, q) /\ Cardinality(Text!LeftOf(q)) = Len(t)
    BY <1>1, <2>1, TextSame
  <2>3. ~ (Len(t) > room)
    BY <1>1, ReadlineAssumption
  <2> QED
    BY <1>1, <1>2, <1>4, <2>1, <2>2, <2>3 DEF Spelt
<1> QED
  BY <1>3, <1>4

-----------------------------------------------------------------------------
(***************************************************************************)
(* The inductive invariant: the parser is where escape says, the buffer     *)
(* holds what the keys so far spell, and skip_lf is about the key before.   *)
(***************************************************************************)
TypedInv ==
  /\ keys = <<>> => (skip_lf <=> afterCr)
  /\ keys # <<>> => (skip_lf <=> Last(keys) = "CR")
  /\ reading => /\ screen = s
                /\ \A i \in 1 .. Len(Counted) : Counted[i] \notin Ending
                /\ At(Counted, escape)
                /\ Spelt(P[Counted], s, too_long)
  /\ ~ reading => ReturnsWhatIsTyped

LEMMA AppendEnds ==
  ASSUME NEW k \in Seq(Key), NEW c \in Key
  PROVE  /\ Append(k, c) \in Seq(Key) /\ Append(k, c) # <<>> /\ Len(Append(k, c)) = Len(k) + 1
         /\ Last(Append(k, c)) = c /\ Front(Append(k, c)) = k
<1>1. PICK d \in Seq(Key) : /\ d = Append(k, c) /\ Len(d) = Len(k) + 1 /\ Len(k) \in Nat
                            /\ d[Len(k) + 1] = c /\ \A i \in 1 .. Len(k) : d[i] = k[i]
  BY Appended
<1>2. d # <<>> /\ Last(d) = c
  BY <1>1 DEF Last
<1>3. PICK n, a, u : n = Len(k) /\ a = 1 /\ u = SubSeq(d, a, n)
  OBVIOUS
<1>4. Front(d) = u
  <2>1. Len(d) - 1 = n
    BY <1>1, <1>3
  <2> QED
    BY <1>3, <2>1 DEF Front
<1>5. n \in Nat /\ a \in Int /\ \A i \in a .. n : d[i] \in Key
  BY <1>1, <1>3, ElementOfSeq
<1>6. /\ u \in Seq(Key) /\ Len(u) = (IF a <= n THEN n - a + 1 ELSE 0)
      /\ \A i \in 1 .. n - a + 1 : u[i] = d[a + i - 1]
  BY <1>3, <1>5, SubSeqProperties
<1>7. Len(u) = n /\ n - a + 1 = n
  BY <1>3, <1>5, <1>6
<1>8. \A i \in 1 .. n : u[i] = k[i]
  <2> TAKE i \in 1 .. n
  <2>1. a + i - 1 = i /\ u[i] = d[a + i - 1]
    BY <1>3, <1>6, <1>7
  <2> QED
    BY <1>1, <1>3, <2>1
<1>9. u = k
  BY <1>3, <1>6, <1>7, <1>8, SeqEqual
<1> QED
  BY <1>1, <1>2, <1>4, <1>9

LEMMA TailAppend ==
  ASSUME NEW k \in Seq(Key), k # <<>>, NEW c \in Key
  PROVE  /\ Tail(Append(k, c)) = Append(Tail(k), c) /\ Append(k, c)[1] = k[1]
         /\ Tail(k) \in Seq(Key)
<1>1. PICK d \in Seq(Key) : /\ d = Append(k, c) /\ Len(d) = Len(k) + 1 /\ Len(k) \in Nat
                            /\ d[Len(k) + 1] = c /\ \A i \in 1 .. Len(k) : d[i] = k[i]
  BY Appended
<1>2. Len(k) # 0 /\ d # <<>>
  BY <1>1, EmptySeq
<1>3. PICK t : t = Tail(k) /\ t \in Seq(Key) /\ Len(t) = Len(k) - 1 /\ \A i \in 1 .. Len(t) : t[i] = k[i + 1]
  BY HeadTailProperties
<1>4. PICK u : u = Tail(d) /\ u \in Seq(Key) /\ Len(u) = Len(d) - 1 /\ \A i \in 1 .. Len(u) : u[i] = d[i + 1]
  BY <1>2, HeadTailProperties
<1>5. PICK e \in Seq(Key) : /\ e = Append(t, c) /\ Len(e) = Len(t) + 1 /\ Len(t) \in Nat
                            /\ e[Len(t) + 1] = c /\ \A i \in 1 .. Len(t) : e[i] = t[i]
  BY <1>3, Appended
<1>6. PICK n : n = Len(t)
  OBVIOUS
<1>7. /\ n \in Nat /\ Len(k) = n + 1 /\ Len(u) = n + 1
     /\ Len(e) = n + 1 /\ Len(d) = n + 2
  BY <1>1, <1>3, <1>4, <1>5, <1>6
<1>8. ASSUME NEW i \in 1 .. n + 1 PROVE u[i] = e[i]
  <2>1. u[i] = d[i + 1]
    BY <1>4, <1>7
  <2>2. CASE i = n + 1
    BY <1>1, <1>5, <1>6, <1>7, <2>1, <2>2
  <2>3. CASE i # n + 1
    <3>1. i \in 1 .. n /\ i + 1 \in 1 .. n + 1
      BY <1>7, <2>3
    <3> QED
      BY <1>1, <1>3, <1>5, <1>6, <1>7, <2>1, <3>1
  <2> QED
    BY <2>2, <2>3
<1>9. u = e
  BY <1>4, <1>5, <1>8, <1>7, SeqEqual
<1>10. d[1] = k[1]
  BY <1>1, <1>2
<1> QED
  BY <1>1, <1>3, <1>4, <1>5, <1>9, <1>10

LEMMA CountedStep ==
  ASSUME ReadInv, TypedInv, NEW c \in Key, GetKey(c)
  PROVE  /\ Counted \in Seq(Key)
         /\ Counted' = IF Skipped(c) THEN Counted ELSE Append(Counted, c)
         /\ keys' # <<>> /\ Last(keys') = c
<1>1. keys \in Seq(Key) /\ reading /\ keys' = Append(keys, c) /\ afterCr' = afterCr
  BY DEF GetKey, ReadInv, TypeOK
<1>2. keys' \in Seq(Key) /\ keys' # <<>> /\ Last(keys') = c
  BY <1>1, AppendEnds
<1>3. CASE keys = <<>>
  <2>1. PICK d : d = keys'
    OBVIOUS
  <2>2. d = <<c>> /\ d[1] = c /\ Tail(d) = <<>> /\ d # <<>>
    BY <1>1, <1>3, <2>1
  <2>3. skip_lf <=> afterCr
    BY <1>3, Zenon DEF TypedInv
  <2>4. Counted = <<>>
    BY <1>3, Zenon DEF Counted
  <2>5. Append(Counted, c) = d
    BY <1>1, <1>3, <2>1, <2>4
  <2>6. Counted' = IF afterCr /\ c = "LF" THEN <<>> ELSE d
    BY <1>1, <2>1, <2>2, Zenon DEF Counted
  <2>7. Counted' = IF Skipped(c) THEN Counted ELSE Append(Counted, c)
    BY <2>3, <2>4, <2>5, <2>6, Zenon DEF Skipped
  <2> QED
    BY <1>1, <1>2, <1>3, <2>4, <2>7
<1>4. CASE keys # <<>>
  <2>1. ~ skip_lf
    <3>1. skip_lf = TRUE => keys = <<>>
      BY <1>1, Zenon DEF ReadInv
    <3>2. skip_lf \in BOOLEAN
      BY DEF ReadInv, TypeOK
    <3> QED
      BY <1>4, <3>1, <3>2
  <2>2. /\ Tail(keys') = Append(Tail(keys), c) /\ keys'[1] = keys[1] /\ Tail(keys) \in Seq(Key)
    BY <1>1, <1>4, TailAppend
  <2>3. Counted' = Append(Counted, c)
    BY <1>1, <1>2, <1>4, <2>2, Zenon DEF Counted
  <2>4. Counted \in Seq(Key)
    BY <1>1, <2>2, Zenon DEF Counted
  <2> QED
    BY <1>2, <2>1, <2>3, <2>4, Zenon DEF Skipped
<1> QED
  BY <1>3, <1>4

\* A key within the line.
LEMMA EditSpells ==
  ASSUME ReadInv, TypedInv, reading, NEW c \in Key, c \notin Ending,
         \/ escape # 0 /\ InEscape(c)
         \/ escape = 0 /\ (StartEscape(c) \/ Erase(c) \/ Ignored(c) \/ Put(c)),
         NEW k \in Seq(Key), k = Counted
  PROVE  /\ screen' = s'
         /\ At(Append(k, c), escape')
         /\ Spelt(P[Append(k, c)], s', too_long')
<1>1. screen = s /\ At(k, escape) /\ Spelt(P[k], s, too_long)
  BY DEF TypedInv
<1>2. s \in Seq(Visible) /\ Len(s) < Cap /\ too_long \in BOOLEAN /\ escape \in 0 .. 2
  BY DEF ReadInv, TypeOK
<1>3. PICK p \in Seq(Key) : p = P[k]
  BY PlainIs DEF P
<1>4. CASE (escape # 0 /\ InEscape(c)) \/ (escape = 0 /\ StartEscape(c))
  <2>1. UNCHANGED <<s, too_long, screen>>
    BY <1>4, Zenon DEF InEscape, StartEscape
  <2>2. Escaping(escape, c, escape')
    <3>1. CASE escape = 1
      BY <1>4, <3>1 DEF Escaping, InEscape
    <3>2. CASE escape = 2
      BY <1>4, <3>2 DEF Escaping, InEscape
    <3>3. CASE escape = 0
      BY <1>4, <3>3 DEF Escaping, StartEscape
    <3> QED
      BY <1>2, <3>1, <3>2, <3>3
  <2>3. At(Append(k, c), escape') /\ P[Append(k, c)] = P[k]
    <3>1. PICK e, f : e = escape /\ f = escape'
      OBVIOUS
    <3>2. At(Append(k, c), f) /\ P[Append(k, c)] = P[k]
      BY <1>1, <2>2, <3>1, AtEscape
    <3> QED
      BY <3>1, <3>2
  <2> QED
    BY <1>1, <2>1, <2>3
<1>5. CASE escape = 0 /\ (Erase(c) \/ Ignored(c) \/ Put(c))
  <2>1. c # "ESC" /\ UNCHANGED escape
    BY <1>5, NotVisible DEF Erase, Ignored, Put, Stays
  <2>2. At(k, 0)
    BY <1>1, <1>5
  <2>3. At(Append(k, c), escape') /\ P[Append(k, c)] = Append(p, c)
    BY <1>3, <1>5, <2>1, <2>2, AtKey
  <2>4. Spelt(p, s, too_long)
    BY <1>1, <1>3
  <2>5. CASE Erase(c)
    <3>1. c = "BS" /\ UNCHANGED too_long
      BY <2>5 DEF Erase
    <3>2. CASE s # <<>> /\ ~ too_long
      <4>1. s' = Front(s) /\ screen' = Front(s)
        BY <1>1, <2>5, <3>2 DEF Erase, ShowsErased
      <4>2. Spelt(Append(p, c), Front(s), too_long)
        BY <1>2, <2>4, <3>1, <3>2, SpeltErase
      <4> QED
        BY <2>3, <3>1, <4>1, <4>2
    <3>3. CASE ~ (s # <<>> /\ ~ too_long)
      <4>1. UNCHANGED <<s, screen>>
        BY <2>5, <3>3 DEF Erase
      <4>2. Spelt(Append(p, c), s, too_long)
        BY <1>2, <2>4, <3>1, <3>3, SpeltErase
      <4> QED
        BY <1>1, <2>3, <3>1, <4>1, <4>2
    <3> QED
      BY <3>2, <3>3
  <2>6. CASE Ignored(c)
    <3>1. c # "BS" /\ c \notin Visible /\ UNCHANGED <<s, too_long, screen>>
      BY <2>6, NotVisible DEF Ignored, Stays
    <3>2. Spelt(Append(p, c), s, too_long)
      BY <1>2, <2>4, <3>1, SpeltSame
    <3> QED
      BY <1>1, <2>3, <3>1, <3>2
  <2>7. CASE Put(c)
    <3>1. c \in Visible
      BY <2>7 DEF Put
    <3>2. /\ too_long => Spelt(Append(p, c), s, too_long)
          /\ ~ too_long /\ Len(s) + 1 >= Cap => Spelt(Append(p, c), s, TRUE)
          /\ ~ too_long /\ ~ (Len(s) + 1 >= Cap) => Spelt(Append(p, c), Append(s, c), too_long)
      BY <1>2, <2>4, <3>1, SpeltPut
    <3>3. CASE too_long
      <4>1. UNCHANGED <<s, too_long, screen>>
        BY <2>7, <3>3 DEF Put, Stays
      <4> QED
        BY <1>1, <2>3, <3>2, <3>3, <4>1
    <3>4. CASE ~ too_long /\ Len(s) + 1 >= Cap
      <4>1. too_long' = TRUE /\ UNCHANGED <<s, screen>>
        BY <2>7, <3>4, Zenon DEF Put
      <4> QED
        BY <1>1, <2>3, <3>2, <3>4, <4>1
    <3>5. CASE ~ too_long /\ ~ (Len(s) + 1 >= Cap)
      <4>1. s' = Append(s, c) /\ screen' = screen \o <<c>> /\ UNCHANGED too_long
        BY <2>7, <3>5, Zenon DEF Put, Shows
      <4>2. screen' = s'
        BY <1>1, <1>2, <3>1, <4>1, AppendIsConcat
      <4> QED
        BY <2>3, <3>2, <3>5, <4>1, <4>2
    <3> QED
      BY <3>3, <3>4, <3>5
  <2> QED
    BY <1>5, <2>5, <2>6, <2>7
<1> QED
  BY <1>4, <1>5

LEMMA MeansEndIs ==
  ASSUME NEW c, NEW p, NEW r
  PROVE  MeansEnd(c, p, r) <=>
           LET long == Text!Exceeds(p, Cap - 1)
           IN  \/ c = "ETX" /\ r.code = -2
               \/ c # "ETX" /\ long /\ r.code = -3
               \/ c = "EOT" /\ ~ long /\ Text!LeftOf(p) = {} /\ r.code = -1
               \/ /\ c # "ETX" /\ ~ long /\ ~ (c = "EOT" /\ Text!LeftOf(p) = {})
                  /\ r.code = Len(r.line) /\ Text!IsText(r.line, p)
BY DEF MeansEnd

\* The key that ends the line.
LEMMA EndReturns ==
  ASSUME ReadInv, reading, NEW c \in Key, NEW p \in Seq(Key), Spelt(p, s, too_long),
         Enter(c) \/ Interrupt(c) \/ EndOfText(c)
  PROVE  MeansEnd(c, p, ret') /\ c \in Ending
<1>1. too_long \in BOOLEAN /\ s \in Seq(Visible)
  BY DEF ReadInv, TypeOK
<1>2. PICK long : long = Text!Exceeds(p, Cap - 1)
  OBVIOUS
<1>3. (too_long <=> long) /\ (~ too_long => Text!IsText(s, p))
  BY <1>2 DEF Spelt
<1>4. ~ too_long => (s = <<>> <=> Text!LeftOf(p) = {})
  <2> SUFFICES ASSUME ~ too_long PROVE s = <<>> <=> Text!LeftOf(p) = {}
    OBVIOUS
  <2>1. PICK L : L = Text!LeftOf(p)
    OBVIOUS
  <2>2. Len(s) = Cardinality(L)
    BY <1>3, <2>1, TextIs
  <2>3. IsFiniteSet(L)
    BY <2>1, LeftIs
  <2>4. Cardinality(L) = 0 <=> L = {}
    BY <2>3, FS_EmptySet
  <2>5. Len(s) = 0 <=> s = <<>>
    BY <1>1, EmptySeq
  <2> QED
    BY <2>1, <2>2, <2>4, <2>5
<1>5. CASE Enter(c)
  <2>1. c # "ETX" /\ c # "EOT" /\ c \in Ending
    BY <1>5 DEF Enter, Ending
  <2>2. CASE too_long
    <3>1. ret'.code = -3
      BY <1>5, <2>2 DEF Enter, Returns
    <3> QED
      BY <1>2, <1>3, <2>1, <2>2, <3>1, MeansEndIs
  <2>3. CASE ~ too_long
    <3>1. ret'.code = Len(ret'.line) /\ ret'.line = s
      BY <1>5, <2>3 DEF Enter, Returns
    <3> QED
      BY <1>2, <1>3, <2>1, <2>3, <3>1, MeansEndIs
  <2> QED
    BY <2>2, <2>3
<1>6. CASE Interrupt(c)
  <2>1. c = "ETX" /\ ret'.code = -2 /\ c \in Ending
    BY <1>6 DEF Interrupt, Returns, Ending
  <2> QED
    BY <2>1, MeansEndIs
<1>7. CASE EndOfText(c)
  <2>1. c # "ETX" /\ c = "EOT" /\ c \in Ending
    BY <1>7 DEF EndOfText, Ending
  <2>2. CASE too_long
    <3>1. ret'.code = -3
      BY <1>7, <2>2 DEF EndOfText, Returns
    <3> QED
      BY <1>2, <1>3, <2>1, <2>2, <3>1, MeansEndIs
  <2>3. CASE ~ too_long /\ s = <<>>
    <3>1. ret'.code = -1
      BY <1>7, <2>3 DEF EndOfText, Returns
    <3> QED
      BY <1>2, <1>3, <1>4, <2>1, <2>3, <3>1, MeansEndIs
  <2>4. CASE ~ too_long /\ s # <<>>
    <3>1. ret'.code = Len(ret'.line) /\ ret'.line = s
      BY <1>7, <2>4 DEF EndOfText, Returns
    <3> QED
      BY <1>2, <1>3, <1>4, <2>1, <2>4, <3>1, MeansEndIs
  <2> QED
    BY <2>2, <2>3, <2>4
<1> QED
  BY <1>5, <1>6, <1>7

LEMMA KeyTyped ==
  ASSUME ReadInv, TypedInv, NEW c \in Key, GetKey(c)
  PROVE  TypedInv'
<1>1. /\ reading /\ skip_lf' = (c = "CR")
  BY DEF GetKey, NextSkip
<1>2. /\ Counted \in Seq(Key)
      /\ Counted' = IF Skipped(c) THEN Counted ELSE Append(Counted, c)
      /\ keys' # <<>> /\ Last(keys') = c
  BY CountedStep
<1>3. PICK k \in Seq(Key) : k = Counted
  BY <1>2
<1>4. /\ screen = s /\ At(k, escape) /\ Spelt(P[k], s, too_long)
      /\ \A i \in 1 .. Len(k) : k[i] \notin Ending
  BY <1>1, <1>3, Zenon DEF TypedInv
<1>5. /\ keys' = <<>> => (skip_lf' <=> afterCr')
      /\ keys' # <<>> => (skip_lf' <=> Last(keys') = "CR")
  BY <1>1, <1>2
<1>6. CASE Skipped(c) /\ Stays /\ UNCHANGED <<reading, ret>>
  <2>1. Counted' = k /\ reading' /\ UNCHANGED <<s, too_long, escape, screen>>
    BY <1>1, <1>2, <1>3, <1>6, Zenon DEF Stays
  <2> QED
    BY <1>4, <1>5, <2>1, Zenon DEF TypedInv
<1>7. CASE ~ (Skipped(c) /\ Stays /\ UNCHANGED <<reading, ret>>)
  <2>1. \/ ~ Skipped(c) /\ (Enter(c) \/ Interrupt(c) \/ EndOfText(c))
        \/ /\ c \notin Ending /\ UNCHANGED <<reading, ret>>
           /\ \/ escape # 0 /\ InEscape(c)
              \/ escape = 0 /\ (StartEscape(c) \/ Erase(c) \/ Ignored(c) \/ Put(c))
    BY <1>7, Zenon DEF GetKey
  <2>2. ~ Skipped(c)
    BY <2>1 DEF Skipped, Ending
  <2>3. PICK d : d = Append(k, c)
    OBVIOUS
  <2>4. Counted' = d
    BY <1>2, <1>3, <2>2, <2>3
  <2>5. d \in Seq(Key) /\ d # <<>> /\ Len(d) = Len(k) + 1 /\ Last(d) = c /\ Front(d) = k
    BY <1>3, <2>3, AppendEnds
  <2>6. \A i \in 1 .. Len(k) : d[i] = k[i]
    BY <2>3, AppendProperties
  <2>7. Len(k) \in Nat /\ d[Len(k) + 1] = c
    BY <2>3, AppendProperties, LenProperties
  <2>8. CASE Enter(c) \/ Interrupt(c) \/ EndOfText(c)
    <3>1. PICK p \in Seq(Key) : p = P[k]
      BY PlainIs DEF P
    <3>2. Spelt(p, s, too_long)
      BY <1>4, <3>1
    <3>3. MeansEnd(c, p, ret') /\ c \in Ending
      BY <1>1, <2>8, <3>2, EndReturns
    <3>4. reading' = FALSE
      BY <2>8, Zenon DEF Enter, Interrupt, EndOfText, Returns
    <3>5. \A i \in 1 .. Len(d) - 1 : d[i] \notin Ending
      BY <1>4, <2>5, <2>6, <2>7
    <3>6. MeansEnd(Last(d), Text!Plain[Front(d)], ret')
      BY <2>5, <3>1, <3>3 DEF P
    <3>7. ReturnsWhatIsTyped'
      BY <2>4, <2>5, <3>3, <3>4, <3>5, <3>6, Zenon DEF ReturnsWhatIsTyped
    <3> QED
      BY <1>5, <3>4, <3>7, Zenon DEF TypedInv
  <2>9. CASE ~ (Enter(c) \/ Interrupt(c) \/ EndOfText(c))
    <3>1. c \notin Ending /\ reading'
      BY <1>1, <2>1, <2>9, Zenon
    <3>2. screen' = s' /\ At(d, escape') /\ Spelt(P[d], s', too_long')
      BY <1>1, <1>3, <2>1, <2>3, <2>9, EditSpells
    <3>3. \A i \in 1 .. Len(d) : d[i] \notin Ending
      <4> TAKE i \in 1 .. Len(d)
      <4>1. i \in 1 .. Len(k) \/ i = Len(k) + 1
        BY <2>5, <2>7
      <4> QED
        BY <1>4, <2>6, <2>7, <3>1, <4>1
    <3> QED
      BY <1>5, <2>4, <3>1, <3>2, <3>3, Zenon DEF TypedInv
  <2> QED
    BY <2>8, <2>9
<1> QED
  BY <1>6, <1>7

\* Nothing is typed yet.
LEMMA StartTyped ==
  /\ At(<<>>, 0) /\ Spelt(P[<<>>], <<>>, FALSE)
  /\ \A i \in 1 .. Len(<<>>) : <<>>[i] \notin Ending
<1>1. P[<<>>] = <<>>
  BY PlainIs DEF P
<1>2. 1 .. Len(<<>>) = {}
  BY EmptySeq
<1> QED
  BY <1>1, <1>2, AtStart, SpeltNone

LEMMA CallTyped ==
  ASSUME ReadInv, TypedInv, Call
  PROVE  TypedInv'
<1>1. /\ s' = <<>> /\ too_long' = FALSE /\ escape' = 0 /\ screen' = <<>> /\ reading' = TRUE
      /\ keys' = <<>> /\ skip_lf' = skip_lf
      /\ afterCr' = IF keys = <<>> THEN afterCr ELSE Last(keys) = "CR"
  BY Zenon DEF Call
<1>2. skip_lf' <=> afterCr'
  <2>1. CASE keys = <<>>
    BY <1>1, <2>1, Zenon DEF TypedInv
  <2>2. CASE keys # <<>>
    BY <1>1, <2>2, Zenon DEF TypedInv
  <2> QED
    BY <2>1, <2>2
<1>3. Counted' = <<>>
  BY <1>1, Zenon DEF Counted
<1> QED
  BY <1>1, <1>2, <1>3, StartTyped, Zenon DEF TypedInv

LEMMA InitTyped == Init => TypedInv
<1> SUFFICES ASSUME Init PROVE TypedInv
  OBVIOUS
<1>1. keys = <<>> /\ skip_lf = FALSE /\ afterCr = FALSE /\ reading = FALSE
  BY DEF Init
<1>2. Counted = <<>>
  BY <1>1, Zenon DEF Counted
<1>3. ReturnsWhatIsTyped
  BY <1>1, <1>2 DEF ReturnsWhatIsTyped
<1> QED
  BY <1>1, <1>3 DEF TypedInv

LEMMA TypedMeans ==
  ASSUME ReadInv, TypedInv
  PROVE  ReturnsWhatIsTyped
<1>1. CASE ~ reading
  BY <1>1, Zenon DEF TypedInv
<1>2. CASE reading
  <2>1. screen = s /\ \A i \in 1 .. Len(Counted) : Counted[i] \notin Ending
    BY <1>2, Zenon DEF TypedInv
  <2>2. PICK k : k = Counted
    OBVIOUS
  <2>3. k \in Seq(Key)
    <3>1. keys \in Seq(Key)
      BY DEF ReadInv, TypeOK
    <3>2. keys # <<>> => Tail(keys) \in Seq(Key)
      BY <3>1, HeadTailProperties
    <3> QED
      BY <2>2, <3>1, <3>2, Zenon DEF Counted
  <2>4. Len(k) \in Nat /\ (k # <<>> => Len(k) # 0)
    BY <2>3, EmptySeq, LenProperties
  <2>5. \A i \in 1 .. Len(k) - 1 : k[i] \notin Ending
    BY <2>1, <2>2, <2>4
  <2>6. k # <<>> => Last(k) \notin Ending
    <3>1. k # <<>> => Len(k) \in 1 .. Len(k)
      BY <2>4
    <3> QED
      BY <2>1, <2>2, <3>1, Zenon DEF Last
  <2> QED
    BY <1>2, <2>1, <2>2, <2>5, <2>6, Zenon DEF ReturnsWhatIsTyped
<1> QED
  BY <1>1, <1>2

(***************************************************************************)
(* readline() returns what its keys spell by LineText, when the first key   *)
(* that ends the line has come, and shows it until then: for every size of   *)
(* the buffer, every sequence of keys, with erasures and escape sequences   *)
(* in any mixture, and every sequence of calls.                             *)
(***************************************************************************)
THEOREM ReadlineReturnsWhatIsTyped == Spec => []ReturnsWhatIsTyped
<1>1. Init => ReadInv /\ TypedInv
  BY InitInv, InitTyped
<1>2. ReadInv /\ TypedInv /\ [Next]_vars => (ReadInv /\ TypedInv)'
  <2>. SUFFICES ASSUME ReadInv, TypedInv, [Next]_vars PROVE (ReadInv /\ TypedInv)'
    OBVIOUS
  <2>1. CASE Call
    BY <2>1, CallInv, CallTyped
  <2>2. ASSUME NEW c \in Key, GetKey(c) PROVE (ReadInv /\ TypedInv)'
    BY <2>2, GetKeyInv, KeyTyped
  <2>3. CASE UNCHANGED vars
    <3>1. ReadInv'
      BY <2>3 DEF vars, ReadInv, TypeOK
    <3>2. /\ Counted' = Counted
          /\ UNCHANGED <<skip_lf, s, too_long, escape, reading, ret, screen, keys, afterCr>>
      BY <2>3 DEF vars, Counted
    <3>3. ReturnsWhatIsTyped' <=> ReturnsWhatIsTyped
      BY <3>2, Zenon DEF ReturnsWhatIsTyped
    <3>4. TypedInv'
      BY <3>2, <3>3, Zenon DEF TypedInv
    <3> QED
      BY <3>1, <3>4
  <2> QED
    BY <2>1, <2>2, <2>3 DEF Next
<1>3. ReadInv /\ TypedInv => ReturnsWhatIsTyped
  BY TypedMeans
<1> QED
  BY <1>1, <1>2, <1>3, PTL DEF Spec

-----------------------------------------------------------------------------
(***************************************************************************)
(* BlockOwned is inductive with the types of what it speaks of.             *)
(***************************************************************************)
ReplInv ==
  /\ used \in Nat
  /\ multiline \in BOOLEAN /\ running \in BOOLEAN
  /\ block \in Address \cup {Null}
  /\ \A a \in DOMAIN memory : memory[a] \in Seq(Byte)
  /\ BlockOwned

LEMMA ReplInitInv == ReplInit => ReplInv
<1>. SUFFICES ASSUME ReplInit PROVE ReplInv
  OBVIOUS
<1>1. DOMAIN memory = {} /\ block = Null /\ used = 0 /\ running = TRUE /\ multiline = FALSE
  BY DEF ReplInit
<1> QED
  BY <1>1 DEF ReplInv, BlockOwned

\* After free() of the block no memory is in use.
LEMMA WithoutBlock ==
  ASSUME ReplInv, running
  PROVE  DOMAIN Without(block) = {}
BY DEF ReplInv, BlockOwned, Without

LEMMA ForgetInv ==
  ASSUME ReplInv, running, Forget, UNCHANGED running
  PROVE  ReplInv'
<1>1. DOMAIN memory' = {}
  BY WithoutBlock DEF Forget
<1> QED
  BY <1>1 DEF ReplInv, BlockOwned, Forget

LEMMA LeaveInv ==
  ASSUME ReplInv, running, NEW why, Leave(why)
  PROVE  ReplInv'
<1>1. DOMAIN memory' = {}
  BY WithoutBlock DEF Leave
<1> QED
  BY <1>1 DEF ReplInv, BlockOwned, Leave

\* Steps that leave the block alone, and begin one at most.
LEMMA KeptInv ==
  ASSUME ReplInv, UNCHANGED <<block, used, memory, running>>, multiline' \in BOOLEAN,
         multiline => multiline'
  PROVE  ReplInv'
BY DEF ReplInv, BlockOwned

LEMMA FunctionIsSequence ==
  ASSUME NEW n \in Nat, NEW T, NEW f \in [1 .. n -> T]
  PROVE  f \in Seq(T) /\ Len(f) = n
OBVIOUS

\* The new block has room for all that is stored, and ends with the zero.
LEMMA CollectInv ==
  ASSUME ReplInv, running, NEW l \in Input, Collect(l)
  PROVE  ReplInv'
<1>. USE ReplAssumption
<1>1. l \in Seq(Byte) /\ Len(l) \in Nat /\ used \in Nat /\ multiline
  <2>1. l \in Seq(Char)
    OBVIOUS
  <2>2. l \in Seq(Byte)
    BY <2>1 DEF Byte
  <2>3. Len(l) \in Nat
    BY <2>2
  <2>4. used \in Nat
    BY DEF ReplInv
  <2>5. multiline
    BY Zenon DEF Collect, Collects
  <2> QED
    BY <2>2, <2>3, <2>4, <2>5
<1>2. PICK p \in Address :
        /\ block' = p
        /\ memory' = [Reallocated(p, Needs(l)) EXCEPT
                        ![p] = Stored(@, used, l \o <<"\n", Zero>>)]
  BY DEF Collect
<1>. DEFINE old == IF block = Null THEN <<>> ELSE memory[block]
            kept == [i \in 1 .. Needs(l) |-> IF i <= Len(old) THEN old[i] ELSE Junk]
            new == l \o <<"\n", Zero>>
<1>3. Needs(l) = used + Len(l) + 2 /\ Needs(l) <= Limit
  BY DEF Collect, Needs
<1>4. DOMAIN Reallocated(p, Needs(l)) = {p} /\ Reallocated(p, Needs(l))[p] = kept
  <2>1. DOMAIN memory \ {block} = {}
    BY DEF ReplInv, BlockOwned
  <2> QED
    BY <2>1 DEF Reallocated
<1>5. DOMAIN memory' = {p} /\ memory'[p] = Stored(kept, used, new)
  BY <1>2, <1>4
<1>6. old \in Seq(Byte)
  BY DEF ReplInv, BlockOwned
<1>7. kept \in [1 .. Needs(l) -> Byte]
  <2>1. Junk \in Byte
    BY DEF Byte
  <2>. HIDE DEF old
  <2>2. \A i \in 1 .. Needs(l) : i <= Len(old) => old[i] \in Byte
    BY <1>1, <1>3, <1>6
  <2> QED
    BY <2>1, <2>2
<1>8. new \in Seq(Byte) /\ Len(new) = Len(l) + 2 /\ new[Len(l) + 2] = Zero
  <2>1. "\n" \in Byte /\ Zero \in Byte
    BY DEF Byte
  <2> QED
    BY <1>1, <2>1
<1>9. /\ Stored(kept, used, new) \in [1 .. Needs(l) -> Byte]
      /\ Stored(kept, used, new)[Needs(l)] = Zero
  <2>. HIDE DEF kept, new
  <2>1. DOMAIN kept = 1 .. Needs(l) /\ DOMAIN new = 1 .. Len(l) + 2
    BY <1>7, <1>8
  <2>2. \A i \in 1 .. Needs(l) : i - used \in DOMAIN new => new[i - used] \in Byte
    BY <1>1, <1>3, <1>8
  <2>3. Needs(l) \in 1 .. Needs(l) /\ Needs(l) - used = Len(l) + 2
    BY <1>1, <1>3
  <2> QED
    BY <1>7, <1>8, <2>1, <2>2, <2>3 DEF Stored
<1>10. /\ memory'[p] \in Seq(Byte) /\ Len(memory'[p]) = Needs(l)
       /\ memory'[p][Needs(l)] = Zero
  <2>1. Needs(l) \in Nat
    BY <1>1, <1>3
  <2> QED
    BY <1>5, <1>9, <2>1, FunctionIsSequence, ZenonT(40)
<1>11. used' = used + Len(l) + 1 /\ multiline' = multiline /\ running' = running
  BY DEF Collect
<1>12. used' \in Nat /\ used' + 1 = Needs(l) /\ p # Null
  BY <1>1, <1>3, <1>11
<1>13. /\ multiline' /\ multiline' \in BOOLEAN /\ running' \in BOOLEAN /\ running'
  BY <1>1, <1>11 DEF ReplInv
<1>14. BlockOwned'
  BY <1>2, <1>3, <1>5, <1>10, <1>12, <1>13 DEF BlockOwned
<1> QED
  BY <1>2, <1>5, <1>10, <1>12, <1>13, <1>14 DEF ReplInv

LEMMA ReplNextInv == ReplInv /\ [ReplNext]_replVars => ReplInv'
<1>. SUFFICES ASSUME ReplInv, [ReplNext]_replVars PROVE ReplInv'
  OBVIOUS
<1>1. CASE running /\ EndOfInput
  BY <1>1, LeaveInv DEF EndOfInput
<1>2. CASE running /\ Broken
  BY <1>2, ForgetInv DEF Broken
<1>3. ASSUME running, NEW l \in Input, Line(l) PROVE ReplInv'
  <2>1. CASE Quit(l)
    BY <1>3, <2>1, LeaveInv DEF Quit
  <2>2. CASE Mem(l)
    BY <2>2, KeptInv DEF Mem, ReplInv
  <2>3. CASE OpenBlock(l)
    BY <2>3, KeptInv DEF OpenBlock
  <2>4. CASE CloseBlock(l)
    BY <1>3, <2>4, ForgetInv DEF CloseBlock
  <2>5. CASE TooLarge(l)
    BY <1>3, <2>5, ForgetInv DEF TooLarge
  <2>6. CASE NoMemory(l)
    BY <1>3, <2>6, ForgetInv DEF NoMemory
  <2>7. CASE Collect(l)
    BY <1>3, <2>7, CollectInv
  <2>8. CASE Evaluate(l)
    BY <2>8, KeptInv DEF Evaluate, Same, ReplInv
  <2> QED
    BY <1>3, <2>1, <2>2, <2>3, <2>4, <2>5, <2>6, <2>7, <2>8 DEF Line
<1>4. CASE UNCHANGED replVars
  BY <1>4, KeptInv DEF replVars, ReplInv
<1> QED
  BY <1>1, <1>2, <1>3, <1>4 DEF ReplNext

(***************************************************************************)
(* The block of a multiline input is never lost, freed twice or used after  *)
(* it was freed, its text and its zero are within it, and it stays within   *)
(* the limit; for every limit and whatever realloc() and the user do.       *)
(***************************************************************************)
THEOREM ReplBlockOwned == ReplSpec => []BlockOwned
<1>1. ReplInit => ReplInv
  BY ReplInitInv
<1>2. ReplInv /\ [ReplNext]_replVars => ReplInv'
  BY ReplNextInv
<1>3. ReplInv => BlockOwned
  BY DEF ReplInv
<1> QED
  BY <1>1, <1>2, <1>3, PTL DEF ReplSpec

-----------------------------------------------------------------------------
(***************************************************************************)
(* The refinement.                                                         *)
(***************************************************************************)

\* The text as the session sees it.
TextOf == IF multiline /\ running THEN Collected ELSE NoBlock

LEMMA CollectedType ==
  ASSUME ReplInv, running
  PROVE  /\ Collected \in Seq(Byte) /\ Len(Collected) = used
         /\ block # Null => Collected = SubSeq(memory[block], 1, used)
<1>1. CASE block = Null
  BY <1>1 DEF ReplInv, BlockOwned, Collected
<1>2. CASE block # Null
  <2>1. memory[block] \in Seq(Byte) /\ used \in Nat /\ used + 1 = Len(memory[block])
    BY <1>2 DEF ReplInv, BlockOwned
  <2> QED
    BY <1>2, <2>1 DEF Collected
<1> QED
  BY <1>1, <1>2

LEMMA FrontPart ==
  ASSUME NEW m \in Seq(Byte), NEW n \in Nat, n + 1 = Len(m)
  PROVE  SubSeq(m, 1, n) \in Seq(Byte) /\ Len(SubSeq(m, 1, n)) = n
OBVIOUS

LEMMA CollectedTypeNext ==
  ASSUME ReplInv', running'
  PROVE  /\ Collected' \in Seq(Byte) /\ Len(Collected') = used'
         /\ block' # Null => Collected' = SubSeq(memory'[block'], 1, used')
<1>1. CASE block' = Null
  BY <1>1 DEF ReplInv, BlockOwned, Collected
<1>2. CASE block' # Null
  <2>1. memory'[block'] \in Seq(Byte) /\ used' \in Nat /\ used' + 1 = Len(memory'[block'])
    BY <1>2 DEF ReplInv, BlockOwned
  <2>2. Collected' = SubSeq(memory'[block'], 1, used')
    BY <1>2, Zenon DEF Collected
  <2> QED
    BY <2>1, <2>2, FrontPart
<1> QED
  BY <1>1, <1>2

LEMMA SameElements ==
  ASSUME NEW T, NEW a \in Seq(T), NEW b \in Seq(T), Len(a) = Len(b),
         \A i \in 1 .. Len(a) : a[i] = b[i]
  PROVE  a = b
OBVIOUS

\* Outside a block, and after the end, the session has no text.
LEMMA NoText ==
  ASSUME ~ multiline \/ ~ running
  PROVE  TextOf = NoBlock
BY DEF TextOf

LEMMA SomeText ==
  ASSUME ReplInv, multiline, running
  PROVE  TextOf = Collected /\ TextOf # NoBlock
BY CollectedType, ReplAssumption DEF TextOf

LEMMA InitSession == ReplInit => S!Init
BY DEF ReplInit, S!Init, Collected

LEMMA LeaveEnds ==
  ASSUME running, NEW why \in {"eof", "quit"}, Leave(why)
  PROVE  S!Next
<1>1. TextOf' = NoBlock
  BY DEF Leave, TextOf
<1> QED
  BY <1>1 DEF Leave, TextOf, Did, S!Next, S!End, S!Did

LEMMA BrokenGivesUp == running /\ Broken => S!Next
<1>. SUFFICES ASSUME running, Broken PROVE S!Next
  OBVIOUS
<1>1. TextOf' = NoBlock
  BY DEF Broken, Forget, TextOf
<1> QED
  BY <1>1 DEF Broken, TextOf, Did, S!Next, S!GiveUp, S!Did

\* Commands and lines at the prompt.
LEMMA PromptSteps ==
  ASSUME ReplInv, running, NEW l \in Input, Mem(l) \/ OpenBlock(l) \/ Evaluate(l)
  PROVE  S!Next
<1>1. TextOf = NoBlock
  BY DEF TextOf, Mem, OpenBlock, Evaluate
<1>2. running' = running
  BY DEF Mem, OpenBlock, Evaluate, Same
<1>3. CASE Mem(l)
  <2>1. PICK c \in MemWords : l = <<":mem", c>>
    BY <1>3, MemAssumption DEF Mem
  <2>2. TextOf' = NoBlock
    BY <1>3 DEF Mem, TextOf
  <2>3. c \in DOMAIN S!Heap /\ Did(S!Heap[c], <<>>)
    BY <1>3, <2>1 DEF Mem, MemWords, S!Heap
  <2>4. S!AtPrompt(l)
    BY <1>1, <1>2, <2>1, <2>2, <2>3 DEF S!AtPrompt, S!Did, Did, TextOf
  <2> QED
    BY <2>4 DEF S!Next
<1>4. CASE OpenBlock(l)
  <2>1. TextOf' = <<>>
    BY <1>4 DEF OpenBlock, TextOf, Collected, ReplInv, BlockOwned
  <2> QED
    BY <1>1, <1>2, <1>4, <2>1 DEF S!Next, S!AtPrompt, S!Did, Did, TextOf, OpenBlock
<1>5. CASE Evaluate(l)
  <2>1. TextOf' = NoBlock
    BY <1>5 DEF Evaluate, Same, TextOf
  <2>2. l \notin {<<":{">>, <<":quit">>} \cup {<<":mem", c>> : c \in DOMAIN S!Heap}
    <3>1. ~ IsMem(l) /\ l \notin {<<":{">>, <<":quit">>}
      BY <1>5 DEF Evaluate
    <3>2. ASSUME NEW c, l = <<":mem", c>> PROVE FALSE
      BY <3>1, <3>2 DEF IsMem
    <3> QED
      BY <3>1, <3>2, Zenon
  <2>3. IF l = <<>> THEN S!Did("nothing", <<>>) ELSE S!Did("evaluated", l)
    BY <1>5 DEF Evaluate, Did, S!Did
  <2>4. S!AtPrompt(l)
    BY <1>1, <1>2, <2>1, <2>2, <2>3 DEF S!AtPrompt, TextOf
  <2> QED
    BY <2>4 DEF S!Next
<1> QED
  BY <1>3, <1>4, <1>5

LEMMA CloseEvaluates ==
  ASSUME ReplInv, running, NEW l \in Input, CloseBlock(l)
  PROVE  S!Next
<1>1. TextOf = Collected /\ TextOf # NoBlock
  BY SomeText DEF CloseBlock
<1>2. TextOf' = NoBlock /\ running' = running
  BY DEF CloseBlock, Forget, TextOf
<1>3. Collected = <<>> <=> used = 0
  BY CollectedType DEF ReplInv
<1>4. used > 0 => Collected = SubSeq(memory[block], 1, used)
  BY CollectedType DEF ReplInv, BlockOwned
<1>5. IF TextOf = <<>> THEN Did("nothing", <<>>) ELSE Did("evaluated", TextOf)
  <2>1. CASE used > 0
    <3>1. Did("evaluated", SubSeq(memory[block], 1, used))
      BY <2>1, Zenon DEF CloseBlock
    <3>2. TextOf # <<>> /\ TextOf = SubSeq(memory[block], 1, used)
      BY <1>1, <1>3, <1>4, <2>1
    <3> QED
      BY <3>1, <3>2, Zenon
  <2>2. CASE ~ (used > 0)
    <3>1. used = 0
      BY <2>2 DEF ReplInv
    <3>2. Did("nothing", <<>>)
      BY <2>2, Zenon DEF CloseBlock
    <3> QED
      BY <1>1, <1>3, <3>1, <3>2, Zenon
  <2> QED
    BY <2>1, <2>2
<1> QED
  BY <1>1, <1>2, <1>5 DEF S!Next, S!InBlock, S!Did, Did, TextOf, CloseBlock

-----------------------------------------------------------------------------
\* The longer text that a line makes.
More(l) == Collected \o l \o <<"\n">>

LEMMA MoreLength ==
  ASSUME ReplInv, running, NEW l \in Input
  PROVE  /\ More(l) \in Seq(Byte) /\ Len(More(l)) = used + Len(l) + 1
         /\ Len(l) \in Nat /\ Len(Collected) = used
         /\ Needs(l) > Limit <=> Len(More(l)) >= Limit
<1>1. l \in Seq(Byte) /\ <<"\n">> \in Seq(Byte)
  BY ReplAssumption DEF Byte
<1>2. Collected \in Seq(Byte) /\ Len(Collected) = used
  BY CollectedType
<1> QED
  BY <1>1, <1>2, ReplAssumption DEF More, Needs, ReplInv

LEMMA RefusedGivesUp ==
  ASSUME ReplInv, running, NEW l \in Input, TooLarge(l) \/ NoMemory(l)
  PROVE  S!Next
<1>1. TextOf = Collected /\ TextOf # NoBlock
  BY SomeText DEF TooLarge, NoMemory, Collects
<1>2. TextOf' = NoBlock /\ running' = running
  BY DEF TooLarge, NoMemory, Forget, TextOf
<1>3. l \notin {<<":}">>, <<":quit">>}
  BY DEF TooLarge, NoMemory, Collects
<1>4. \/ Len(More(l)) < Limit /\ Did("memory", <<>>)
      \/ Len(More(l)) >= Limit /\ Did("limit", <<>>)
  <2>1. CASE TooLarge(l)
    BY <2>1, MoreLength, Zenon DEF TooLarge
  <2>2. CASE NoMemory(l)
    <3>1. Needs(l) <= Limit /\ Did("memory", <<>>)
      BY <2>2, Zenon DEF NoMemory
    <3>2. Len(More(l)) < Limit
      BY <3>1, MoreLength, ReplAssumption DEF Needs, ReplInv
    <3> QED
      BY <3>1, <3>2
  <2> QED
    BY <2>1, <2>2
<1>5. S!InBlock(l)
  BY <1>1, <1>2, <1>3, <1>4 DEF S!InBlock, S!Did, Did, TextOf, More
<1> QED
  BY <1>5 DEF S!Next

\* What is stored behind the old text is the line and its newline.
LEMMA CollectGoesOn ==
  ASSUME ReplInv, running, NEW l \in Input, Collect(l)
  PROVE  S!Next
<1>. USE ReplAssumption
<1>1. TextOf = Collected /\ TextOf # NoBlock /\ multiline /\ used \in Nat
  BY SomeText DEF Collect, Collects, ReplInv
<1>2. PICK p \in Address :
        /\ block' = p
        /\ memory' = [Reallocated(p, Needs(l)) EXCEPT
                        ![p] = Stored(@, used, l \o <<"\n", Zero>>)]
  BY DEF Collect
<1>. DEFINE old == IF block = Null THEN <<>> ELSE memory[block]
            kept == [i \in 1 .. Needs(l) |-> IF i <= Len(old) THEN old[i] ELSE Junk]
            new == l \o <<"\n", Zero>>
<1>3. used' = used + Len(l) + 1 /\ running' = running /\ multiline' = multiline
  BY DEF Collect
<1>4. Needs(l) = used + Len(l) + 2 /\ Needs(l) <= Limit /\ Len(l) \in Nat
  BY MoreLength DEF Collect, Needs
<1>5. memory'[p] = Stored(kept, used, new)
  <2>1. Reallocated(p, Needs(l))[p] = kept /\ p \in DOMAIN Reallocated(p, Needs(l))
    BY DEF Reallocated
  <2> QED
    BY <1>2, <2>1
<1>6. ReplInv'
  BY CollectInv
<1>7. /\ Collected' \in Seq(Byte) /\ Len(Collected') = used'
      /\ Collected' = SubSeq(memory'[p], 1, used')
  <2>1. block' # Null /\ running'
    BY <1>2, <1>3
  <2> QED
    BY <1>2, <1>6, <2>1, CollectedTypeNext
<1>8. \A i \in 1 .. used : Collected[i] = old[i] /\ i <= Len(old)
  <2>1. CASE block = Null
    BY <2>1 DEF ReplInv, BlockOwned
  <2>2. CASE block # Null
    <3>1. memory[block] \in Seq(Byte) /\ Len(memory[block]) = used + 1
      BY <2>2 DEF ReplInv, BlockOwned
    <3> QED
      BY <1>1, <2>2, <3>1, CollectedType
  <2> QED
    BY <2>1, <2>2
<1>9. More(l) \in Seq(Byte) /\ Len(More(l)) = used'
  BY <1>3, MoreLength
<1>10. /\ \A i \in 1 .. used : More(l)[i] = Collected[i]
       /\ \A i \in used + 1 .. used' : More(l)[i] = new[i - used] /\ i - used \in DOMAIN new
       /\ \A i \in 1 .. used : i - used \notin DOMAIN new
  <2>1. l \in Seq(Char) /\ Collected \in Seq(Byte) /\ Len(Collected) = used
    BY CollectedType
  <2> QED
    BY <1>1, <1>3, <1>4, <2>1 DEF More
<1>11. \A i \in 1 .. used' : Collected'[i] = More(l)[i]
  <2>. HIDE DEF old, new
  <2>1. memory'[p] \in Seq(Byte) /\ Len(memory'[p]) = used' + 1
    BY <1>2, <1>3, <1>6 DEF ReplInv, BlockOwned
  <2>2. \A i \in 1 .. used' : Collected'[i] = memory'[p][i]
    BY <1>1, <1>3, <1>4, <1>7, <2>1
  <2>3. \A i \in 1 .. used' : i \in 1 .. Needs(l)
    BY <1>1, <1>3, <1>4
  <2>4. \A i \in 1 .. used :  memory'[p][i] = old[i]
    BY <1>1, <1>3, <1>4, <1>5, <1>8, <1>10, <2>3 DEF Stored
  <2>5. \A i \in used + 1 .. used' :  memory'[p][i] = new[i - used]
    BY <1>1, <1>3, <1>4, <1>5, <1>10, <2>3 DEF Stored
  <2>6. \A i \in 1 .. used' : i \in 1 .. used \/ i \in used + 1 .. used'
    BY <1>1, <1>3, <1>4
  <2> QED
    BY <1>8, <1>10, <2>2, <2>4, <2>5, <2>6
<1>12. Collected' = More(l)
  BY <1>7, <1>9, <1>11, SameElements
<1>13. TextOf' = More(l)
  BY <1>1, <1>3, <1>12 DEF TextOf
<1>14. Len(More(l)) < Limit /\ l \notin {<<":}">>, <<":quit">>} /\ Did("collected", l)
  <2>1. l \notin {<<":}">>, <<":quit">>} /\ Did("collected", l)
    BY Zenon DEF Collect, Collects
  <2>2. Len(More(l)) < Limit
    BY <1>1, <1>3, <1>4, <1>9
  <2> QED
    BY <2>1, <2>2
<1>15. S!InBlock(l)
  BY <1>1, <1>3, <1>13, <1>14 DEF S!InBlock, S!Did, Did, TextOf, More
<1> QED
  BY <1>15 DEF S!Next

LEMMA NextSession == ReplInv /\ [ReplNext]_replVars => [S!Next]_(S!vars)
<1>. SUFFICES ASSUME ReplInv, [ReplNext]_replVars PROVE [S!Next]_(S!vars)
  OBVIOUS
<1>1. CASE running /\ EndOfInput
  BY <1>1, LeaveEnds DEF EndOfInput
<1>2. CASE running /\ Broken
  BY <1>2, BrokenGivesUp
<1>3. ASSUME running, NEW l \in Input, Line(l) PROVE S!Next
  <2>1. CASE Quit(l)
    BY <1>3, <2>1, LeaveEnds DEF Quit
  <2>2. CASE Mem(l) \/ OpenBlock(l) \/ Evaluate(l)
    BY <1>3, <2>2, PromptSteps
  <2>3. CASE CloseBlock(l)
    BY <1>3, <2>3, CloseEvaluates
  <2>4. CASE TooLarge(l) \/ NoMemory(l)
    BY <1>3, <2>4, RefusedGivesUp
  <2>5. CASE Collect(l)
    BY <1>3, <2>5, CollectGoesOn
  <2> QED
    BY <1>3, <2>1, <2>2, <2>3, <2>4, <2>5 DEF Line
<1>4. CASE UNCHANGED replVars
  BY <1>4 DEF replVars, S!vars, Collected
<1> QED
  BY <1>1, <1>2, <1>3, <1>4 DEF ReplNext

(***************************************************************************)
(* The loop implements the session that the user expects, for every limit,  *)
(* all lines, and whatever realloc() answers: each block is evaluated as it *)
(* was typed, or given up as a whole.                                       *)
(***************************************************************************)
THEOREM ReplImplementsSession == ReplSpec => ImplementsSession
<1>1. ReplInv /\ [ReplNext]_replVars => ReplInv'
  BY ReplNextInv
<1>2. ReplInv /\ [ReplNext]_replVars => [S!Next]_(S!vars)
  BY NextSession
<1> QED
  BY ReplInitInv, InitSession, <1>1, <1>2, PTL DEF ReplSpec, ImplementsSession, S!Spec
=============================================================================
