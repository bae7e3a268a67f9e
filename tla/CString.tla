------------------------------ MODULE CString ------------------------------
(***************************************************************************)
(* libc/string.c. A string is the sequence of its bytes without the NUL; a  *)
(* pointer into one is the number of bytes before it, and Null is no        *)
(* pointer. Memory is a sequence of bytes.                                  *)
(***************************************************************************)
EXTENDS Calls, FiniteSetsExt

CONSTANTS
  Char,         \* bytes strings are made of, without 0
  MaxString,    \* the longest string tried
  MemSize       \* the size of the memory memmove is tried on

Null == -1
ByteAt(s, i) == IF i < Len(s) THEN s[i + 1] ELSE 0      \* s[i] of C, the NUL included
From(s, i) == SubSeq(s, i + 1, Len(s))

memcpy(mem, d, s, n) ==
  LET step[k \in 0 .. n] ==
        IF k = 0 THEN mem ELSE [step[k - 1] EXCEPT ![d + k] = step[k - 1][s + k]]
  IN  step[n]

\* Mutant: the bytes are always moved from the first up.
MoveUp(mem, d, s, n) == memcpy(mem, d, s, n)

\* Byte by byte, up or down by how the two addresses compare.
memmove(mem, d, s, n) ==
  LET step[k \in 0 .. n] ==
        IF k = 0 THEN mem
        ELSE LET j == IF d < s THEN k ELSE n + 1 - k
             IN  [step[k - 1] EXCEPT ![d + j] = step[k - 1][s + j]]
  IN  IF d = s THEN mem ELSE step[n]

memchr(a, c, n) ==
  LET hits == {i \in 0 .. n - 1 : ByteAt(a, i) = c}
  IN  IF hits = {} THEN Null ELSE Min(hits)

memcmp(a, b, n) ==
  LET differ == {i \in 0 .. n - 1 : ByteAt(a, i) # ByteAt(b, i)}
  IN  IF differ = {} THEN 0 ELSE ByteAt(a, Min(differ)) - ByteAt(b, Min(differ))

RECURSIVE strncmp(_, _, _)
strncmp(a, b, n) ==
  IF n > 0 /\ a # <<>> /\ ByteAt(a, 0) = ByteAt(b, 0)
  THEN strncmp(Tail(a), IF b = <<>> THEN b ELSE Tail(b), n - 1)
  ELSE IF n > 0 THEN ByteAt(a, 0) - ByteAt(b, 0) ELSE 0

RECURSIVE strcmp(_, _)
strcmp(a, b) ==
  IF a # <<>> /\ ByteAt(a, 0) = ByteAt(b, 0) THEN strcmp(Tail(a), Tail(b))
  ELSE ByteAt(a, 0) - ByteAt(b, 0)

strchr(s, c) ==
  LET hits == {i \in 0 .. Len(s) : ByteAt(s, i) = c}
  IN  IF hits = {} THEN Null ELSE Min(hits)

strrchr(s, c) ==
  LET hits == {i \in 0 .. Len(s) : ByteAt(s, i) = c}
  IN  IF hits = {} THEN Null ELSE Max(hits)

\* The first byte is looked at before strncmp is called.
strstr(s, f) ==
  LET hits == {i \in 0 .. Len(s) - 1 :
                 ByteAt(s, i) = ByteAt(f, 0) /\ strncmp(From(s, i), f, Len(f)) = 0}
  IN  IF f = <<>> THEN 0 ELSE IF hits = {} THEN Null ELSE Min(hits)

RECURSIVE Span(_, _, _)
Span(s, set, in) ==
  IF s = <<>> \/ (strchr(set, s[1]) # Null) # in THEN 0 ELSE 1 + Span(Tail(s), set, in)
strspn(s, set) == Span(s, set, TRUE)
strcspn(s, set) == Span(s, set, FALSE)
strpbrk(s, set) == IF strcspn(s, set) < Len(s) THEN strcspn(s, set) ELSE Null

\* The bytes that are written at d, which held the string old.
RECURSIVE strncpy(_, _)
strncpy(s, n) ==
  IF n = 0 THEN <<>>
  ELSE IF s = <<>> THEN <<0>> \o strncpy(s, n - 1) ELSE <<s[1]>> \o strncpy(Tail(s), n - 1)
strcat(old, s) == old \o s \o <<0>>
RECURSIVE Upto(_, _)
Upto(s, n) == IF n = 0 \/ s = <<>> THEN <<>> ELSE <<s[1]>> \o Upto(Tail(s), n - 1)
strncat(old, s, n) == old \o Upto(s, n) \o <<0>>

-----------------------------------------------------------------------------
Strings == UNION {[1 .. n -> Char] : n \in 0 .. MaxString}

CStringCalls ==
  \/ Call("string", {<<a, b, n>> : a, b \in Strings, n \in 0 .. MaxString + 1})
  \/ Call("memmove", {a \in (0 .. MemSize) \X (0 .. MemSize) \X (0 .. MemSize) :
                        a[1] + a[3] <= MemSize /\ a[2] + a[3] <= MemSize})

Sign(n) == IF n > 0 THEN 1 ELSE IF n < 0 THEN -1 ELSE 0

\* Dictionary order with the NUL smaller than every byte.
Order(a, b) ==
  LET k == CHOOSE k \in 0 .. Len(a) + Len(b) :
             /\ SubSeq(a, 1, k) = SubSeq(b, 1, k)
             /\ a = b \/ ByteAt(a, k) # ByteAt(b, k)
  IN  IF a = b THEN 0 ELSE Sign(ByteAt(a, k) - ByteAt(b, k))
Cut(s, n) == SubSeq(s, 1, Min({n, Len(s)}))
Found(places) == IF places = {} THEN Null ELSE Min(places)

\* Overlapping moves arrive whole, with memcpy those to a lower place;
\* comparisons, searches and bounded copies stop where the NUL, the bound or
\* the other string says.
StringsAgree ==
  /\ call.fn = "memmove" =>
       LET d == call.a[1]  s == call.a[2]  n == call.a[3]
           mem == [i \in 1 .. MemSize |-> i]
           moved == [i \in 1 .. MemSize |-> IF i \in d + 1 .. d + n THEN i - d + s ELSE i]
       IN  /\ memmove(mem, d, s, n) = moved
           /\ d <= s \/ s + n <= d => memcpy(mem, d, s, n) = moved
  /\ call.fn = "string" =>
       LET a == call.a[1]  b == call.a[2]  n == call.a[3]
       IN  /\ Sign(strcmp(a, b)) = Order(a, b)
           /\ Sign(strncmp(a, b, n)) = Order(Cut(a, n), Cut(b, n))
           /\ n <= Min({Len(a), Len(b)}) => Sign(memcmp(a, b, n)) = Order(Cut(a, n), Cut(b, n))
           /\ strstr(a, b) = Found({i \in 0 .. Len(a) : Cut(From(a, i), Len(b)) = b})
           /\ strpbrk(a, b) = Found({i \in 0 .. Len(a) - 1 : \E j \in DOMAIN b : a[i + 1] = b[j]})
           /\ \A i \in 1 .. strspn(a, b) : \E j \in DOMAIN b : a[i] = b[j]
           /\ \A c \in Char : strrchr(a, c) # Null =>
                strchr(From(a, strrchr(a, c) + 1), c) = Null
           /\ \A c \in Char : memchr(a, c, Min({n, Len(a)})) = strchr(Cut(a, n), c)
           /\ strncpy(a, n) = Cut(a, n) \o [i \in 1 .. n - Len(Cut(a, n)) |-> 0]
           /\ strncat(a, b, n) = strcat(a, Cut(b, n))

=============================================================================
