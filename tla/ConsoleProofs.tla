---------------------------- MODULE ConsoleProofs ---------------------------
(***************************************************************************)
(* Theorems about the console of os/io_pico2.c: its rings (Ring), for every *)
(* array size, counter width and chunk size: the invariant, the absence of  *)
(* overrun, and that they implement the bounded queue of ByteFifo; and its  *)
(* waits (Waits), neither too short nor too long, for every width of the    *)
(* tick and every wait that is shorter than its turn by two.                *)
(***************************************************************************)
EXTENDS Ring, Waits, ModuloFacts, SequenceTheorems, TLAPS

\* The counter width is a multiple of the array size.
LEMMA Turns ==
  \E c \in Int : M = c * N
<1>1. M \in Int /\ N \in Nat \ {0} /\ M % N = 0
  BY RingAssumption
<1>2. PICK c \in Int : M = c * N + (M % N) /\ M % N \in 0 .. N - 1
  BY ONLY <1>1, Division
<1> QED BY <1>1, <1>2

\* A slot depends on the counter modulo N only: wrapping at M is harmless
\* because N divides M.
LEMMA SlotIsMod ==
  ASSUME NEW x \in Int
  PROVE  SlotOf(x) = x % N /\ SlotOf(x) \in 0 .. N - 1
<1>0. M \in Nat \ {0} /\ N \in Nat \ {0}
  BY RingAssumption
<1>1. PICK q \in Int : x = q * M + (x % M) /\ x % M \in 0 .. M - 1
  BY ONLY <1>0, Division, x \in Int
<1>2. PICK c \in Int : M = c * N
  BY Turns
<1> DEFINE y == x % M
           e == q * c
<1>3. y \in Int /\ e \in Int /\ x = y + e * N
  BY <1>0, <1>1, <1>2
<1>4. x % N = y % N
  <2> HIDE DEF y, e
  <2> QED BY <1>0, <1>3, AddMultiple
<1>5. y % N \in 0 .. N - 1
  <2> HIDE DEF y
  <2> QED BY ONLY <1>0, <1>3, Division
<1> QED BY <1>4, <1>5 DEF SlotOf

\* Adding a full turn of the counters changes no slot.
LEMMA SlotTurn ==
  ASSUME NEW x \in Int
  PROVE  SlotOf(x - M) = SlotOf(x) /\ SlotOf(x + M) = SlotOf(x)
<1>0. M \in Nat \ {0} /\ N \in Nat \ {0}
  BY RingAssumption
<1>1. PICK c \in Int : M = c * N
  BY Turns
<1>2. x + c * N = x + M /\ x + (-c) * N = x - M /\ -c \in Int
  BY <1>0, <1>1
<1>3. (x + M) % N = x % N
  <2>1. (x + c * N) % N = x % N
    BY ONLY <1>0, <1>1, AddMultiple, x \in Int
  <2> QED BY <2>1, <1>2
<1>4. (x - M) % N = x % N
  <2>1. (x + (-c) * N) % N = x % N
    BY ONLY <1>0, <1>2, AddMultiple, x \in Int
  <2> QED BY <2>1, <1>2
<1>5. x + M \in Int /\ x - M \in Int
  BY <1>0
<1> QED BY <1>3, <1>4, <1>5, SlotIsMod

\* Slots of two counter values less than N apart are different.
LEMMA SlotsDiffer ==
  ASSUME NEW x \in Int, NEW y \in Int, x < y, y < x + N
  PROVE  SlotOf(x) # SlotOf(y)
  BY NearbyDiffer, SlotIsMod, RingAssumption

\* The counters are Avail apart, give or take one turn.
LEMMA AvailGap ==
  ASSUME wr \in 0 .. M - 1, rd \in 0 .. M - 1
  PROVE  /\ Avail \in 0 .. M - 1
         /\ Avail = IF wr < rd THEN wr - rd + M ELSE wr - rd
         /\ wr = rd + Avail \/ wr = rd + Avail - M
<1>1. M \in Nat \ {0}
  BY RingAssumption
<1>2. Avail \in 0 .. M - 1 /\ Avail = IF wr < rd THEN wr - rd + M ELSE wr - rd
  BY <1>1, Distance DEF Avail
<1> QED BY <1>1, <1>2

\* The producer's slots follow the readable ones.
LEMMA SlotAhead ==
  ASSUME wr \in 0 .. M - 1, rd \in 0 .. M - 1, NEW i \in Int
  PROVE  SlotOf(wr + i) = SlotOf(rd + Avail + i)
<1>1. CASE wr = rd + Avail
  BY <1>1
<1>2. CASE wr = rd + Avail - M
  <2>1. wr + i = (rd + Avail + i) - M /\ rd + Avail + i \in Int
    BY <1>2, AvailGap, RingAssumption
  <2> QED BY <2>1, SlotTurn
<1> QED BY <1>1, <1>2, AvailGap

\* A store of the producer never aims at a readable slot.
LEMMA StoreMissesReadable ==
  ASSUME TypeOK, Bounded, NEW i \in 0 .. putting - 1, NEW j \in 0 .. Avail - 1
  PROVE  SlotOf(wr + i) # SlotOf(rd + j)
<1>1. Avail \in 0 .. M - 1 /\ SlotOf(wr + i) = SlotOf(rd + Avail + i)
  BY SlotAhead, AvailGap DEF TypeOK
<1>2. rd + j < rd + Avail + i /\ rd + Avail + i < rd + j + N
  BY <1>1, RingAssumption DEF TypeOK, Bounded
<1>3. SlotOf(rd + j) # SlotOf(rd + Avail + i)
  BY <1>1, <1>2, SlotsDiffer, RingAssumption DEF TypeOK
<1> QED BY <1>1, <1>3

\* Two stores of one copy go to different slots.
LEMMA StoresDiffer ==
  ASSUME TypeOK, NEW i \in 0 .. putting - 1, NEW j \in 0 .. putting - 1, i # j
  PROVE  SlotOf(wr + i) # SlotOf(wr + j)
<1>1. CASE i < j
  BY <1>1, SlotsDiffer, RingAssumption DEF TypeOK
<1>2. CASE j < i
  BY <1>2, SlotsDiffer, RingAssumption DEF TypeOK
<1> QED BY <1>1, <1>2 DEF TypeOK

-----------------------------------------------------------------------------

LEMMA BufferIsSeq ==
  ASSUME NEW b \in Buffers
  PROVE  b \in Seq(Byte) /\ Len(b) \in 1 .. PutMax
<1>1. PICK n \in 1 .. PutMax : b \in [1 .. n -> Byte]
  BY DEF Buffers
<1> QED BY <1>1, RingAssumption

\* Publishing k bytes lengthens the readable part, across the wrap.
LEMMA AvailAfterPut ==
  ASSUME TypeOK, NEW k \in Nat, Avail + k <= N, wr' = (wr + k) % M, rd' = rd
  PROVE  /\ Avail' = Avail + k
         /\ wr' \in 0 .. M - 1
         /\ wr' = wr + k \/ wr' = wr + k - M
<1>1. /\ M \in Nat \ {0} /\ N \in Nat /\ N < M
      /\ wr \in 0 .. M - 1 /\ rd \in 0 .. M - 1
  BY RingAssumption DEF TypeOK
<1>2. /\ Avail \in 0 .. M - 1
      /\ Avail = IF wr < rd THEN wr - rd + M ELSE wr - rd
  BY <1>1, AvailGap
<1>3. k \in 0 .. M
  BY <1>1, <1>2
<1>4. /\ wr' = IF wr + k < M THEN wr + k ELSE wr + k - M
      /\ wr' \in 0 .. M - 1
  BY <1>1, <1>3, Advance
<1>5. Avail' = IF wr' < rd' THEN wr' - rd' + M ELSE wr' - rd'
  <2>1. wr' \in 0 .. M - 1 /\ rd' \in 0 .. M - 1
    BY <1>1, <1>4
  <2>2. (wr' - rd') % M = IF wr' < rd' THEN wr' - rd' + M ELSE wr' - rd'
    BY ONLY <1>1, <2>1, Distance
  <2> QED BY <2>2 DEF Avail
<1> QED BY <1>1, <1>2, <1>4, <1>5

\* Taking k bytes shortens the readable part, across the wrap.
LEMMA AvailAfterGet ==
  ASSUME TypeOK, NEW k \in Nat, k <= Avail, Avail <= N, rd' = (rd + k) % M, wr' = wr
  PROVE  /\ Avail' = Avail - k
         /\ rd' \in 0 .. M - 1
         /\ rd' = rd + k \/ rd' = rd + k - M
<1>1. /\ M \in Nat \ {0} /\ N \in Nat /\ N < M
      /\ wr \in 0 .. M - 1 /\ rd \in 0 .. M - 1
  BY RingAssumption DEF TypeOK
<1>2. /\ Avail \in 0 .. M - 1
      /\ Avail = IF wr < rd THEN wr - rd + M ELSE wr - rd
  BY <1>1, AvailGap
<1>3. k \in 0 .. M
  BY <1>1, <1>2
<1>4. /\ rd' = IF rd + k < M THEN rd + k ELSE rd + k - M
      /\ rd' \in 0 .. M - 1
  BY <1>1, <1>3, Advance
<1>5. Avail' = IF wr' < rd' THEN wr' - rd' + M ELSE wr' - rd'
  <2>1. wr' \in 0 .. M - 1 /\ rd' \in 0 .. M - 1
    BY <1>1, <1>4
  <2>2. (wr' - rd') % M = IF wr' < rd' THEN wr' - rd' + M ELSE wr' - rd'
    BY ONLY <1>1, <2>1, Distance
  <2> QED BY <2>2 DEF Avail
<1> QED BY <1>1, <1>2, <1>4, <1>5

\* A slot of a counter value that advanced is the slot it was going to be.
LEMMA SlotAfter ==
  ASSUME NEW c \in Int, NEW k \in Int, NEW d \in Int, d = c + k \/ d = c + k - M,
         NEW i \in Int
  PROVE  SlotOf(d + i) = SlotOf(c + k + i)
<1>1. CASE d = c + k
  BY <1>1
<1>2. CASE d = c + k - M
  <2>1. d + i = (c + k + i) - M /\ c + k + i \in Int
    BY <1>2, RingAssumption
  <2> QED BY <2>1, SlotTurn
<1> QED BY <1>1, <1>2

-----------------------------------------------------------------------------

LEMMA InitInv ==
  Init => RingInv
<1> SUFFICES ASSUME Init PROVE RingInv
  OBVIOUS
<1>1. TypeOK
  BY RingAssumption DEF Init, TypeOK
<1>2. Avail = 0
  BY <1>1, AvailGap, RingAssumption DEF Init, TypeOK
<1> QED BY <1>1, <1>2, RingAssumption
        DEF Init, RingInv, Bounded, ReadsPublished, Copied, Loaded

LEMMA BeginInv ==
  RingInv /\ Begin => RingInv'
<1> SUFFICES ASSUME RingInv, Begin PROVE RingInv'
  OBVIOUS
<1> USE DEF Begin, consVars
<1>1. src' \in Seq(Byte) /\ Len(src') \in 1 .. PutMax
  BY BufferIsSeq
<1>2. putting = 0 /\ Avail' = Avail /\ Avail \in 0 .. M - 1
  BY AvailGap, RingAssumption DEF RingInv, Bounded, TypeOK, Avail
<1>3. TypeOK'
  BY <1>1 DEF RingInv, TypeOK
<1>4. Bounded' /\ ReadsPublished'
  BY <1>1, <1>2 DEF RingInv, Bounded, ReadsPublished
<1>5. Copied' /\ Loaded'
  BY <1>2 DEF RingInv, Copied, Loaded, SlotOf
<1> QED BY <1>3, <1>4, <1>5 DEF RingInv

LEMMA CopyInInv ==
  RingInv /\ CopyIn => RingInv'
<1> SUFFICES ASSUME RingInv, CopyIn PROVE RingInv'
  OBVIOUS
<1> USE DEF CopyIn, consVars
<1>1. Avail' = Avail /\ Avail \in 0 .. N /\ Len(src) \in Nat /\ N \in Nat
  BY AvailGap, RingAssumption DEF RingInv, Bounded, TypeOK, Avail
<1>2. putting' \in 1 .. N /\ Avail + putting' <= N /\ putting' <= Len(src)
  BY <1>1 DEF Room, Lesser, RingInv, TypeOK
<1>3. TypeOK'
  BY <1>2 DEF RingInv, TypeOK
<1>4. Bounded' /\ ReadsPublished'
  BY <1>1, <1>2 DEF RingInv, Bounded, ReadsPublished
<1>5. Copied' /\ Loaded'
  BY DEF RingInv, Copied, Loaded, SlotOf
<1> QED BY <1>3, <1>4, <1>5 DEF RingInv

LEMMA StoreLandsInv ==
  ASSUME RingInv, NEW i \in pending, StoreLands(i)
  PROVE  RingInv'
<1> USE DEF StoreLands, consVars
<1> DEFINE s == SlotOf(wr + i)
<1>1. i \in 0 .. putting - 1 /\ i \in Int /\ s \in 0 .. N - 1
  <2>1. i \in 0 .. putting - 1 /\ wr + i \in Int
    BY RingAssumption DEF RingInv, TypeOK
  <2>2. s \in 0 .. N - 1
    BY <2>1, SlotIsMod
  <2> QED BY <2>1, <2>2
<1>2. src[i + 1] \in Byte
  BY <1>1 DEF RingInv, TypeOK, Bounded
<1>3. TypeOK'
  <2>1. buf' \in [0 .. N - 1 -> Byte]
    BY <1>1, <1>2 DEF RingInv, TypeOK
  <2> QED BY <2>1 DEF RingInv, TypeOK
<1>4. Avail' = Avail /\ Avail \in 0 .. N
  BY AvailGap, RingAssumption DEF RingInv, Bounded, TypeOK, Avail
<1>5. Bounded' /\ ReadsPublished'
  BY <1>4 DEF RingInv, Bounded, ReadsPublished
<1>6. Copied'
  <2> SUFFICES ASSUME NEW j \in (0 .. putting - 1) \ pending'
               PROVE  buf'[SlotOf(wr + j)] = src[j + 1]
    BY DEF Copied, SlotOf
  <2>1. CASE j = i
    BY <2>1, <1>1 DEF RingInv, TypeOK
  <2>2. CASE j # i
    <3>1. SlotOf(wr + j) # s /\ j \notin pending
      BY <2>2, <1>1, StoresDiffer DEF RingInv
    <3>2. buf[SlotOf(wr + j)] = src[j + 1]
      BY <3>1 DEF RingInv, Copied
    <3>3. wr + j \in Int
      BY RingAssumption DEF RingInv, TypeOK
    <3>4. SlotOf(wr + j) \in 0 .. N - 1
      BY <3>3, SlotIsMod
    <3> QED BY <3>1, <3>2, <3>4 DEF RingInv, TypeOK
  <2> QED BY <2>1, <2>2
<1>7. Loaded'
  <2> SUFFICES ASSUME NEW j \in DOMAIN dst, dst[j] # NoByte
               PROVE  dst[j] = buf'[SlotOf(rd + j - 1)]
    BY DEF Loaded, SlotOf
  <2>1. j - 1 \in 0 .. Avail - 1 /\ j \in Int
    BY <1>4 DEF RingInv, TypeOK, ReadsPublished
  <2>2. s # SlotOf(rd + (j - 1)) /\ rd + (j - 1) = rd + j - 1
    BY <1>1, <2>1, StoreMissesReadable DEF RingInv, TypeOK
  <2>3. dst[j] = buf[SlotOf(rd + j - 1)]
    BY DEF RingInv, Loaded
  <2>4. SlotOf(rd + j - 1) \in 0 .. N - 1
    <3>1. rd + j - 1 \in Int
      BY <2>1, RingAssumption DEF RingInv, TypeOK
    <3> QED BY <3>1, SlotIsMod
  <2> QED BY <2>2, <2>3, <2>4 DEF RingInv, TypeOK
<1> QED BY <1>3, <1>5, <1>6, <1>7 DEF RingInv

LEMMA PublishWriteInv ==
  RingInv /\ PublishWrite => RingInv'
<1> SUFFICES ASSUME RingInv, PublishWrite PROVE RingInv'
  OBVIOUS
<1> USE DEF PublishWrite, consVars
<1>1. putting \in 1 .. N /\ Avail + putting <= N /\ TypeOK /\ Avail \in 0 .. M - 1
  BY AvailGap DEF RingInv, Bounded, TypeOK
<1>2. Avail' = Avail + putting /\ wr' \in 0 .. M - 1
  BY <1>1, AvailAfterPut
<1>3. src' \in Seq(Byte) /\ Len(src') = Len(src) - putting
  BY <1>1 DEF RingInv, Bounded, TypeOK
<1>4. TypeOK'
  BY <1>2, <1>3, <1>1, RingAssumption DEF RingInv, TypeOK
<1>5. Bounded' /\ ReadsPublished'
  BY <1>1, <1>2, <1>3, RingAssumption DEF RingInv, Bounded, ReadsPublished, TypeOK
<1>6. Copied'
  BY DEF Copied
<1>7. Loaded'
  BY DEF RingInv, Loaded, SlotOf
<1> QED BY <1>4, <1>5, <1>6, <1>7 DEF RingInv

LEMMA CopyOutInv ==
  RingInv /\ CopyOut => RingInv'
<1> SUFFICES ASSUME RingInv, CopyOut PROVE RingInv'
  OBVIOUS
<1>0. UNCHANGED <<buf, wr, src, putting, pending, rd, delivered>>
  BY DEF CopyOut, prodVars
<1>1. Avail' = Avail /\ Avail \in 1 .. N /\ N \in Nat
  BY <1>0, AvailGap, RingAssumption DEF CopyOut, RingInv, Bounded, TypeOK, Avail
<1>2. Lesser(Avail, GetMax) \in 1 .. Avail
  BY <1>1, RingAssumption DEF Lesser
<1>3. PICK n \in 1 .. Avail : dst' = [i \in 1 .. n |-> NoByte]
  BY <1>2 DEF CopyOut
<1>4. /\ dst' \in Seq(Byte \cup {NoByte})
      /\ Len(dst') = n
      /\ \A i \in DOMAIN dst' : dst'[i] = NoByte
  BY <1>1, <1>3
<1>5. n <= N /\ n <= Avail
  BY <1>1
<1>6. TypeOK'
  BY <1>0, <1>4, <1>5 DEF RingInv, TypeOK
<1>7. Bounded' /\ ReadsPublished'
  BY <1>0, <1>1, <1>4, <1>5 DEF RingInv, Bounded, ReadsPublished
<1>8. Copied' /\ Loaded'
  BY <1>0, <1>4 DEF RingInv, Copied, Loaded, SlotOf
<1> QED BY <1>6, <1>7, <1>8 DEF RingInv

LEMMA LoadLandsInv ==
  ASSUME RingInv, NEW i \in DOMAIN dst, LoadLands(i)
  PROVE  RingInv'
<1> USE DEF LoadLands, prodVars
<1>1. i \in Int /\ SlotOf(rd + i - 1) \in 0 .. N - 1
  BY SlotIsMod DEF RingInv, TypeOK
<1>2. buf[SlotOf(rd + i - 1)] \in Byte
  BY <1>1 DEF RingInv, TypeOK
<1>3. dst' \in Seq(Byte \cup {NoByte}) /\ Len(dst') = Len(dst) /\ DOMAIN dst' = DOMAIN dst
  BY <1>2 DEF RingInv, TypeOK
<1>4. Avail' = Avail
  BY DEF Avail
<1>5. TypeOK' /\ Bounded' /\ ReadsPublished'
  BY <1>3, <1>4 DEF RingInv, TypeOK, Bounded, ReadsPublished
<1>6. Copied'
  BY DEF RingInv, Copied, SlotOf
<1>7. Loaded'
  <2> SUFFICES ASSUME NEW j \in DOMAIN dst, dst'[j] # NoByte
               PROVE  dst'[j] = buf[SlotOf(rd + j - 1)]
    BY <1>3 DEF Loaded, SlotOf
  <2> QED BY DEF RingInv, Loaded, TypeOK
<1> QED BY <1>5, <1>6, <1>7 DEF RingInv

LEMMA PublishReadInv ==
  RingInv /\ PublishRead => RingInv'
<1> SUFFICES ASSUME RingInv, PublishRead PROVE RingInv'
  OBVIOUS
<1> USE DEF PublishRead, prodVars
<1>1. TypeOK /\ Len(dst) \in Nat /\ Len(dst) <= Avail /\ Avail \in 0 .. N /\ putting \in 0 .. N
  BY AvailGap, RingAssumption, SMTT(30) DEF RingInv, Bounded, ReadsPublished, TypeOK
<1>2. Avail' = Avail - Len(dst) /\ rd' \in 0 .. M - 1
  BY <1>1, AvailAfterGet
<1>3. dst \in Seq(Byte)
  <2>1. Len(dst) \in Nat /\ \A i \in 1 .. Len(dst) : dst[i] \in Byte
    BY DEF RingInv, TypeOK
  <2>2. dst = [i \in 1 .. Len(dst) |-> dst[i]]
    BY DEF RingInv, TypeOK
  <2> QED BY <2>1, <2>2
<1>4. TypeOK'
  BY <1>2, <1>3, RingAssumption DEF RingInv, TypeOK
<1>5. Bounded' /\ ReadsPublished'
  BY <1>1, <1>2, RingAssumption DEF RingInv, Bounded, ReadsPublished
<1>6. Copied' /\ Loaded'
  BY DEF RingInv, Copied, Loaded, SlotOf
<1> QED BY <1>4, <1>5, <1>6 DEF RingInv

\* Every step keeps the invariant.
LEMMA NextInv ==
  RingInv /\ [Next]_vars => RingInv'
<1> SUFFICES ASSUME RingInv, [Next]_vars PROVE RingInv'
  OBVIOUS
<1>1. CASE Producer
  BY <1>1, BeginInv, CopyInInv, StoreLandsInv, PublishWriteInv DEF Producer
<1>2. CASE Consumer
  BY <1>2, CopyOutInv, LoadLandsInv, PublishReadInv DEF Consumer
<1>3. CASE UNCHANGED vars
  BY <1>3 DEF vars, prodVars, consVars, RingInv, TypeOK, Bounded, ReadsPublished,
              Copied, Loaded, Avail, SlotOf
<1> QED BY <1>1, <1>2, <1>3 DEF Next

\* The ring keeps its invariant for every array size that divides the width of
\* the counters, every chunk size and every order in which the memory accesses
\* between two barriers complete.
THEOREM RingInvariant == Spec => []RingInv
  BY InitInv, NextInv, PTL DEF Spec

\* The counters, the array and the copies in progress stay in range.
THEOREM RingTypeCorrect == Spec => []TypeOK
<1>1. RingInv => TypeOK
  BY DEF RingInv
<1> QED BY <1>1, RingInvariant, PTL

\* console_write and putchar never overwrite output that is still to be sent,
\* and task() never overwrites input that is still to be read.
THEOREM RingNoOverrun == Spec => []NoOverrun
<1>1. RingInv => NoOverrun
  BY StoreMissesReadable DEF RingInv, NoOverrun
<1> QED BY <1>1, RingInvariant, PTL

-----------------------------------------------------------------------------
\* The refinement: each action is a step of the queue or leaves it alone.

\* A step that moves neither counter nor a readable byte leaves the queue alone.
LEMMA QueueKept ==
  ASSUME UNCHANGED <<wr, rd>>,
         \A j \in 0 .. Avail - 1 : buf'[SlotOf(rd + j)] = buf[SlotOf(rd + j)],
         TypeOK
  PROVE  Queue' = Queue
<1>1. Avail' = Avail /\ Avail \in 0 .. M - 1
  BY AvailGap DEF Avail, TypeOK
<1>2. \A i \in 1 .. Avail : i - 1 \in 0 .. Avail - 1 /\ rd + (i - 1) = rd + i - 1
  BY <1>1, RingAssumption DEF TypeOK
<1>3. \A i \in 1 .. Avail : buf'[SlotOf(rd + i - 1)] = buf[SlotOf(rd + i - 1)]
  BY <1>2
<1> QED BY <1>1, <1>3 DEF Queue, SlotOf

LEMMA SlotsAreSeq ==
  ASSUME NEW b \in [0 .. N - 1 -> Byte], NEW r \in Int, NEW n \in Nat
  PROVE  /\ [i \in 1 .. n |-> b[SlotOf(r + i - 1)]] \in Seq(Byte)
         /\ Len([i \in 1 .. n |-> b[SlotOf(r + i - 1)]]) = n
<1>1. ASSUME NEW i \in 1 .. n
      PROVE  b[SlotOf(r + i - 1)] \in Byte
  <2>1. r + i - 1 \in Int
    OBVIOUS
  <2>2. SlotOf(r + i - 1) \in 0 .. N - 1
    BY <2>1, SlotIsMod
  <2> QED BY <2>2
<1> QED BY <1>1

LEMMA QueueIsSeq ==
  ASSUME TypeOK
  PROVE  Queue \in Seq(Byte) /\ Len(Queue) = Avail /\ Avail \in Nat
<1>1. Avail \in Nat /\ rd \in Int
  BY AvailGap, RingAssumption DEF TypeOK
<1> QED BY <1>1, SlotsAreSeq, ZenonT(40) DEF Queue, TypeOK

\* A sequence that continues s with the first k elements of v.
LEMMA Continues ==
  ASSUME NEW S, NEW s \in Seq(S), NEW v \in Seq(S), NEW k \in 0 .. Len(v),
         NEW u \in Seq(S), Len(u) = Len(s) + k,
         \A i \in 1 .. Len(s) : u[i] = s[i],
         \A j \in 1 .. k : u[Len(s) + j] = v[j]
  PROVE  u = s \o SubSeq(v, 1, k)
<1> DEFINE w == SubSeq(v, 1, k)
<1>1. w \in Seq(S) /\ Len(w) = k /\ \A j \in 1 .. k : w[j] = v[j]
  OBVIOUS
<1>2. /\ s \o w \in Seq(S) /\ Len(s \o w) = Len(s) + k
      /\ \A i \in 1 .. Len(s) + k :
           (s \o w)[i] = IF i <= Len(s) THEN s[i] ELSE w[i - Len(s)]
  BY <1>1
<1>3. ASSUME NEW i \in 1 .. Len(s) + k PROVE u[i] = (s \o w)[i]
  <2>1. CASE i <= Len(s)
    BY <2>1, <1>2
  <2>2. CASE i > Len(s)
    <3>1. i - Len(s) \in 1 .. k /\ i = Len(s) + (i - Len(s))
      BY <2>2
    <3>2. u[i] = v[i - Len(s)]
      BY <3>1
    <3> QED BY <3>1, <3>2, <2>2, <1>1, <1>2
  <2> QED BY <2>1, <2>2
<1> QED BY <1>2, <1>3, SeqEqual

LEMMA InitRefines == Init => Fifo!Init
<1> SUFFICES ASSUME Init PROVE Fifo!Init
  OBVIOUS
<1>1. TypeOK
  BY InitInv DEF RingInv
<1>2. Avail = 0
  BY <1>1, AvailGap, RingAssumption DEF Init, TypeOK
<1> QED BY <1>1, <1>2, QueueIsSeq DEF Init, Fifo!Init

LEMMA PublishWriteRefines ==
  RingInv /\ PublishWrite => Fifo!Put
<1> SUFFICES ASSUME RingInv, PublishWrite PROVE Fifo!Put
  OBVIOUS
<1>1. /\ TypeOK /\ putting \in 1 .. N /\ putting <= Len(src) /\ Len(src) \in Nat
      /\ Avail + putting <= N /\ Avail \in Nat /\ N \in Nat /\ rd \in Int /\ wr \in Int
  BY AvailGap, RingAssumption, SMTT(30) DEF RingInv, Bounded, TypeOK, PublishWrite
<1>2. UNCHANGED <<buf, rd, delivered>> /\ src' = SubSeq(src, putting + 1, Len(src))
  BY DEF PublishWrite, consVars
<1>3. Avail' = Avail + putting
  BY <1>1, <1>2, AvailAfterPut DEF PublishWrite
<1>4. Queue' = [i \in 1 .. Avail + putting |-> buf[SlotOf(rd + i - 1)]]
  BY <1>2, <1>3 DEF Queue, SlotOf
<1>5. Queue' \in Seq(Byte) /\ Len(Queue') = Avail + putting
  <2>1. Avail + putting \in Nat /\ buf \in [0 .. N - 1 -> Byte]
    BY <1>1 DEF TypeOK
  <2> QED BY <1>1, <1>4, <2>1, SlotsAreSeq, ZenonT(40)
<1>6. Queue \in Seq(Byte) /\ Len(Queue) = Avail
  BY <1>1, QueueIsSeq
<1>7. ASSUME NEW i \in 1 .. Avail
      PROVE  Queue'[i] = Queue[i]
  <2>1. i \in 1 .. Avail + putting
    BY <1>1
  <2>2. Queue'[i] = buf[SlotOf(rd + i - 1)]
    BY <1>4, <2>1
  <2> QED BY <2>2 DEF Queue
<1>8. ASSUME NEW j \in 1 .. putting
      PROVE  Queue'[Avail + j] = src[j]
  <2>1. j - 1 \in (0 .. putting - 1) \ pending /\ j - 1 \in Int /\ (j - 1) + 1 = j
    BY <1>1 DEF PublishWrite
  <2>2. SlotOf(wr + (j - 1)) = SlotOf(rd + Avail + (j - 1))
    BY <2>1, SlotAhead DEF RingInv, TypeOK
  <2>3. rd + Avail + (j - 1) = rd + (Avail + j) - 1
    BY <1>1
  <2>4. buf[SlotOf(wr + (j - 1))] = src[j]
    BY <2>1 DEF RingInv, Copied
  <2>5. Avail + j \in 1 .. Avail + putting
    BY <1>1
  <2> QED BY <2>2, <2>3, <2>4, <2>5, <1>4
<1>9. Queue' = Queue \o SubSeq(src, 1, putting)
  <2>1. src \in Seq(Byte) /\ putting \in 0 .. Len(src)
    BY <1>1 DEF TypeOK
  <2> QED BY <1>5, <1>6, <1>7, <1>8, <2>1, Continues, ZenonT(40)
<1>10. putting \in 1 .. Len(src) /\ Len(Queue) + putting <= N
  BY <1>1, <1>6, SMTT(30)
<1> QED BY <1>2, <1>9, <1>10 DEF Fifo!Put

LEMMA PublishReadRefines ==
  RingInv /\ PublishRead => Fifo!Get
<1> SUFFICES ASSUME RingInv, PublishRead PROVE Fifo!Get
  OBVIOUS
<1> DEFINE k == Len(dst)
<1>1. /\ TypeOK /\ k \in 1 .. Avail /\ k \in Nat /\ Avail \in 0 .. N
      /\ N \in Nat /\ rd \in Int /\ M \in Int
  <2>1. dst # <<>> /\ dst \in Seq(Byte \cup {NoByte})
    BY DEF PublishRead, RingInv, TypeOK
  <2>2. k \in Nat \ {0}
    BY <2>1, EmptySeq
  <2> QED BY <2>2, AvailGap, RingAssumption, SMTT(30)
          DEF RingInv, Bounded, ReadsPublished, TypeOK
<1>2. UNCHANGED <<buf, wr, src>> /\ delivered' = dst
  BY DEF PublishRead, prodVars
<1>3. /\ Avail' = Avail - k /\ rd' \in 0 .. M - 1
      /\ rd' = rd + k \/ rd' = rd + k - M
  <2>1. rd' = (rd + k) % M
    BY DEF PublishRead
  <2>2. k <= Avail /\ Avail <= N
    BY <1>1
  <2> HIDE DEF k
  <2> QED BY <1>1, <1>2, <2>1, <2>2, AvailAfterGet
<1>4. Queue \in Seq(Byte) /\ Len(Queue) = Avail
  BY <1>1, QueueIsSeq
<1>5. dst = SubSeq(Queue, 1, k)
  <2>1. \A i \in 1 .. k : dst[i] = Queue[i]
    BY <1>1, SMTT(30) DEF PublishRead, RingInv, Loaded, Queue, TypeOK
  <2>2. /\ SubSeq(Queue, 1, k) \in Seq(Byte) /\ Len(SubSeq(Queue, 1, k)) = k
        /\ \A i \in 1 .. k : SubSeq(Queue, 1, k)[i] = Queue[i]
    BY <1>1, <1>4
  <2>3. dst \in Seq(Byte \cup {NoByte}) /\ SubSeq(Queue, 1, k) \in Seq(Byte \cup {NoByte})
    BY <1>1, <2>2 DEF TypeOK
  <2> QED BY <2>1, <2>2, <2>3, SeqEqual
<1>6. Queue' = SubSeq(Queue, k + 1, Len(Queue))
  <2> DEFINE r == SubSeq(Queue, k + 1, Len(Queue))
  <2>1. Avail - k \in Nat
    BY <1>1
  <2>2. Queue' = [i \in 1 .. Avail - k |-> buf[SlotOf(rd' + i - 1)]]
    BY <1>2, <1>3 DEF Queue, SlotOf
  <2>3. Queue' \in Seq(Byte) /\ Len(Queue') = Avail - k
    <3>1. rd' \in Int
      BY <1>1, <1>3
    <3> QED BY <1>1, <2>1, <2>2, <3>1, SlotsAreSeq, ZenonT(40) DEF TypeOK
  <2>4. /\ r \in Seq(Byte) /\ Len(r) = Avail - k
        /\ \A i \in 1 .. Avail - k : r[i] = Queue[k + i]
    BY <1>1, <1>4
  <2>5. ASSUME NEW i \in 1 .. Avail - k PROVE Queue'[i] = r[i]
    <3>1. i - 1 \in Int /\ rd' \in Int /\ k + i \in 1 .. Avail
      BY <1>1, <1>3
    <3>2. SlotOf(rd' + (i - 1)) = SlotOf(rd + k + (i - 1))
      <4> DEFINE e == i - 1
      <4>1. k \in Int /\ e \in Int
        BY <1>1, <3>1
      <4>2. SlotOf(rd' + e) = SlotOf(rd + k + e)
        <5> HIDE DEF k, e
        <5> QED BY <1>1, <1>3, <3>1, <4>1, SlotAfter
      <4> QED BY <4>2
    <3>3. rd' + (i - 1) = rd' + i - 1 /\ rd + k + (i - 1) = rd + (k + i) - 1
      BY <1>1, <3>1
    <3>4. Queue[k + i] = buf[SlotOf(rd + (k + i) - 1)]
      BY <3>1 DEF Queue
    <3> QED BY <2>2, <2>4, <3>2, <3>3, <3>4
  <2> HIDE DEF r
  <2> QED BY <2>3, <2>4, <2>5, SeqEqual DEF r
<1>7. k \in 1 .. Len(Queue)
  BY <1>1, <1>4
<1> QED BY <1>2, <1>5, <1>6, <1>7 DEF Fifo!Get

\* Every step of the ring is a step of the queue or a stutter.
LEMMA NextRefines ==
  RingInv /\ [Next]_vars => [Fifo!Next]_(Fifo!vars)
<1> SUFFICES ASSUME RingInv, [Next]_vars PROVE [Fifo!Next]_(Fifo!vars)
  OBVIOUS
<1> USE DEF Fifo!vars
<1>0. TypeOK
  BY DEF RingInv
<1>1. CASE Begin
  <2>1. Queue' = Queue
    BY <1>0, <1>1, QueueKept DEF Begin, consVars
  <2> QED BY <1>1, <2>1 DEF Begin, consVars, Buffers, Fifo!Next, Fifo!Offer, Fifo!Chunks
<1>2. CASE CopyIn
  BY <1>0, <1>2, QueueKept DEF CopyIn, consVars
<1>3. ASSUME NEW i \in pending, StoreLands(i)
      PROVE  UNCHANGED <<src, Queue, delivered>>
  <2>1. i \in 0 .. putting - 1 /\ UNCHANGED <<wr, rd, src, delivered>>
    BY <1>3, <1>0 DEF StoreLands, consVars, TypeOK
  <2>2. \A j \in 0 .. Avail - 1 : buf'[SlotOf(rd + j)] = buf[SlotOf(rd + j)]
    <3> SUFFICES ASSUME NEW j \in 0 .. Avail - 1
                 PROVE  buf'[SlotOf(rd + j)] = buf[SlotOf(rd + j)]
      OBVIOUS
    <3>1. SlotOf(wr + i) # SlotOf(rd + j)
      BY <2>1, <1>0, StoreMissesReadable DEF RingInv
    <3>2. rd + j \in Int
      BY <1>0, AvailGap, RingAssumption DEF TypeOK
    <3>3. SlotOf(rd + j) \in 0 .. N - 1
      BY <3>2, SlotIsMod
    <3> QED BY <1>0, <1>3, <3>1, <3>3 DEF StoreLands, TypeOK
  <2> QED BY <1>0, <2>1, <2>2, QueueKept
<1>4. CASE PublishWrite
  BY <1>4, PublishWriteRefines DEF Fifo!Next
<1>5. CASE CopyOut
  BY <1>0, <1>5, QueueKept DEF CopyOut, prodVars
<1>6. ASSUME NEW i \in DOMAIN dst, LoadLands(i)
      PROVE  UNCHANGED <<src, Queue, delivered>>
  BY <1>0, <1>6, QueueKept DEF LoadLands, prodVars
<1>7. CASE PublishRead
  BY <1>7, PublishReadRefines DEF Fifo!Next
<1>8. CASE UNCHANGED vars
  BY <1>0, <1>8, QueueKept DEF vars, prodVars, consVars
<1> QED BY <1>1, <1>2, <1>3, <1>4, <1>5, <1>6, <1>7, <1>8 DEF Next, Producer, Consumer

\* A console direction of the RP2350 is a bounded queue of bytes: what getchar
\* returns, and what task() puts in a packet, is what was given to the other
\* side, in order, each byte once.
THEOREM RingImplementsFifo == Spec => ImplementsFifo
  BY InitRefines, NextRefines, RingInvariant, PTL DEF Spec, ImplementsFifo, Fifo!Spec

-----------------------------------------------------------------------------
\* One more tick is one more in the difference, until that is full.
LEMMA TickCounts ==
  ASSUME NEW m \in Nat \ {0}, NEW a \in 0 .. m - 1, NEW b \in 0 .. m - 1,
         NEW e \in Nat, (a - b) % m = e, e + 1 < m
  PROVE  (((a + 1) % m) - b) % m = e + 1
<1>1. (a - b) % m = IF a < b THEN a - b + m ELSE a - b
  BY Distance
<1>2. 1 \in 0 .. m
  OBVIOUS
<1>3. (a + 1) % m = IF a + 1 < m THEN a + 1 ELSE a + 1 - m
  BY <1>2, Advance
<1>4. (a + 1) % m \in 0 .. m - 1
  BY <1>2, Advance
<1>5. (((a + 1) % m) - b) % m = IF (a + 1) % m < b THEN ((a + 1) % m) - b + m ELSE ((a + 1) % m) - b
  BY <1>4, Distance, ZenonT(40)
<1> QED BY <1>1, <1>3, <1>5

\* The deadline is passed when as many ticks have passed.
LEMMA PastIsElapsed ==
  ASSUME Counted, call \in Timed, pc # "return"
  PROVE  Past <=> elapsed >= ms
BY DEF Past, Counted

\* The same call on the same board sleeps in the same way.
LEMMA SleepKept ==
  ASSUME call' = call, board' = board
  PROVE  (Wfi' <=> Wfi) /\ Slack' = Slack
<1>1. Wfi' <=> Wfi
  BY DEF Wfi
<1> QED BY <1>1 DEF Slack

\* No wait is so long that its ticks fill a turn.
LEMMA DueFits ==
  ASSUME NumbersOK
  PROVE  Due \in 1 .. Ticks - 2 /\ ms <= Due /\ Slack \in 0 .. 1
<1>1. ms \in 0 .. MaxMs
  BY DEF NumbersOK
<1> QED BY <1>1, WaitsAssumption DEF Due, Slack

-----------------------------------------------------------------------------
LEMMA Parts == WaitsInv <=> NumbersOK /\ FlagsOK /\ PlaceOK /\ Counted /\ ByteIsNew /\ WaitsItsTime
BY DEF WaitsInv, WaitsTypeOK

LEMMA InitWaits == WaitsInit => WaitsInv
<1>. SUFFICES ASSUME WaitsInit PROVE WaitsInv
  OBVIOUS
<1>1. NumbersOK
  BY WaitsAssumption DEF WaitsInit, NumbersOK
<1>3. FlagsOK
  BY DEF WaitsInit, FlagsOK
<1>4. PlaceOK
  BY DEF WaitsInit, PlaceOK, Calls, Timed
<1>2. Counted /\ ByteIsNew /\ WaitsItsTime
  BY DEF WaitsInit, Counted, ByteIsNew, WaitsItsTime, Timed
<1> QED BY <1>1, <1>2, <1>3, <1>4, Parts

LEMMA BeginWaitInv ==
  ASSUME WaitsInv, NEW c \in Calls, NEW n \in 0 .. MaxMs, BeginWait(c, n)
  PROVE  WaitsInv'
<1>1. NumbersOK /\ FlagsOK /\ PlaceOK
  BY Parts
<1>2. /\ pc' = "test" /\ call' = c /\ t' = tick /\ tick' = tick /\ ms' = n /\ ret' = "none"
      /\ elapsed' = 0 /\ looked' = TRUE /\ age' = age /\ board' = board
  BY DEF BeginWait
<1>3. NumbersOK'
  BY <1>1, <1>2, WaitsAssumption DEF NumbersOK
<1>4. FlagsOK'
  BY <1>1 DEF FlagsOK, BeginWait
<1>5. PlaceOK'
  BY <1>1, <1>2 DEF PlaceOK
<1>6. (tick' - t') % Ticks = elapsed'
  <2>1. Ticks \in Nat \ {0} /\ tick \in 0 .. Ticks - 1
    BY <1>1, WaitsAssumption DEF NumbersOK
  <2>2. (tick - tick) % Ticks = 0
    BY <2>1, Distance
  <2> QED BY <1>2, <2>2
<1>7. Due' \in Nat /\ Due' > 0 /\ Slack' \in Nat
  BY <1>2, <1>3, WaitsAssumption DEF Due, Slack
<1>8. Counted'
  <2>1. PICK d \in Nat, s \in Nat : Due' = d /\ Slack' = s /\ d > 0
    BY <1>7
  <2>2. 0 < d /\ 0 <= d + 0 /\ 0 <= d + s
    BY <2>1
  <2>3. elapsed' < d /\ elapsed' <= d + (IF pc' = Resume' THEN s ELSE 0)
    BY <1>2, <2>2
  <2> QED BY <1>2, <1>6, <2>1, <2>3 DEF Counted
<1>9. ByteIsNew' /\ WaitsItsTime'
  BY <1>2 DEF ByteIsNew, WaitsItsTime
<1> QED BY <1>3, <1>4, <1>5, <1>8, <1>9 DEF WaitsInv, WaitsTypeOK

LEMMA TestInv ==
  ASSUME WaitsInv, Test
  PROVE  WaitsInv'
<1>1. NumbersOK /\ FlagsOK /\ PlaceOK /\ Counted
  BY Parts
<1>2. /\ pc = "test" /\ elapsed' = elapsed /\ tick' = tick /\ t' = t /\ call' = call /\ ms' = ms
      /\ event' = event /\ board' = board /\ age' = age /\ looked' = (looked \/ call = "msleep")
      /\ pc' \in {"return", "test", "wfe"} /\ ret' \in {"done", ret}
  BY DEF Test
<1>3. NumbersOK'
  BY <1>1, <1>2 DEF NumbersOK
<1>4. FlagsOK'
  BY <1>1 DEF FlagsOK, Test
<1>5. PlaceOK'
  BY <1>1, <1>2 DEF PlaceOK
<1>6. (Wfi' <=> Wfi) /\ Due' = Due /\ Slack' = Slack /\ Due \in Nat /\ Slack \in Nat /\ elapsed \in Nat /\ ms \in Nat
  BY <1>1, <1>2, DueFits, SleepKept, WaitsAssumption DEF Due, NumbersOK
<1>7. Counted' /\ ByteIsNew' /\ WaitsItsTime'
  <2>1. CASE Satisfied
    <3>1. pc' = "return" /\ ret' = "done"
      BY <2>1 DEF Test
    <3>2. call \in Timed => elapsed <= Due + Slack
      BY <1>1, <1>2, <1>6 DEF Counted
    <3>3. call = "msleep" => elapsed >= ms
      BY <1>1, <1>2, <2>1, PastIsElapsed DEF Satisfied, Timed
    <3>4. call \in Timed => elapsed' <= Due' + Slack'
      BY <1>2, <1>6, <3>2
    <3> QED BY <1>2, <3>1, <3>3, <3>4 DEF Counted, ByteIsNew, WaitsItsTime, Due
  <2>2. CASE ~ Satisfied
    <3>1. pc' # "return" /\ (call \in Timed => pc' = "wfe")
      BY <2>2 DEF Test, Timed
    <3>2. call = "msleep" => elapsed < Due
      BY <1>1, <1>2, <1>6, <2>2, PastIsElapsed, DueFits DEF Satisfied, Timed
    <3>3. call = "getchar_timeout" => ~ input'
      BY <2>2 DEF Test, Satisfied
    <3>4. Counted'
      <4>. SUFFICES ASSUME call \in Timed PROVE Counted'
        BY <1>2 DEF Counted
      <4>1. pc' = "wfe" /\ pc' # Resume'
        BY <3>1 DEF Resume
      <4>2. (tick - t) % Ticks = elapsed /\ (looked => elapsed < Due)
        BY <1>1, <1>2 DEF Counted
      <4>3. looked' => elapsed' < Due'
        BY <1>2, <1>6, <3>2, <4>2
      <4>4. elapsed <= Due
        BY <1>1, <1>2, <1>6, <3>2 DEF Counted, Resume, Timed
      <4>5. ~ Wfi /\ ~ looked' => event'
        BY <1>1, <1>2 DEF Counted, Resume, Timed
      <4> QED BY <1>2, <1>6, <4>1, <4>2, <4>3, <4>4, <4>5 DEF Counted
    <3> QED BY <1>2, <3>1, <3>3, <3>4 DEF ByteIsNew, WaitsItsTime
  <2> QED BY <2>1, <2>2
<1> QED BY <1>3, <1>4, <1>5, <1>7 DEF WaitsInv, WaitsTypeOK

LEMMA DeadlineInv ==
  ASSUME WaitsInv, Deadline
  PROVE  WaitsInv'
<1>1. NumbersOK /\ FlagsOK /\ PlaceOK /\ Counted /\ ByteIsNew
  BY Parts
<1>2. /\ pc = "deadline" /\ elapsed' = elapsed /\ tick' = tick /\ t' = t /\ call' = call /\ ms' = ms
      /\ event' = event /\ board' = board /\ age' = age /\ input' = input /\ looked' = TRUE
      /\ pc' \in {"return", "test"} /\ ret' \in {ret, "late byte", "timeout"}
  BY DEF Deadline
<1>3. NumbersOK'
  BY <1>1, <1>2 DEF NumbersOK
<1>4. FlagsOK'
  BY <1>1 DEF FlagsOK, Deadline
<1>5. PlaceOK'
  BY <1>1, <1>2 DEF PlaceOK
<1>6. (Wfi' <=> Wfi) /\ Due' = Due /\ Slack' = Slack
  BY <1>2, SleepKept DEF Due
<1>10. Due \in Nat /\ ms <= Due /\ Slack \in Nat /\ elapsed \in Nat /\ ms \in Nat
  BY <1>1, DueFits, WaitsAssumption DEF NumbersOK
<1>7. call = "getchar_timeout" /\ call \in Timed
  BY <1>1, <1>2 DEF PlaceOK, Timed
<1>8. CASE Past
  <2>1. pc' = "return" /\ ret' = (IF input THEN "late byte" ELSE "timeout")
    BY <1>8 DEF Deadline
  <2>2. elapsed >= ms
    BY <1>1, <1>2, <1>7, <1>8, PastIsElapsed
  <2>3. elapsed' <= Due' + Slack'
    <3>1. elapsed <= Due + Slack
      BY <1>1, <1>2, <1>7, <1>10 DEF Counted, Resume
    <3> QED BY <1>2, <1>6, <3>1
  <2>4. input => age <= 1 + Slack
    BY <1>1, <1>2, <1>7 DEF ByteIsNew
  <2>5. ret' = "late byte" => age' <= 1 + Slack'
    BY <1>2, <1>6, <2>1, <2>4
  <2>6. Counted' /\ ByteIsNew'
    BY <2>1 DEF Counted, ByteIsNew
  <2>7. WaitsItsTime'
    BY <1>2, <2>2, <2>3, <2>5 DEF WaitsItsTime, Due
  <2> QED BY <1>3, <1>4, <1>5, <2>6, <2>7 DEF WaitsInv, WaitsTypeOK
<1>9. CASE ~ Past
  <2>1. pc' = "test"
    BY <1>9 DEF Deadline
  <2>2. elapsed < Due
    <3>1. ~ (elapsed >= ms)
      BY <1>1, <1>2, <1>7, <1>9, PastIsElapsed
    <3> QED BY <1>10, <3>1
  <2>6. elapsed < Due /\ elapsed <= Due + 0 /\ elapsed <= Due + Slack
    BY <1>10, <2>2
  <2>3. elapsed' < Due' /\ elapsed' <= Due' + (IF pc' = Resume' THEN Slack' ELSE 0)
    BY <1>2, <1>6, <2>6
  <2>4. Counted'
    BY <1>1, <1>2, <1>7, <2>3 DEF Counted
  <2>5. ByteIsNew' /\ WaitsItsTime'
    BY <2>1 DEF ByteIsNew, WaitsItsTime
  <2> QED BY <1>3, <1>4, <1>5, <2>4, <2>5 DEF WaitsInv, WaitsTypeOK
<1> QED BY <1>8, <1>9

LEMMA SleepInv ==
  ASSUME WaitsInv, Sleep
  PROVE  WaitsInv'
<1>1. NumbersOK /\ FlagsOK /\ PlaceOK /\ Counted /\ ByteIsNew
  BY Parts
<1>2. /\ pc = "wfe" /\ pc' = (IF event /\ ~ Wfi THEN Resume ELSE "asleep") /\ event' = (event /\ Wfi)
      /\ elapsed' = elapsed /\ tick' = tick /\ t' = t /\ call' = call /\ ms' = ms /\ ret' = ret
      /\ board' = board /\ age' = age /\ input' = input /\ looked' = looked
  BY DEF Sleep
<1>3. /\ (Wfi' <=> Wfi) /\ Due' = Due /\ Slack' = Slack /\ Due \in Nat /\ Slack \in Nat
      /\ elapsed \in Nat /\ age \in Nat /\ ms \in Nat
  BY <1>1, <1>2, DueFits, SleepKept, WaitsAssumption DEF Due, NumbersOK
<1>4. Resume' = Resume /\ Resume = (IF call = "getchar_timeout" THEN "deadline" ELSE "test")
  BY <1>2 DEF Resume
<1>5. NumbersOK'
  BY <1>1, <1>2 DEF NumbersOK
<1>6. FlagsOK'
  BY <1>1, <1>2 DEF FlagsOK, Sleep
<1>7. PlaceOK'
  BY <1>1, <1>2, <1>4 DEF PlaceOK
<1>8. Counted'
  BY <1>1, <1>2, <1>3, <1>4 DEF Counted
<1>9. ByteIsNew'
  <2>. SUFFICES ASSUME call = "getchar_timeout", input PROVE ByteIsNew'
    BY <1>2 DEF ByteIsNew
  <2>1. (looked => age = 0) /\ age <= 1 /\ (~ Wfi /\ ~ event => age = 0)
    BY <1>1, <1>2 DEF ByteIsNew
  <2>2. age <= 1 + Slack
    BY <1>3, <2>1
  <2>3. pc' = "asleep" => age <= Slack
    <3>1. CASE Wfi
      BY <2>1, <3>1 DEF Slack
    <3>2. CASE ~ Wfi
      <4>1. pc' = "asleep" => age = 0
        BY <1>2, <1>4, <2>1, <3>2
      <4> QED BY <1>3, <4>1
    <3> QED BY <3>1, <3>2
  <2> QED BY <1>2, <1>3, <1>4, <2>1, <2>2, <2>3 DEF ByteIsNew
<1>10. WaitsItsTime'
  BY <1>2, <1>4 DEF WaitsItsTime
<1> QED BY <1>5, <1>6, <1>7, <1>8, <1>9, <1>10 DEF WaitsInv, WaitsTypeOK

\* The interrupt does this to a core that waits.
LEMMA WakesInTime ==
  ASSUME PlaceOK, Wake
  PROVE  /\ Resume \in {"test", "deadline"}
         /\ pc = "asleep" => pc' = Resume
         /\ pc # "asleep" => pc' = pc
         /\ event'
<1>1. Resume \in {"test", "deadline"}
  BY DEF Resume
<1> QED BY <1>1 DEF Wake

\* A sev of core 1 does this to a core that waits.
LEMMA SignalsInTime ==
  ASSUME PlaceOK, Signal
  PROVE  /\ pc = "asleep" => pc' \in {Resume, "asleep"} /\ (pc' = "asleep" => Wfi)
         /\ pc # "asleep" => pc' = pc /\ event'
         /\ event' \in BOOLEAN
<1>1. Resume # "asleep"
  BY DEF Resume
<1>2. CASE pc = "asleep" /\ ~ Wfi
  <2>1. pc' = Resume /\ event' \in BOOLEAN
    BY <1>2 DEF Signal
  <2> QED BY <1>1, <1>2, <2>1
<1>3. CASE ~ (pc = "asleep" /\ ~ Wfi)
  <2>1. pc' = pc /\ event' \in {TRUE}
    BY <1>3 DEF Signal
  <2> QED BY <1>3, <2>1
<1> QED BY <1>2, <1>3

LEMMA SendEventInv ==
  ASSUME WaitsInv, SendEvent
  PROVE  WaitsInv'
<1>1. NumbersOK /\ FlagsOK /\ PlaceOK /\ Counted /\ ByteIsNew /\ WaitsItsTime
  BY Parts
<1>2. /\ elapsed' = elapsed /\ tick' = tick /\ t' = t /\ call' = call /\ ms' = ms /\ ret' = ret
      /\ board' = board /\ age' = age /\ input' = input /\ looked' = looked /\ Signal
  BY DEF SendEvent
<1>3. /\ (Wfi' <=> Wfi) /\ Due' = Due /\ Slack' = Slack /\ Due \in Nat /\ Slack \in Nat
      /\ elapsed \in Nat /\ age \in Nat /\ ms \in Nat
  BY <1>1, <1>2, DueFits, SleepKept, WaitsAssumption DEF Due, NumbersOK
<1>4. Resume' = Resume /\ Resume = (IF call = "getchar_timeout" THEN "deadline" ELSE "test")
  BY <1>2 DEF Resume
<1>5. NumbersOK'
  BY <1>1, <1>2 DEF NumbersOK
<1>6. FlagsOK'
  BY <1>1, <1>2 DEF FlagsOK, SendEvent, Signal
<1>7. PlaceOK'
  BY <1>1, <1>2, <1>4 DEF PlaceOK, Signal
<1>8. Counted'
  BY <1>1, <1>2, <1>3, <1>4, SignalsInTime DEF Counted
<1>9. ByteIsNew'
  BY <1>1, <1>2, <1>3, <1>4, SignalsInTime DEF ByteIsNew, Slack, PlaceOK
<1>10. WaitsItsTime'
  BY <1>1, <1>2, <1>3, <1>4, SignalsInTime DEF WaitsItsTime, Due
<1> QED BY <1>5, <1>6, <1>7, <1>8, <1>9, <1>10 DEF WaitsInv, WaitsTypeOK

LEMMA SysTickInv ==
  ASSUME WaitsInv, SysTick
  PROVE  WaitsInv'
<1>1. NumbersOK /\ FlagsOK /\ PlaceOK /\ Counted /\ ByteIsNew /\ WaitsItsTime
  BY Parts
<1>2. /\ t' = t /\ call' = call /\ ms' = ms /\ ret' = ret /\ tick' = (tick + 1) % Ticks
      /\ board' = board /\ input' = input /\ looked' = FALSE /\ Wake
      /\ looked \/ pc \in {"asleep", "return"}
  BY DEF SysTick
<1>3. /\ (Wfi' <=> Wfi) /\ Due' = Due /\ Slack' = Slack /\ Due \in Nat /\ Due + 1 < Ticks /\ Slack \in Nat /\ Ticks \in Nat
      /\ elapsed \in Nat /\ age \in Nat /\ ms \in Nat
  BY <1>1, <1>2, DueFits, SleepKept, WaitsAssumption DEF Due, NumbersOK
<1>4. Resume' = Resume /\ Resume = (IF call = "getchar_timeout" THEN "deadline" ELSE "test")
  BY <1>2 DEF Resume
<1>5. NumbersOK'
  <2>1. Ticks \in Nat \ {0} /\ tick \in 0 .. Ticks - 1 /\ 1 \in 0 .. Ticks
    BY <1>1, WaitsAssumption DEF NumbersOK
  <2>2. (tick + 1) % Ticks \in 0 .. Ticks - 1
    BY <2>1, Advance
  <2>3. elapsed' \in 0 .. Ticks /\ age' \in 0 .. Ticks
    BY <1>1, WaitsAssumption DEF SysTick, NumbersOK, OneMore
  <2> QED BY <1>1, <1>2, <2>2, <2>3 DEF NumbersOK
<1>6. FlagsOK'
  BY <1>1, <1>2 DEF FlagsOK, SysTick, Wake
<1>7. PlaceOK'
  BY <1>1, <1>2, <1>4 DEF PlaceOK, Wake
<1>8. CASE pc = "return"
  <2>1. elapsed' = elapsed /\ age' = age /\ pc' = "return"
    BY <1>1, <1>8, WakesInTime DEF SysTick
  <2>2. Counted' /\ ByteIsNew'
    BY <2>1 DEF Counted, ByteIsNew
  <2>3. WaitsItsTime'
    BY <1>1, <1>2, <1>3, <1>8, <2>1 DEF WaitsItsTime, Due
  <2> QED BY <1>5, <1>6, <1>7, <2>2, <2>3 DEF WaitsInv, WaitsTypeOK
<1>9. CASE pc # "return"
  <2>1. elapsed' = OneMore(elapsed) /\ age' = OneMore(age) /\ pc' # "return"
    BY <1>1, <1>9, WakesInTime DEF SysTick
  <2>2. Counted'
    <3>. SUFFICES ASSUME call \in Timed PROVE Counted'
      BY <1>2 DEF Counted
    <3>1. /\ (tick - t) % Ticks = elapsed /\ elapsed <= Due + Slack
          /\ ~ Wfi \/ looked => elapsed < Due
          /\ ~ looked => pc = "asleep" /\ elapsed <= Due
      BY <1>1, <1>2, <1>3, <1>4, <1>9 DEF Counted
    <3>6. elapsed <= Due
      BY <1>3, <3>1
    <3>7. elapsed + 1 < Ticks
      BY <1>3, <3>6
    <3>2. elapsed + 1 < Ticks /\ elapsed' = elapsed + 1
      BY <1>3, <2>1, <3>7 DEF OneMore
    <3>3. (tick' - t') % Ticks = elapsed'
      <4>1. Ticks \in Nat \ {0} /\ tick \in 0 .. Ticks - 1 /\ t \in 0 .. Ticks - 1
        BY <1>1, WaitsAssumption DEF NumbersOK
      <4> QED BY <1>2, <1>3, <3>1, <3>2, <4>1, TickCounts
    <3>4. elapsed' <= Due' + (IF pc' = Resume' THEN Slack' ELSE 0)
      <4>1. CASE elapsed < Due
        <5>1. elapsed + 1 <= Due + 0 /\ elapsed + 1 <= Due + Slack
          BY <1>3, <4>1
        <5> QED BY <1>3, <3>2, <5>1
      <4>2. CASE ~ (elapsed < Due)
        <5>1. Wfi /\ pc' = Resume'
          BY <1>1, <1>2, <1>4, <3>1, <4>2, WakesInTime DEF PlaceOK
        <5>2. elapsed + 1 <= Due + Slack
          BY <1>3, <3>6, <5>1 DEF Slack
        <5> QED BY <1>3, <3>2, <5>1, <5>2
      <4> QED BY <4>1, <4>2
    <3>5. pc' # "asleep" /\ (~ Wfi' /\ pc' \in {"test", "wfe"} /\ pc' # Resume' => event')
      BY <1>1, <1>2, <1>4, WakesInTime
    <3> QED BY <1>2, <3>3, <3>4, <3>5 DEF Counted
  <2>3. ByteIsNew'
    <3>1. age' <= age + 1 /\ age' \in Nat
      BY <1>3, <2>1, WaitsAssumption DEF OneMore
    <3>. SUFFICES ASSUME call = "getchar_timeout", input, pc' \in {"wfe", "asleep", "deadline"}
                  PROVE  ByteIsNew'
      BY <1>2 DEF ByteIsNew
    <3>2. pc' # "asleep" /\ pc \in {"wfe", "asleep", "deadline"} /\ (pc' = "wfe" => pc = "wfe")
          /\ (pc' = "wfe" => event')
      BY <1>1, <1>2, <1>4, WakesInTime
    <3>3. (looked => age = 0) /\ (pc = "asleep" => age <= Slack)
      BY <1>1, <3>2 DEF ByteIsNew
    <3>4. age <= Slack /\ (pc # "asleep" => age = 0)
      BY <1>2, <1>3, <3>2, <3>3
    <3>5. age' <= 1 + Slack /\ (pc # "asleep" => age' <= 1)
      BY <1>3, <3>1, <3>4
    <3> QED BY <1>2, <1>3, <3>2, <3>5 DEF ByteIsNew
  <2>4. WaitsItsTime'
    BY <2>1 DEF WaitsItsTime
  <2> QED BY <1>5, <1>6, <1>7, <2>2, <2>3, <2>4 DEF WaitsInv, WaitsTypeOK
<1> QED BY <1>8, <1>9

\* Bytes, room and core 1's flag come and go without an effect on the waiter.
LEMMA OthersInv ==
  ASSUME WaitsInv, Arrive \/ Drain \/ SetReady \/ UNCHANGED systemVars
  PROVE  WaitsInv'
<1>1. NumbersOK /\ FlagsOK /\ PlaceOK /\ Counted /\ ByteIsNew /\ WaitsItsTime
  BY Parts
<1>2. /\ elapsed' = elapsed /\ tick' = tick /\ t' = t /\ call' = call /\ ms' = ms /\ ret' = ret
      /\ board' = board /\ looked' = looked /\ pc' = pc /\ event' = event
  BY DEF Arrive, Drain, SetReady, systemVars, waitVars
<1>3. age' = 0 \/ (age' = age /\ input' = input)
  BY DEF Arrive, Drain, SetReady, systemVars
<1>4. (Wfi' <=> Wfi) /\ Due' = Due /\ Slack' = Slack /\ Resume' = Resume /\ Slack \in 0 .. 1
  BY <1>1, <1>2, DueFits, SleepKept DEF Due, Resume
<1>5. NumbersOK'
  BY <1>1, <1>2, <1>3, WaitsAssumption DEF NumbersOK
<1>6. FlagsOK'
  BY <1>1, <1>2 DEF FlagsOK, Arrive, Drain, SetReady, systemVars
<1>7. PlaceOK'
  BY <1>1, <1>2 DEF PlaceOK
<1>8. Counted'
  BY <1>1, <1>2, <1>4 DEF Counted
<1>9. CASE age' = age /\ input' = input
  <2>1. ByteIsNew' /\ WaitsItsTime'
    BY <1>1, <1>2, <1>4, <1>9 DEF ByteIsNew, WaitsItsTime
  <2> QED BY <1>5, <1>6, <1>7, <1>8, <2>1 DEF WaitsInv, WaitsTypeOK
<1>10. CASE age' = 0
  <2>1. age' <= 1 + Slack /\ age' <= Slack /\ age' <= 1
    BY <1>4, <1>10
  <2>2. ByteIsNew'
    BY <1>2, <1>4, <1>10, <2>1 DEF ByteIsNew
  <2>3. WaitsItsTime'
    BY <1>1, <1>2, <1>4, <2>1 DEF WaitsItsTime
  <2> QED BY <1>5, <1>6, <1>7, <1>8, <2>2, <2>3 DEF WaitsInv, WaitsTypeOK
<1> QED BY <1>3, <1>9, <1>10

\* WaitsInv holds in every reachable state: what has passed since the call, and
\* where the core is told of it.
THEOREM WaitsInvariant == WaitsSpec => []WaitsInv
<1>1. WaitsInit => WaitsInv
  BY InitWaits
<1>2. WaitsInv /\ [WaitsNext]_systemVars => WaitsInv'
  <2>. SUFFICES ASSUME WaitsInv, [WaitsNext]_systemVars PROVE WaitsInv'
    OBVIOUS
  <2>1. ASSUME NEW c \in Timed, NEW n \in 0 .. MaxMs, BeginWait(c, n) PROVE WaitsInv'
    BY <2>1, BeginWaitInv DEF Calls
  <2>2. ASSUME NEW c \in {"putchar", "getchar"}, BeginWait(c, 0) PROVE WaitsInv'
    <3>1. c \in Calls /\ 0 \in 0 .. MaxMs
      BY WaitsAssumption DEF Calls
    <3> QED BY <2>2, <3>1, BeginWaitInv
  <2>3. CASE Core0
    BY <2>3, TestInv, DeadlineInv, SleepInv DEF Core0
  <2>4. CASE SysTick
    BY <2>4, SysTickInv
  <2>5. CASE SendEvent
    BY <2>5, SendEventInv
  <2>6. CASE Arrive \/ Drain \/ SetReady \/ UNCHANGED systemVars
    BY <2>6, OthersInv
  <2> QED BY <2>1, <2>2, <2>3, <2>4, <2>5, <2>6 DEF WaitsNext
<1> QED BY <1>1, <1>2, PTL DEF WaitsSpec

\* For every width of the tick: msleep and getchar_timeout wait for what was
\* asked, and a byte that came early is returned and not missed.
THEOREM WaitsTakeTheirTime == WaitsSpec => []WaitsItsTime
<1>1. WaitsInv => WaitsItsTime
  BY DEF WaitsInv
<1> QED BY <1>1, WaitsInvariant, PTL
=============================================================================
