-------------------------------- MODULE Ring --------------------------------
(***************************************************************************)
(* One byte ring of the RP2350 console (os/io_pico2.c): the array, the      *)
(* write counter and the read counter that core 0 and core 1 share without  *)
(* a lock.  The program has two, with the cores in opposite roles:          *)
(*                                                                         *)
(*    rx  producer  task() on core 1, out of the bulk OUT packet buffer     *)
(*        consumer  getchar() and getchar_timeout() on core 0, one byte     *)
(*    tx  producer  console_write() and putchar() on core 0                 *)
(*        consumer  task() on core 1, up to a bulk IN packet at a time      *)
(*                                                                         *)
(* Memory.  Stores and loads of the array complete one by one, in any       *)
(* order, at any time up to the next mb() of the core that issued them, and *)
(* mb() waits for all of them.  A store to a counter is visible at once: a  *)
(* delay of it cannot be told from a core that is slow to execute it.       *)
(*                                                                         *)
(* Counters run freely and wrap with the width of unsigned.                 *)
(***************************************************************************)
EXTENDS Integers, Sequences, FiniteSets

CONSTANTS N,       \* bytes in the array (#define N 64)
          M,       \* values of an unsigned counter (2^32)
          Byte,    \* the values of a byte
          NoByte,  \* marks a load that has not completed
          PutMax,  \* longest buffer given to the producer in one call
          GetMax   \* most bytes the consumer takes at once (1 or 64)

ASSUME RingAssumption ==
  /\ N \in Nat \ {0}
  /\ M \in Nat \ {0}
  /\ M % N = 0 /\ M > N
  /\ 0 \in Byte /\ NoByte \notin Byte
  /\ PutMax \in Nat \ {0} /\ GetMax \in Nat \ {0}

VARIABLES
  buf,       \* the array, rx[] or tx[]
  wr,        \* the producer's counter, rw or tw
  rd,        \* the consumer's counter, rr or tr
  src,       \* producer: the bytes of the current buffer still to be accepted
  putting,   \* producer: bytes of the copy in progress (k, n), 0 if none
  pending,   \* producer: offsets of its stores that are not yet in memory
  dst,       \* consumer: what its loads returned, <<>> when none is in progress
  delivered  \* consumer: the bytes it handed on last

prodVars == <<buf, wr, src, putting, pending>>
consVars == <<rd, dst, delivered>>
vars == <<prodVars, consVars>>

-----------------------------------------------------------------------------

Lesser(a, b) == IF a < b THEN a ELSE b

\* The slot of a counter value: x & (N-1), after unsigned arithmetic.
SlotOf(x) == (x % M) % N

\* Mutant: one byte more room than there is.
RoomAndOne == N - ((wr - rd) % M) + 1

\* Bytes in the ring, tw-tr and w-rr, and the room that leaves, N-(w-rr).
Avail == (wr - rd) % M
Room  == N - Avail

Buffers == UNION {[1 .. n -> Byte] : n \in 1 .. PutMax}

Init ==
  /\ buf = [s \in 0 .. N - 1 |-> 0]
  /\ wr = 0 /\ rd = 0
  /\ src = <<>> /\ putting = 0 /\ pending = {}
  /\ dst = <<>> /\ delivered = <<>>

-----------------------------------------------------------------------------

\* A call of console_write or putchar, or the arrival of an OUT packet.
Begin ==
  /\ src = <<>>
  /\ src' \in Buffers
  /\ UNCHANGED <<buf, wr, putting, pending, consVars>>

\* The loop of stores, once there is room: k bytes, as many as fit.
CopyIn ==
  /\ putting = 0 /\ src # <<>> /\ Room > 0
  /\ putting' = Lesser(Len(src), Room)
  /\ pending' = 0 .. putting' - 1
  /\ UNCHANGED <<buf, wr, src, consVars>>

\* One of those stores reaches memory.
StoreLands(i) ==
  /\ i \in pending
  /\ buf' = [buf EXCEPT ![SlotOf(wr + i)] = src[i + 1]]
  /\ pending' = pending \ {i}
  /\ UNCHANGED <<wr, src, putting, consVars>>

\* mb(); tw = w + k; p += k; n -= k.
PublishWrite ==
  /\ putting > 0 /\ pending = {}
  /\ wr' = (wr + putting) % M
  /\ src' = SubSeq(src, putting + 1, Len(src))
  /\ putting' = 0
  /\ UNCHANGED <<buf, pending, consVars>>

Producer == Begin \/ CopyIn \/ (\E i \in pending : StoreLands(i)) \/ PublishWrite

\* The ring is not empty: mb() and issue the loads.
CopyOut ==
  /\ dst = <<>> /\ Avail > 0
  /\ dst' = [i \in 1 .. Lesser(Avail, GetMax) |-> NoByte]
  /\ UNCHANGED <<rd, delivered, prodVars>>

\* One of those loads completes.
LoadLands(i) ==
  /\ dst[i] = NoByte
  /\ dst' = [dst EXCEPT ![i] = buf[SlotOf(rd + i - 1)]]
  /\ UNCHANGED <<rd, delivered, prodVars>>

\* Mutant: no mb() between the loads and the counter.
PublishReadEarly ==
  /\ dst # <<>>
  /\ rd' = (rd + Len(dst)) % M
  /\ delivered' = dst
  /\ dst' = <<>>
  /\ UNCHANGED prodVars

\* mb(); tr = r + n, and rr = rc in getchar.
PublishRead ==
  /\ dst # <<>>
  /\ \A i \in DOMAIN dst : dst[i] # NoByte
  /\ rd' = (rd + Len(dst)) % M
  /\ delivered' = dst
  /\ dst' = <<>>
  /\ UNCHANGED prodVars

Consumer == CopyOut \/ (\E i \in DOMAIN dst : LoadLands(i)) \/ PublishRead

Next == Producer \/ Consumer

Spec == Init /\ [][Next]_vars

-----------------------------------------------------------------------------

TypeOK ==
  /\ buf \in [0 .. N - 1 -> Byte]
  /\ wr \in 0 .. M - 1 /\ rd \in 0 .. M - 1
  /\ src \in Seq(Byte) /\ Len(src) <= PutMax
  /\ putting \in 0 .. N /\ pending \subseteq 0 .. putting - 1
  /\ dst \in Seq(Byte \cup {NoByte}) /\ Len(dst) <= N
  /\ delivered \in Seq(Byte)

(***************************************************************************)
(* No store of the producer aims at a slot whose byte is still to be read.  *)
(* The producer works from a copy of the read counter that may be old, and  *)
(* its copy of it is in flight while the consumer moves on; this is what    *)
(* keeps console_write from overwriting unsent output and task() from       *)
(* overwriting unread input, across the wrap of the counters.               *)
(***************************************************************************)
NoOverrun ==
  \A i \in 0 .. putting - 1, j \in 0 .. Avail - 1 :
    SlotOf(wr + i) # SlotOf(rd + j)

(***************************************************************************)
(* What makes NoOverrun inductive.  The bytes readable and the bytes being   *)
(* copied in fit in the array together; the consumer works inside the        *)
(* readable part; a store that has landed is still there when the counter    *)
(* that publishes it moves; and a load that has completed returned a byte    *)
(* that has not been overwritten since.                                      *)
(***************************************************************************)
Bounded == Avail + putting <= N /\ putting <= Len(src)

ReadsPublished == Len(dst) <= Avail

Copied == \A i \in (0 .. putting - 1) \ pending :
            buf[SlotOf(wr + i)] = src[i + 1]

Loaded == \A i \in DOMAIN dst :
            dst[i] # NoByte => dst[i] = buf[SlotOf(rd + i - 1)]

RingInv == TypeOK /\ Bounded /\ ReadsPublished /\ Copied /\ Loaded

(***************************************************************************)
(* The ring implements the queue: the bytes between the two counters are    *)
(* the queue, and every byte getchar returns or task() puts in a packet is  *)
(* the oldest one accepted.                                                 *)
(***************************************************************************)
Queue == [i \in 1 .. Avail |-> buf[SlotOf(rd + i - 1)]]

Fifo == INSTANCE ByteFifo WITH Capacity <- N, source <- src, queue <- Queue

ImplementsFifo == Fifo!Spec
=============================================================================
