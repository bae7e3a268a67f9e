------------------------------ MODULE ByteFifo ------------------------------
(***************************************************************************)
(* What one direction of the PerlOS console promises: a bounded queue of   *)
(* bytes between two cores.  The producer holds a buffer it was asked to    *)
(* send, moves a prefix of it into the queue whenever there is room, and    *)
(* the consumer takes a prefix of the queue.  Nothing is lost, repeated,    *)
(* reordered or invented, and the queue never holds more than Capacity      *)
(* bytes.                                                                  *)
(*                                                                         *)
(* Ring.tla is the implementation: an array, two wrapping counters and      *)
(* memory accesses that complete in any order between two barriers.         *)
(***************************************************************************)
EXTENDS Naturals, Sequences

CONSTANTS Byte,      \* the values of a byte
          Capacity,  \* the most bytes the queue holds
          PutMax     \* the longest buffer handed to the producer

VARIABLES source,    \* what is left of the buffer the producer is sending
          queue,     \* the bytes accepted and not yet delivered, oldest first
          delivered  \* the bytes the consumer took last

vars == <<source, queue, delivered>>

Chunks == UNION {[1 .. n -> Byte] : n \in 1 .. PutMax}

Init == source = <<>> /\ queue = <<>> /\ delivered = <<>>

\* A caller hands the producer a new buffer once the last one is all accepted.
Offer == /\ source = <<>>
         /\ source' \in Chunks
         /\ UNCHANGED <<queue, delivered>>

\* The queue accepts a prefix of the buffer that fits.
Put == \E k \in 1 .. Len(source) :
         /\ Len(queue) + k <= Capacity
         /\ queue' = queue \o SubSeq(source, 1, k)
         /\ source' = SubSeq(source, k + 1, Len(source))
         /\ UNCHANGED delivered

\* The consumer takes the oldest bytes.
Get == \E k \in 1 .. Len(queue) :
         /\ delivered' = SubSeq(queue, 1, k)
         /\ queue' = SubSeq(queue, k + 1, Len(queue))
         /\ UNCHANGED source

Next == Offer \/ Put \/ Get

Spec == Init /\ [][Next]_vars
=============================================================================
