------------------------------- MODULE MCHeap -------------------------------
(* Instances of Heap: two pools, of two slots of one word and of one slot of *)
(* three, and a heap of eight words; three pointers; requests that are       *)
(* rounded up, that fill what is free, that do not fit, and that wrap around *)
(* size_t when they are rounded or multiplied.                               *)
EXTENDS Heap, TLC

MCPools == <<[size |-> 1, n |-> 2, base |-> 0], [size |-> 3, n |-> 1, base |-> 2]>>
MCSymmetry == Permutations(Client)
MCSizeMax == 127
MCBytes == {1, 12, 24, 40, MCSizeMax - 2}
MCArrays == {<<3, 8>>, <<8, 17>>, <<5, 25>>}
=============================================================================
