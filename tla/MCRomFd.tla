------------------------------ MODULE MCRomFd ------------------------------
(* Two descriptors beside the console; a file that ends where long does    *)
(* and one too large to open; calls on descriptors of each kind, on closed    *)
(* ones and on numbers that are none.                                        *)
EXTENDS RomFd

MCSize == [f \in File |-> IF f = "long" THEN LongMax ELSE LongMax + 1]
MCFds == -1 .. NFD
MCOffsets == -LongMax - 1 .. LongMax
=============================================================================
