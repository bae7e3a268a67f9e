------------------------------- MODULE MCRing -------------------------------
(***************************************************************************)
(* Ring on a small instance: four slots, counters that wrap at eight, both  *)
(* sides moving up to three bytes at a time, two byte values.               *)
(***************************************************************************)
EXTENDS Ring
=============================================================================
