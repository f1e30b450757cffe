------------------------------- MODULE MCRing -------------------------------
(* AdlakRing for TLC: a ring of a few units, with layers up to its size. *)
EXTENDS AdlakRing
=============================================================================
