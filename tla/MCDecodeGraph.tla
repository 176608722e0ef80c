---------------------------- MODULE MCDecodeGraph ----------------------------
(* Instances of DecodeGraph for TLC.                                        *)
EXTENDS DecodeGraph, TLC

CONSTANTS i1, i2, a1, a2

Symmetry == Permutations(Inferences) \cup Permutations(Addrs)
=============================================================================
