---------------------------- MODULE MCOutputUpload ----------------------------
(* Instances of OutputUpload for TLC. *)
EXTENDS OutputUpload, TLC

TwoParts == 1 .. 2
Symmetry == Permutations(Calls) \cup Permutations(Files)
=============================================================================
