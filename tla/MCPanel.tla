------------------------------ MODULE MCPanel ------------------------------
(* Instances of Panel for TLC. *)
EXTENDS Panel, TLC

Symmetry == Permutations(Addrs)
=============================================================================
