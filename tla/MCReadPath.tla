------------------------------ MODULE MCReadPath -----------------------------
(* Instances of ReadPath for TLC. *)
EXTENDS ReadPath, TLC

Symmetry == Permutations(Vals)
=============================================================================
