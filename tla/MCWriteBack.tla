----------------------------- MODULE MCWriteBack -----------------------------
(* Instances of WriteBack for TLC. *)
EXTENDS WriteBack, TLC

Symmetry == Permutations(Handles) \cup Permutations(Vals)
=============================================================================
