------------------------------- MODULE MCDirOps -------------------------------
(* Instances of DirOps for TLC. *)
EXTENDS DirOps, TLC

Symmetry == Permutations(DirNames) \cup Permutations(FileNames) \cup Permutations(Handles)
=============================================================================
