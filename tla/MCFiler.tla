------------------------------- MODULE MCFiler -------------------------------
(* Instances of Filer for TLC. *)
EXTENDS Filer, TLC

Symmetry == Permutations(Vals) \cup Permutations(Requests)

\* What an inode holds that nothing leads to makes no difference, nor what a muddled
\* one is meant to hold.
LiveView ==
  LET live  == Inodes \ Free
      sound == live \ muddled
  IN <<dir, diskDir, req, accepted, muddled \cap live, patched \cap live,
       [i \in live |-> <<data[i], diskData[i]>>], [i \in sound |-> ideal[i]]>>
=============================================================================
