---------------------------- MODULE MCFileRequests ----------------------------
(* TLC instances of FileRequests. *)
EXTENDS FileRequests, TLC

Symmetry == Permutations(Lists) \cup Permutations(Downloads) \cup Permutations(Changes)
==============================================================================
