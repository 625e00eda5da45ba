---------------------------- MODULE MCTerminalHub ----------------------------
(* TLC instances of TerminalHub. *)
EXTENDS TerminalHub, TLC

Symmetry == Permutations(Agents) \cup Permutations(Conns) \cup Permutations(Sessions)
==============================================================================
