----------------------------- MODULE MCAgentStore -----------------------------
(* TLC instances of AgentStore. *)
EXTENDS AgentStore, TLC

Symmetry == Permutations(Hosts) \cup Permutations(Conns)
==============================================================================
