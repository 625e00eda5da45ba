----------------------------- MODULE MCFilePanel -----------------------------
(* TLC instances of FilePanel. *)
EXTENDS FilePanel, TLC

OneDirectory == {<<>>, <<"d">>}

Symmetry == Permutations(Agents)
==============================================================================
