----------------------------- MODULE MCShellRelay -----------------------------
(* TLC instances of ShellRelay. *)
EXTENDS ShellRelay

CONSTANTS s1, s2

(* The shell of s1 writes twice, that of s2 never. *)
MCOutput == [s \in Terms |-> IF s = s1 THEN 2 ELSE 0]

(* Bound: two terminals over one connection, or one over two.  No step     *)
(* that is assumed to be taken leads from the one to the other.            *)
OneOrTheOther == conn = 2 => term[s2] = "idle"
===============================================================================
