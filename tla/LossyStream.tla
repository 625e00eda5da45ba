----------------------------- MODULE LossyStream -----------------------------
(***************************************************************************)
(* What a terminal is promised of its shell's output, with neither queues  *)
(* nor connections: the pieces, and the mark that ends them, are numbered  *)
(* as the shell writes them; each of them may be lost on the way, also all *)
(* of them; none is shown twice, and none overtakes another while the      *)
(* terminal's line is intact.  A line that has broken may carry what is    *)
(* left over in any order.                                                 *)
(***************************************************************************)
EXTENDS Naturals, Sequences

CONSTANTS
    Terminals,
    Limit      \* how many pieces each shell writes

VARIABLES
    stage,     \* "new", "open" or "over"
    line,      \* "new", "intact" or "broken"
    written,   \* how many pieces and marks the shell has written
    way,       \* those of them that may still arrive
    shown      \* what the terminal has shown

streamVars == <<stage, line, written, way, shown>>

Init ==
    /\ stage = [t \in Terminals |-> "new"]
    /\ line = [t \in Terminals |-> "new"]
    /\ written = [t \in Terminals |-> 0]
    /\ way = [t \in Terminals |-> {}]
    /\ shown = [t \in Terminals |-> <<>>]

Open(t) ==
    /\ stage[t] = "new"
    /\ stage' = [stage EXCEPT ![t] = "open"]
    /\ \E l \in {"intact", "broken"} : line' = [line EXCEPT ![t] = l]
    /\ UNCHANGED <<written, way, shown>>

Close(t) ==
    /\ stage[t] = "open"
    /\ stage' = [stage EXCEPT ![t] = "over"]
    /\ UNCHANGED <<line, written, way, shown>>

(* The shell writes number n, which sets out or is lost at once. *)
Put(t, n) ==
    /\ stage[t] # "new"
    /\ written' = [written EXCEPT ![t] = n + 1]
    /\ way' \in {way, [way EXCEPT ![t] = @ \cup {n}]}
    /\ UNCHANGED <<stage, line, shown>>

Write(t) == written[t] < Limit[t] /\ Put(t, written[t])

Finish(t) == written[t] <= Limit[t] /\ Put(t, Limit[t])

(* Lines break, and pieces of any terminals are lost. *)
Lose ==
    /\ way' \in [Terminals -> SUBSET Nat]
    /\ \A t \in Terminals : way'[t] \subseteq way[t]
    /\ \E T \in SUBSET {t \in Terminals : line[t] = "intact"} :
          line' = [t \in Terminals |-> IF t \in T THEN "broken" ELSE line[t]]
    /\ UNCHANGED <<stage, written, shown>>

Show(t) ==
    /\ stage[t] = "open"
    /\ \E n \in way[t] :
          /\ line[t] = "intact" => \A k \in way[t] : n <= k
          /\ shown' = [shown EXCEPT ![t] = Append(@, n)]
          /\ way' = [way EXCEPT ![t] = @ \ {n}]
    /\ UNCHANGED <<stage, line, written>>

Next ==
    \/ \E t \in Terminals : Open(t) \/ Close(t) \/ Write(t) \/ Finish(t) \/ Show(t)
    \/ Lose

Spec == Init /\ [][Next]_streamVars

==============================================================================
