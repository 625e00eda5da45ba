--------------------------- MODULE TerminalService ---------------------------
(***************************************************************************)
(* What the server promises about a terminal, with neither connections nor *)
(* goroutines.  A terminal is listed when it is entered, and from then on  *)
(* it can receive output; it is told to stop at most once, and only for a  *)
(* cause of its own: its browser left, its shell ended, or its agent lost  *)
(* a connection.  The server takes it from the list behind its back only   *)
(* by telling it in the same moment, it ends only when it has been told or *)
(* its browser has left, and it never comes back.  What the server does    *)
(* not promise is to survive: a terminal that is told while its browser    *)
(* leaves may end them all.                                                *)
(***************************************************************************)
CONSTANTS Terminals, Owners

VARIABLES
    owner,    \* the agent of each terminal
    stage,    \* "new", "listed", "unlisted" or "over"
    told,     \* has it been told to stop?
    causes,   \* what has happened that may stop it
    up        \* is there a server?

serviceVars == <<owner, stage, told, causes, up>>

Causes == {"browser", "shell", "agent"}

Init ==
    /\ owner \in [Terminals -> Owners]
    /\ stage = [t \in Terminals |-> "new"]
    /\ told = [t \in Terminals |-> FALSE]
    /\ causes = [t \in Terminals |-> {}]
    /\ up = TRUE

(* Causes arise at any time and do not go away. *)
Arise ==
    /\ causes' \in [Terminals -> SUBSET Causes]
    /\ \A t \in Terminals : causes[t] \subseteq causes'[t]

Happen == Arise /\ UNCHANGED <<owner, stage, told, up>>

Move(t, from, to) ==
    /\ up
    /\ stage[t] \in from
    /\ stage' = [stage EXCEPT ![t] = to]

Enter(t) == Move(t, {"new"}, "listed") /\ UNCHANGED <<owner, told, causes, up>>

Reject(t) == Move(t, {"new"}, "over") /\ UNCHANGED <<owner, told, causes, up>>

(* Maybe after its end, but never twice. *)
Tell(t) ==
    /\ up
    /\ stage[t] # "new"
    /\ ~told[t]
    /\ causes[t] # {}
    /\ told' = [told EXCEPT ![t] = TRUE]
    /\ UNCHANGED <<owner, stage, causes, up>>

(* A connection of agent a ends, and terminals of a with it. *)
Disconnect(a) ==
    /\ up
    /\ \E T \in SUBSET {t \in Terminals : owner[t] = a /\ stage[t] = "listed" /\ ~told[t]} :
          /\ told' = [t \in Terminals |-> told[t] \/ t \in T]
          /\ stage' = [t \in Terminals |-> IF t \in T THEN "unlisted" ELSE stage[t]]
    /\ causes' = [t \in Terminals |->
                     IF owner[t] = a THEN causes[t] \cup {"agent"} ELSE causes[t]]
    /\ UNCHANGED <<owner, up>>

End(t) ==
    /\ Move(t, {"listed", "unlisted"}, "over")
    /\ told[t] \/ "browser" \in causes[t]
    /\ causes' = [causes EXCEPT ![t] = @ \cup {"browser"}]
    /\ UNCHANGED <<owner, told, up>>

(* All terminals end with the server; one not yet entered may be left out. *)
Crash ==
    /\ up
    /\ \E t \in Terminals : stage[t] # "new" /\ told[t] /\ "browser" \in causes[t]
    /\ up' = FALSE
    /\ \E T \in SUBSET {t \in Terminals : stage[t] = "new"} :
          stage' = [t \in Terminals |-> IF t \in T THEN "new" ELSE "over"]
    /\ Arise
    /\ UNCHANGED <<owner, told>>

Restart == ~up /\ up' = TRUE /\ UNCHANGED <<owner, stage, told, causes>>

Next ==
    \/ Happen
    \/ \E t \in Terminals : Enter(t) \/ Reject(t) \/ Tell(t) \/ End(t)
    \/ \E a \in Owners : Disconnect(a)
    \/ Crash \/ Restart

Spec == Init /\ [][Next]_serviceVars
==============================================================================
