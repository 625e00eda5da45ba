---------------------------- MODULE AgentDirectory ----------------------------
(***************************************************************************)
(* What the agents table and the Hub promise together about the numbers of *)
(* agents, with neither handshakes nor SQL.  A number is issued once, to   *)
(* one host, and the next one is the least that was never issued.  A host  *)
(* may be issued several.  A number is listed from its issue to its        *)
(* removal and never again; listed or removed, what is sent to it reaches  *)
(* the host it was issued to, or nobody.  A browser may keep a number as   *)
(* long as it likes.  A server that goes down forgets who is connected and *)
(* nothing else.                                                           *)
(***************************************************************************)
EXTENDS Naturals

CONSTANTS Owners, Nobody, Limit

VARIABLES
    issued,   \* whom each number was issued to
    listed,   \* the numbers in the list of agents
    reached,  \* whom a request to each number reaches
    kept,     \* the numbers browsers have kept, with their hosts
    up        \* is there a server?

directoryVars == <<issued, listed, reached, kept, up>>

Numbers == 1 .. Limit

Init ==
    /\ issued = [n \in Numbers |-> Nobody]
    /\ listed = {}
    /\ reached = [n \in Numbers |-> Nobody]
    /\ kept = {}
    /\ up = TRUE

Issue(n, o) ==
    /\ up
    /\ issued[n] = Nobody
    /\ \A m \in 1 .. n - 1 : issued[m] # Nobody
    /\ issued' = [issued EXCEPT ![n] = o]
    /\ listed' = listed \cup {n}
    /\ UNCHANGED <<reached, kept, up>>

Remove(n) ==
    /\ up
    /\ n \in listed
    /\ listed' = listed \ {n}
    /\ UNCHANGED <<issued, reached, kept, up>>

Keep(n) ==
    /\ up
    /\ n \in listed
    /\ kept' = kept \cup {[id |-> n, host |-> issued[n]]}
    /\ UNCHANGED <<issued, listed, reached, up>>

Connect(n) ==
    /\ up
    /\ issued[n] # Nobody
    /\ reached' = [reached EXCEPT ![n] = issued[n]]
    /\ UNCHANGED <<issued, listed, kept, up>>

Disconnect(n) ==
    /\ up
    /\ reached' = [reached EXCEPT ![n] = Nobody]
    /\ UNCHANGED <<issued, listed, kept, up>>

Crash ==
    /\ up
    /\ up' = FALSE
    /\ reached' = [n \in Numbers |-> Nobody]
    /\ UNCHANGED <<issued, listed, kept>>

Restart == ~up /\ up' = TRUE /\ UNCHANGED <<issued, listed, reached, kept>>

Next ==
    \/ \E n \in Numbers :
          \/ \E o \in Owners : Issue(n, o)
          \/ Remove(n) \/ Keep(n) \/ Connect(n) \/ Disconnect(n)
    \/ Crash \/ Restart

Spec == Init /\ [][Next]_directoryVars
===============================================================================
