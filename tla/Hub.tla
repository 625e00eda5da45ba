--------------------------------- MODULE Hub ---------------------------------
(***************************************************************************)
(* The in-memory registry of server/internal/hub/hub.go: which connection  *)
(* serves each agent, which terminal sessions exist, and which of them     *)
(* each connection would close when it goes.  Every operator below is one  *)
(* method of Hub, that is one critical section of Hub.mu; the goroutines   *)
(* that call them are in TerminalHub.                                      *)
(***************************************************************************)
CONSTANTS
    Agents,      \* agent ids (rows of the agents table)
    Conns,       \* agent WebSocket connections; each stands for one *AgentConn
    Sessions,    \* terminal session ids (fresh UUIDs, one per Connect call)
    NoConn       \* "no entry" in the agents map

ASSUME NoConnAssumption == NoConn \notin Conns

VARIABLES
    agents,        \* Hub.agents: agent id -> its AgentConn, or NoConn
    sessions,      \* keys of Hub.sessions
    connSessions,  \* AgentConn.sessions of each connection
    hostOf,        \* AgentConn.AgentID: the agent that dials the connection
    target,        \* TerminalSession.AgentID: the agent the session is for
    done           \* TerminalSession.Done: has the channel been closed?

hubVars == <<agents, sessions, connSessions, hostOf, target, done>>

HubTypeOK ==
    /\ agents \in [Agents -> Conns \cup {NoConn}]
    /\ sessions \in SUBSET Sessions
    /\ connSessions \in [Conns -> SUBSET Sessions]
    /\ hostOf \in [Conns -> Agents]
    /\ target \in [Sessions -> Agents]
    /\ done \in [Sessions -> BOOLEAN]

HubInit ==
    /\ agents = [a \in Agents |-> NoConn]
    /\ sessions = {}
    /\ connSessions = [c \in Conns |-> {}]
    /\ hostOf \in [Conns -> Agents]
    /\ target \in [Sessions -> Agents]
    /\ done = [s \in Sessions |-> FALSE]

------------------------------------------------------------------------------
(* The sessions Unregister would close for agent a. *)
IndexedSessions(a) ==
    IF agents[a] = NoConn THEN {} ELSE connSessions[agents[a]]

IsOnline(a) == agents[a] # NoConn

(* Mutant of Register: the agents map made anew. *)
HubRegisterAlone(c) ==
    /\ agents' = [a \in Agents |-> IF a = hostOf[c] THEN c ELSE NoConn]
    /\ connSessions' = [connSessions EXCEPT ![c] = {}]
    /\ UNCHANGED <<sessions, hostOf, target, done>>

(* A fresh AgentConn replaces whatever the agent had. *)
HubRegister(c) ==
    /\ agents' = [agents EXCEPT ![hostOf[c]] = c]
    /\ connSessions' = [connSessions EXCEPT ![c] = {}]
    /\ UNCHANGED <<sessions, hostOf, target, done>>

(* Mutants of Unregister: without the close of Done; closing every session *)
(* of the Hub; deleting the entry inside the loop, so never an empty one.  *)
HubUnregisterSilent(a) ==
    /\ sessions' = sessions \ IndexedSessions(a)
    /\ agents' = [agents EXCEPT ![a] = NoConn]
    /\ UNCHANGED <<connSessions, hostOf, target, done>>

HubUnregisterAll(a) ==
    /\ \A s \in IndexedSessions(a) : ~done[s]
    /\ done' = [s \in Sessions |-> done[s] \/ s \in sessions]
    /\ sessions' = {}
    /\ agents' = [agents EXCEPT ![a] = NoConn]
    /\ UNCHANGED <<connSessions, hostOf, target>>

HubUnregisterInLoop(a) ==
    /\ \A s \in IndexedSessions(a) : ~done[s]
    /\ done' = [s \in Sessions |-> done[s] \/ s \in IndexedSessions(a)]
    /\ sessions' = sessions \ IndexedSessions(a)
    /\ agents' = IF IndexedSessions(a) = {} THEN agents
                 ELSE [agents EXCEPT ![a] = NoConn]
    /\ UNCHANGED <<connSessions, hostOf, target>>

(* Unregister when it runs to its end: the agent's current entry goes, and *)
(* with it every session indexed there.  It is given an agent id, not a    *)
(* connection: the entry may be another connection's.                      *)
HubUnregister(a) ==
    /\ \A s \in IndexedSessions(a) : ~done[s]
    /\ done' = [s \in Sessions |-> done[s] \/ s \in IndexedSessions(a)]
    /\ sessions' = sessions \ IndexedSessions(a)
    /\ agents' = [agents EXCEPT ![a] = NoConn]
    /\ UNCHANGED <<connSessions, hostOf, target>>

(* Unregister when it meets a session whose Done is already closed: the    *)
(* close panics after an arbitrary part of the map has been visited, and   *)
(* the entry of the agent is never deleted.                                *)
HubUnregisterPanics(a) ==
    /\ \E s \in IndexedSessions(a) : done[s]
    /\ \E visited \in SUBSET {s \in IndexedSessions(a) : ~done[s]} :
          /\ done' = [s \in Sessions |-> done[s] \/ s \in visited]
          /\ sessions' = sessions \ visited
    /\ UNCHANGED <<agents, connSessions, hostOf, target>>

HubAddSession(s) ==
    /\ sessions' = sessions \cup {s}
    /\ connSessions' = IF IsOnline(target[s])
                       THEN [connSessions EXCEPT ![agents[target[s]]] = @ \cup {s}]
                       ELSE connSessions
    /\ UNCHANGED <<agents, hostOf, target, done>>

(* Mutants of RemoveSession: nothing removed while the agent is offline;   *)
(* the agent's whole index dropped; the index forgotten.                   *)
HubRemoveIfOnline(s) ==
    /\ sessions' = IF IsOnline(target[s]) THEN sessions \ {s} ELSE sessions
    /\ connSessions' = IF s \in sessions /\ IsOnline(target[s])
                       THEN [connSessions EXCEPT ![agents[target[s]]] = @ \ {s}]
                       ELSE connSessions
    /\ UNCHANGED <<agents, hostOf, target, done>>

HubRemoveDropsIndex(s) ==
    /\ sessions' = sessions \ {s}
    /\ connSessions' = IF s \in sessions /\ IsOnline(target[s])
                       THEN [connSessions EXCEPT ![agents[target[s]]] = {}]
                       ELSE connSessions
    /\ UNCHANGED <<agents, hostOf, target, done>>

HubRemoveKeepsIndex(s) ==
    /\ sessions' = sessions \ {s}
    /\ UNCHANGED <<agents, connSessions, hostOf, target, done>>

HubRemoveSession(s) ==
    /\ sessions' = sessions \ {s}
    /\ connSessions' = IF s \in sessions /\ IsOnline(target[s])
                       THEN [connSessions EXCEPT ![agents[target[s]]] = @ \ {s}]
                       ELSE connSessions
    /\ UNCHANGED <<agents, hostOf, target, done>>

(* close(sess.Done) by a goroutine that has just found it open. *)
CloseDone(s) ==
    /\ done' = [done EXCEPT ![s] = TRUE]
    /\ UNCHANGED <<agents, sessions, connSessions, hostOf, target>>

(* hub.New() of the next process: the maps are empty. *)
HubReset ==
    /\ agents' = [a \in Agents |-> NoConn]
    /\ sessions' = {}
    /\ connSessions' = [c \in Conns |-> {}]
    /\ UNCHANGED <<hostOf, target, done>>
==============================================================================
