------------------------------ MODULE AgentStore ------------------------------
(***************************************************************************)
(* The agents table (server/internal/db/db.go), how the handshake and the  *)
(* end of AgentWSHandler.Connect use it (handler/agent_ws.go), the Delete  *)
(* of handler/agents.go, and the browser tabs that keep an agent's id      *)
(* (frontend store/tabs.ts).                                               *)
(*                                                                         *)
(* SetMaxOpenConns(1) makes one SQL statement at a time one step; no       *)
(* transaction joins two.  The table survives the server process, the      *)
(* handlers and the Hub's map of connections do not.  What the Hub does    *)
(* with its sessions is in TerminalHub.                                    *)
(***************************************************************************)
EXTENDS Naturals

CONSTANTS
    Hosts,    \* hostname and ip, as an agent's register message gives them
    Conns,    \* agent connections, used once each
    NoHost,   \* "no such row"
    NoConn,   \* "no entry" in the Hub
    MaxId     \* bound: rows inserted

ASSUME NoHostAssumption == NoHost \notin Hosts
ASSUME NoConnAssumption == NoConn \notin Conns
ASSUME MaxIdAssumption == MaxId \in Nat

Ids == 1 .. MaxId

VARIABLES
    hostOf,    \* the host that dials each connection
    table,     \* the host of each row
    status,    \* the status column
    lastId,    \* AUTOINCREMENT's counter
    handler,   \* where AgentWSHandler.Connect stands with each connection
    idOf,      \* the agent id UpsertAgent gave it, 0 before
    link,      \* the network connection under it
    hub,       \* Hub.agents
    tabs,      \* the browsers' tabs, each with an agent id
    server     \* is the server process up?

dbVars == <<table, status, lastId>>
connVars == <<handler, idOf, link, hub>>
envVars == <<hostOf, tabs, server>>
vars == <<dbVars, connVars, envVars>>

Active == {"selecting", "inserting", "updating", "registering", "serving",
           "leaving", "marking"}

TypeOK ==
    /\ hostOf \in [Conns -> Hosts]
    /\ table \in [Ids -> Hosts \cup {NoHost}]
    /\ status \in [Ids -> {"online", "offline"}]
    /\ lastId \in 0 .. MaxId
    /\ handler \in [Conns -> {"idle", "closed"} \cup Active]
    /\ idOf \in [Conns -> 0 .. MaxId]
    /\ link \in [Conns -> {"none", "up", "down"}]
    /\ hub \in [Ids -> Conns \cup {NoConn}]
    /\ tabs \in SUBSET [id : Ids, host : Hosts]
    /\ server \in {"up", "down"}

Init ==
    /\ hostOf \in [Conns -> Hosts]
    /\ table = [i \in Ids |-> NoHost]
    /\ status = [i \in Ids |-> "offline"]
    /\ lastId = 0
    /\ handler = [c \in Conns |-> "idle"]
    /\ idOf = [c \in Conns |-> 0]
    /\ link = [c \in Conns |-> "none"]
    /\ hub = [i \in Ids |-> NoConn]
    /\ tabs = {}
    /\ server = "up"

RowsOf(h) == {i \in Ids : table[i] = h}

(* UPDATE agents SET status=? WHERE id=? *)
SetStatus(i, s) ==
    status' = IF table[i] = NoHost THEN status ELSE [status EXCEPT ![i] = s]

Move(c, from, to) ==
    /\ handler[c] = from
    /\ handler' = [handler EXCEPT ![c] = to]

Hangup(c) == link' = [link EXCEPT ![c] = "down"]

------------------------------------------------------------------------------
(* The handshake.                                                          *)

(* The agent holds one connection at a time; the server may not have seen  *)
(* the end of the last one.                                                *)
Dial(c) ==
    /\ server = "up"
    /\ \A d \in Conns : hostOf[d] = hostOf[c] => link[d] # "up"
    /\ Move(c, "idle", "selecting")
    /\ link' = [link EXCEPT ![c] = "up"]
    /\ UNCHANGED <<dbVars, idOf, hub, envVars>>

LinkBreaks(c) ==
    /\ link[c] = "up"
    /\ Hangup(c)
    /\ UNCHANGED <<dbVars, handler, idOf, hub, envVars>>

(* Mutant: a row of any host with that hostname. *)
SelectFindsAny(c) ==
    /\ Move(c, "selecting", "updating")
    /\ \E i \in Ids : table[i] # NoHost /\ idOf' = [idOf EXCEPT ![c] = i]
    /\ UNCHANGED <<dbVars, link, hub, envVars>>

(* UpsertAgent's SELECT; SQL does not say which of several rows is first.  *)
SelectFinds(c) ==
    /\ Move(c, "selecting", "updating")
    /\ \E i \in RowsOf(hostOf[c]) : idOf' = [idOf EXCEPT ![c] = i]
    /\ UNCHANGED <<dbVars, link, hub, envVars>>

SelectFindsNone(c) ==
    /\ RowsOf(hostOf[c]) = {}
    /\ Move(c, "selecting", "inserting")
    /\ UNCHANGED <<dbVars, idOf, link, hub, envVars>>

(* Mutant: without AUTOINCREMENT the id of a deleted last row is used again. *)
InsertReusing(c) ==
    /\ Move(c, "inserting", "registering")
    /\ \E i \in Ids :
          /\ \A j \in Ids : table[j] # NoHost => j < i
          /\ table' = [table EXCEPT ![i] = hostOf[c]]
          /\ status' = [status EXCEPT ![i] = "online"]
          /\ idOf' = [idOf EXCEPT ![c] = i]
          /\ lastId' = IF i > lastId THEN i ELSE lastId
    /\ UNCHANGED <<link, hub, envVars>>

(* Mutant: the new row's id is not taken over from the result. *)
InsertForgetsId(c) ==
    /\ lastId < MaxId
    /\ Move(c, "inserting", "registering")
    /\ lastId' = lastId + 1
    /\ table' = [table EXCEPT ![lastId + 1] = hostOf[c]]
    /\ status' = [status EXCEPT ![lastId + 1] = "online"]
    /\ UNCHANGED <<idOf, link, hub, envVars>>

(* UpsertAgent's INSERT, whatever has been inserted since the SELECT. *)
Insert(c) ==
    /\ lastId < MaxId
    /\ Move(c, "inserting", "registering")
    /\ lastId' = lastId + 1
    /\ table' = [table EXCEPT ![lastId + 1] = hostOf[c]]
    /\ status' = [status EXCEPT ![lastId + 1] = "online"]
    /\ idOf' = [idOf EXCEPT ![c] = lastId + 1]
    /\ UNCHANGED <<link, hub, envVars>>

(* Mutant: the UPDATE as an upsert of its own. *)
UpdateOrInsert(c) ==
    /\ Move(c, "updating", "registering")
    /\ table' = [table EXCEPT ![idOf[c]] = hostOf[c]]
    /\ status' = [status EXCEPT ![idOf[c]] = "online"]
    /\ UNCHANGED <<lastId, idOf, link, hub, envVars>>

(* UpsertAgent's UPDATE; it reports no error when the row has gone. *)
Update(c) ==
    /\ Move(c, "updating", "registering")
    /\ SetStatus(idOf[c], "online")
    /\ UNCHANGED <<table, lastId, idOf, link, hub, envVars>>

(* A statement fails: the server hangs up. *)
DbFails(c) ==
    /\ \E at \in {"selecting", "inserting", "updating"} : Move(c, at, "closed")
    /\ Hangup(c)
    /\ UNCHANGED <<dbVars, idOf, hub, envVars>>

Register(c) ==
    /\ Move(c, "registering", "serving")
    /\ hub' = [hub EXCEPT ![idOf[c]] = c]
    /\ UNCHANGED <<dbVars, idOf, link, envVars>>

------------------------------------------------------------------------------
(* The end of a connection: Unregister, UpdateAgentStatus, Close.          *)

(* ReadMessage fails on a broken link, and the close of a terminal's Done  *)
(* may panic on any.                                                       *)
LoopEnds(c) ==
    /\ Move(c, "serving", "leaving")
    /\ UNCHANGED <<dbVars, idOf, link, hub, envVars>>

Unregister(c) ==
    /\ Move(c, "leaving", "marking")
    /\ hub' = [hub EXCEPT ![idOf[c]] = NoConn]
    /\ UNCHANGED <<dbVars, idOf, link, envVars>>

(* Mutant: no WHERE. *)
MarkAllOffline(c) ==
    /\ Move(c, "marking", "closed")
    /\ Hangup(c)
    /\ status' = [i \in Ids |-> "offline"]
    /\ UNCHANGED <<table, lastId, idOf, hub, envVars>>

MarkOffline(c) ==
    /\ Move(c, "marking", "closed")
    /\ Hangup(c)
    /\ SetStatus(idOf[c], "offline")
    /\ UNCHANGED <<table, lastId, idOf, hub, envVars>>

(* Unregister panics on a Done that was closed before, and the entry       *)
(* stays; or UpdateAgentStatus fails, which nobody looks at.               *)
Unmarked(c) ==
    /\ \E at \in {"leaving", "marking"} : Move(c, at, "closed")
    /\ Hangup(c)
    /\ UNCHANGED <<dbVars, idOf, hub, envVars>>

------------------------------------------------------------------------------
(* The agents API and the tabs.                                            *)

(* AgentHandler.Delete: the row goes, a connection of the agent stays. *)
Delete(i) ==
    /\ server = "up"
    /\ table[i] # NoHost
    /\ table' = [table EXCEPT ![i] = NoHost]
    /\ UNCHANGED <<status, lastId, connVars, envVars>>

(* The list shows a row and the user opens a tab for it, which is never    *)
(* told when the row goes.                                                 *)
OpenTab(i) ==
    /\ server = "up"
    /\ table[i] # NoHost
    /\ tabs' = tabs \cup {[id |-> i, host |-> table[i]]}
    /\ UNCHANGED <<dbVars, connVars, hostOf, server>>

------------------------------------------------------------------------------
(* The server process.                                                     *)

Crash ==
    /\ server = "up"
    /\ server' = "down"
    /\ hub' = [i \in Ids |-> NoConn]
    /\ handler' = [c \in Conns |-> IF handler[c] \in Active THEN "closed" ELSE handler[c]]
    /\ link' = [c \in Conns |-> IF link[c] = "up" THEN "down" ELSE link[c]]
    /\ UNCHANGED <<dbVars, idOf, hostOf, tabs>>

(* Mutant: the migration makes the table anew. *)
RestartAnew ==
    /\ server = "down"
    /\ server' = "up"
    /\ table' = [i \in Ids |-> NoHost]
    /\ status' = [i \in Ids |-> "offline"]
    /\ lastId' = 0
    /\ UNCHANGED <<connVars, hostOf, tabs>>

(* The migration that runs at the start creates what does not exist. *)
Restart ==
    /\ server = "down"
    /\ server' = "up"
    /\ UNCHANGED <<dbVars, connVars, hostOf, tabs>>

------------------------------------------------------------------------------
ConnStep(c) ==
    \/ Dial(c) \/ LinkBreaks(c)
    \/ SelectFinds(c) \/ SelectFindsNone(c) \/ Insert(c) \/ Update(c) \/ DbFails(c)
    \/ Register(c) \/ LoopEnds(c) \/ Unregister(c) \/ MarkOffline(c) \/ Unmarked(c)

Next ==
    \/ \E c \in Conns : ConnStep(c)
    \/ \E i \in Ids : Delete(i) \/ OpenTab(i)
    \/ Crash \/ Restart

Spec == Init /\ [][Next]_vars

------------------------------------------------------------------------------
(* Safety.                                                                 *)

(* A tab opened for a host never reaches another one, however old it is:   *)
(* whatever rows were deleted and hosts registered since, the connection   *)
(* the Hub has under its id is its host's (db.go:123-142, hub.go:80-85).   *)
TabReachesItsHost ==
    \A t \in tabs : hub[t.id] # NoConn => hostOf[hub[t.id]] = t.host

(* The row a connection works with is its host's or has been deleted: no   *)
(* status or time is written to another agent's row (agent_ws.go:76-100).  *)
RowIsOwn ==
    \A c \in Conns : idOf[c] # 0 => table[idOf[c]] \in {hostOf[c], NoHost}

(* A connected agent's row says "offline" only because of another          *)
(* connection of the same host that has ended since (agent_ws.go:77-80).   *)
StatusLostToSameHost ==
    \A c \in Conns :
        /\ handler[c] \in {"registering", "serving"}
        /\ table[idOf[c]] # NoHost
        /\ status[idOf[c]] = "offline"
        => \E d \in Conns \ {c} : hostOf[d] = hostOf[c] /\ handler[d] = "closed"

(* A deleted row does not come back, not even when the deletion falls into *)
(* a handshake between SELECT and UPDATE (db.go:123-160, agents.go:38-49). *)
DeletedStaysDeleted ==
    [][\A i \in Ids : i <= lastId /\ table[i] = NoHost => table'[i] = NoHost]_vars

------------------------------------------------------------------------------
(* The invariant behind the safety properties.                             *)

(* Ids are given out once, by lastId. *)
IdsGivenOnce ==
    /\ \A i \in Ids : table[i] # NoHost => i <= lastId
    /\ \A c \in Conns : idOf[c] <= lastId
    /\ \A t \in tabs : t.id <= lastId

(* Every connection and every tab with an id has it for the same host. *)
TabOwned ==
    \A t \in tabs :
        /\ table[t.id] \in {t.host, NoHost}
        /\ \A c \in Conns : idOf[c] = t.id => hostOf[c] = t.host

(* The Hub has a connection under the id that UpsertAgent gave it. *)
EntryOwned ==
    /\ \A i \in Ids : hub[i] # NoConn =>
          idOf[hub[i]] = i /\ handler[hub[i]] \in {"serving", "leaving", "marking", "closed"}
    /\ \A c \in Conns :
          handler[c] \in {"updating", "registering", "serving", "leaving", "marking"}
              => idOf[c] # 0

IInv ==
    /\ TypeOK
    /\ IdsGivenOnce
    /\ RowIsOwn
    /\ TabOwned
    /\ EntryOwned
    /\ StatusLostToSameHost

------------------------------------------------------------------------------
(* AgentDirectory has who was ever issued a number, which the table does   *)
(* not say of a deleted row.  It can be read off the connections: every    *)
(* number has one it was inserted for, all that have it are of one host,   *)
(* and none has another one later.                                         *)
NumbersOwned ==
    /\ \A c, d \in Conns : idOf[c] = idOf[d] /\ idOf[c] # 0 => hostOf[c] = hostOf[d]
    /\ \A i \in 1 .. lastId : \E c \in Conns : idOf[c] = i
    /\ \A c \in Conns : handler[c] \in {"idle", "selecting", "inserting"} => idOf[c] = 0

(* A server that is down has no handlers and no Hub. *)
DownIsIdle ==
    server = "down" =>
        /\ \A c \in Conns : handler[c] \notin Active
        /\ \A i \in Ids : hub[i] = NoConn

(* The invariant the refinement below is proved from. *)
DirectoryInv == IInv /\ NumbersOwned /\ DownIsIdle

IssuedTo(i) ==
    IF \E c \in Conns : idOf[c] = i
    THEN hostOf[CHOOSE c \in Conns : idOf[c] = i]
    ELSE NoHost

Reached(i) == IF hub[i] = NoConn THEN NoHost ELSE hostOf[hub[i]]

Directory == INSTANCE AgentDirectory WITH
    Owners <- Hosts,
    Nobody <- NoHost,
    Limit <- MaxId,
    issued <- [i \in Ids |-> IssuedTo(i)],
    listed <- {i \in Ids : table[i] # NoHost},
    reached <- [i \in Ids |-> Reached(i)],
    kept <- tabs,
    up <- server = "up"

(* The table and the Hub together are a directory of numbers: no handshake *)
(* that overlaps another one, no deletion in the middle of it, no end of a *)
(* connection that nobody notices and no crash lets a number come back or  *)
(* reach a host it was not issued to (db.go:123-160, agent_ws.go:68-80,    *)
(* agents.go:38-49).                                                       *)
DirectoryAsPromised == Directory!Spec

------------------------------------------------------------------------------
(* db.go:21 "self-registers on connect, identified by hostname+ip": a host *)
(* has one row.                                                            *)
OneRowPerHost ==
    \A i, j \in Ids : table[i] = table[j] /\ table[i] # NoHost => i = j
==============================================================================
