--------------------------- MODULE AgentStoreProofs ---------------------------
(***************************************************************************)
(* The invariant of AgentStore is inductive for any sets of hosts and      *)
(* connections and any number of rows.                                     *)
(*                                                                         *)
(* The argument: lastId only grows and an INSERT takes the next value, so  *)
(* an id that a connection or a tab has is never given out again.  Whoever *)
(* has it therefore has it for the host it was inserted for, also when its *)
(* row has been deleted.                                                   *)
(***************************************************************************)
EXTENDS AgentStore, TLAPS

USE DEF Move, Hangup, SetStatus, dbVars, connVars, envVars

(* The table, the Hub and the browsers are empty at first. *)
LEMMA InitInv == Init => IInv
BY NoHostAssumption, NoConnAssumption, MaxIdAssumption
   DEF Init, IInv, TypeOK, IdsGivenOnce, RowIsOwn, TabOwned, EntryOwned,
       StatusLostToSameHost, Ids

------------------------------------------------------------------------------
(* The steps of a handler that leave the table, the Hub and its id alone. *)
QuietStep(c) ==
    \/ Dial(c) \/ LinkBreaks(c) \/ SelectFindsNone(c) \/ DbFails(c)
    \/ LoopEnds(c) \/ Unmarked(c)

(* Where such a step may leave the handler: not where it would need an id  *)
(* or a status that it does not have.                                      *)
QuietMove(c, h) ==
    /\ h \in {"idle", "closed"} \cup Active
    /\ h \in {"updating", "registering", "serving", "marking"} => h = handler[c]
    /\ h = "leaving" => handler[c] \in {"serving", "leaving"}
    /\ handler[c] \in {"serving", "leaving", "marking", "closed"}
          => h \in {"serving", "leaving", "marking", "closed"}
    /\ handler[c] = "closed" => h = "closed"

(* A quiet step keeps the invariant. *)
LEMMA QuietInv ==
  ASSUME IInv, NEW c \in Conns, QuietStep(c)
  PROVE  IInv'
<1> USE DEF QuietStep, Dial, LinkBreaks, SelectFindsNone, DbFails,
            LoopEnds, Unmarked
<1>1. UNCHANGED <<hostOf, table, status, lastId, idOf, hub, tabs, server>>
  OBVIOUS
<1>2. link' \in [Conns -> {"none", "up", "down"}]
  BY DEF IInv, TypeOK
<1>3. PICK h : QuietMove(c, h) /\ handler' = [handler EXCEPT ![c] = h]
  <2>1. CASE LinkBreaks(c)
    <3>1. QuietMove(c, handler[c]) /\ handler' = [handler EXCEPT ![c] = handler[c]]
      BY <2>1 DEF QuietMove, IInv, TypeOK
    <3> QED  BY <3>1
  <2>2. CASE ~LinkBreaks(c)
    BY <2>2 DEF QuietMove, Active
  <2> QED  BY <2>1, <2>2
<1> HIDE DEF QuietStep, Dial, LinkBreaks, SelectFindsNone, DbFails,
             LoopEnds, Unmarked
<1> USE DEF QuietMove
<1>4. TypeOK'
  BY <1>1, <1>2, <1>3 DEF IInv, TypeOK
<1>5. IdsGivenOnce' /\ RowIsOwn' /\ TabOwned'
  BY <1>1 DEF IInv, IdsGivenOnce, RowIsOwn, TabOwned
<1>6. EntryOwned'
  BY <1>1, <1>3, NoConnAssumption DEF IInv, TypeOK, EntryOwned
<1>7. StatusLostToSameHost'
  BY <1>1, <1>3 DEF IInv, TypeOK, StatusLostToSameHost
<1> QED  BY <1>4, <1>5, <1>6, <1>7 DEF IInv

(* SELECT gives a connection the id of a row of its own host, which is     *)
(* the host of every tab with that id.                                     *)
LEMMA SelectInv ==
  ASSUME IInv, NEW c \in Conns, SelectFinds(c)
  PROVE  IInv'
<1>1. PICK i \in RowsOf(hostOf[c]) : idOf' = [idOf EXCEPT ![c] = i]
  BY DEF SelectFinds
<1>2. i \in Ids /\ i # 0 /\ table[i] = hostOf[c] /\ table[i] # NoHost /\ i <= lastId
  BY <1>1, NoHostAssumption, MaxIdAssumption DEF RowsOf, IInv, TypeOK, IdsGivenOnce, Ids
<1>3. TypeOK'
  BY <1>1, <1>2, MaxIdAssumption DEF SelectFinds, IInv, TypeOK, Active, Ids
<1>4. IdsGivenOnce'
  BY <1>1, <1>2 DEF SelectFinds, IInv, TypeOK, IdsGivenOnce
<1>5. RowIsOwn'
  BY <1>1, <1>2 DEF SelectFinds, IInv, TypeOK, RowIsOwn
<1>6. TabOwned'
  BY <1>1, <1>2 DEF SelectFinds, IInv, TypeOK, TabOwned
<1>7. EntryOwned'
  BY <1>1, <1>2, NoConnAssumption DEF SelectFinds, IInv, TypeOK, EntryOwned
<1>8. StatusLostToSameHost'
  BY <1>1, <1>2 DEF SelectFinds, IInv, TypeOK, StatusLostToSameHost
<1> QED  BY <1>3, <1>4, <1>5, <1>6, <1>7, <1>8 DEF IInv

(* INSERT takes an id that no connection, entry or tab has. *)
LEMMA InsertInv ==
  ASSUME IInv, NEW c \in Conns, Insert(c)
  PROVE  IInv'
<1> DEFINE n == lastId + 1
<1>1. n \in Ids /\ n # 0 /\ table[n] = NoHost /\ ~(n <= lastId)
  BY NoHostAssumption, MaxIdAssumption DEF Insert, IInv, TypeOK, IdsGivenOnce, Ids
<1>2. \A d \in Conns : idOf[d] # n
  BY <1>1 DEF IInv, IdsGivenOnce
<1>3. \A t \in tabs : t.id # n
  BY <1>1 DEF IInv, IdsGivenOnce
<1>4. TypeOK'
  BY <1>1, MaxIdAssumption DEF Insert, IInv, TypeOK, Active, Ids
<1>5. IdsGivenOnce'
  BY <1>1, MaxIdAssumption DEF Insert, IInv, TypeOK, IdsGivenOnce, Ids
<1>6. RowIsOwn'
  BY <1>1, <1>2 DEF Insert, IInv, TypeOK, RowIsOwn
<1>7. TabOwned'
  BY <1>1, <1>2, <1>3 DEF Insert, IInv, TypeOK, TabOwned
<1>8. EntryOwned'
  BY <1>1, <1>2, NoConnAssumption DEF Insert, IInv, TypeOK, EntryOwned
<1>9. StatusLostToSameHost'
  BY <1>1, <1>2 DEF Insert, IInv, TypeOK, StatusLostToSameHost
<1> QED  BY <1>4, <1>5, <1>6, <1>7, <1>8, <1>9 DEF IInv

(* UPDATE turns the row online if it is still there. *)
LEMMA UpdateInv ==
  ASSUME IInv, NEW c \in Conns, Update(c)
  PROVE  IInv'
<1>1. idOf[c] # 0 /\ idOf[c] \in Ids
  BY MaxIdAssumption DEF Update, IInv, TypeOK, EntryOwned, Ids
<1>2. TypeOK'
  BY <1>1 DEF Update, IInv, TypeOK, Active
<1>3. IdsGivenOnce' /\ RowIsOwn' /\ TabOwned'
  BY DEF Update, IInv, IdsGivenOnce, RowIsOwn, TabOwned
<1>4. EntryOwned'
  BY <1>1, NoConnAssumption DEF Update, IInv, TypeOK, EntryOwned
<1>5. StatusLostToSameHost'
  BY <1>1 DEF Update, IInv, TypeOK, StatusLostToSameHost
<1> QED  BY <1>2, <1>3, <1>4, <1>5 DEF IInv

(* Register enters a connection under its own id. *)
LEMMA RegisterInv ==
  ASSUME IInv, NEW c \in Conns, Register(c)
  PROVE  IInv'
<1>1. idOf[c] # 0 /\ idOf[c] \in Ids
  BY MaxIdAssumption DEF Register, IInv, TypeOK, EntryOwned, Ids
<1>2. TypeOK'
  BY <1>1 DEF Register, IInv, TypeOK, Active
<1>3. IdsGivenOnce' /\ RowIsOwn' /\ TabOwned'
  BY DEF Register, IInv, IdsGivenOnce, RowIsOwn, TabOwned
<1>4. EntryOwned'
  BY <1>1, NoConnAssumption DEF Register, IInv, TypeOK, EntryOwned
<1>5. StatusLostToSameHost'
  BY DEF Register, IInv, TypeOK, StatusLostToSameHost
<1> QED  BY <1>2, <1>3, <1>4, <1>5 DEF IInv

(* Unregister takes out the entry of the connection's id, whosever it is. *)
LEMMA UnregisterInv ==
  ASSUME IInv, NEW c \in Conns, Unregister(c)
  PROVE  IInv'
<1>1. idOf[c] # 0 /\ idOf[c] \in Ids
  BY MaxIdAssumption DEF Unregister, IInv, TypeOK, EntryOwned, Ids
<1>2. TypeOK'
  BY <1>1 DEF Unregister, IInv, TypeOK, Active
<1>3. IdsGivenOnce' /\ RowIsOwn' /\ TabOwned'
  BY DEF Unregister, IInv, IdsGivenOnce, RowIsOwn, TabOwned
<1>4. EntryOwned'
  BY <1>1, NoConnAssumption DEF Unregister, IInv, TypeOK, EntryOwned
<1>5. StatusLostToSameHost'
  BY DEF Unregister, IInv, TypeOK, StatusLostToSameHost
<1> QED  BY <1>2, <1>3, <1>4, <1>5 DEF IInv

(* The connections whose row UpdateAgentStatus turns offline are of the    *)
(* host of the connection that has ended.                                  *)
LEMMA MarkInv ==
  ASSUME IInv, NEW c \in Conns, MarkOffline(c)
  PROVE  IInv'
<1>1. idOf[c] # 0 /\ idOf[c] \in Ids
  BY MaxIdAssumption DEF MarkOffline, IInv, TypeOK, EntryOwned, Ids
<1>2. TypeOK'
  BY <1>1 DEF MarkOffline, IInv, TypeOK, Active
<1>3. IdsGivenOnce' /\ RowIsOwn' /\ TabOwned'
  BY DEF MarkOffline, IInv, IdsGivenOnce, RowIsOwn, TabOwned
<1>4. EntryOwned'
  BY <1>1, NoConnAssumption DEF MarkOffline, IInv, TypeOK, EntryOwned
<1>5. ASSUME NEW d \in Conns, idOf[d] = idOf[c], table[idOf[d]] # NoHost
      PROVE  hostOf[d] = hostOf[c]
  BY <1>1, <1>5 DEF IInv, RowIsOwn
<1>6. StatusLostToSameHost'
  <2> SUFFICES ASSUME NEW d \in Conns,
                      handler'[d] \in {"registering", "serving"},
                      table[idOf[d]] # NoHost,
                      status'[idOf[d]] = "offline"
               PROVE  \E e \in Conns \ {d} : hostOf[e] = hostOf[d] /\ handler'[e] = "closed"
    BY DEF StatusLostToSameHost, MarkOffline
  <2>1. d # c /\ handler'[c] = "closed" /\ handler[d] \in {"registering", "serving"}
    BY DEF MarkOffline, IInv, TypeOK
  <2>2. CASE idOf[d] = idOf[c]
    BY <2>1, <2>2, <1>5
  <2>3. CASE idOf[d] # idOf[c]
    <3>1. status[idOf[d]] = "offline"
      BY <2>3, <1>1 DEF MarkOffline, IInv, TypeOK
    <3>2. PICK e \in Conns \ {d} : hostOf[e] = hostOf[d] /\ handler[e] = "closed"
      BY <3>1, <2>1 DEF IInv, StatusLostToSameHost
    <3> QED  BY <3>2 DEF MarkOffline, IInv, TypeOK
  <2> QED  BY <2>2, <2>3
<1> QED  BY <1>2, <1>3, <1>4, <1>6 DEF IInv

(* Deleting a row takes nothing from anyone but the row. *)
LEMMA DeleteInv ==
  ASSUME IInv, NEW i \in Ids, Delete(i)
  PROVE  IInv'
<1>1. TypeOK'
  BY DEF Delete, IInv, TypeOK
<1>2. IdsGivenOnce'
  BY DEF Delete, IInv, TypeOK, IdsGivenOnce
<1>3. RowIsOwn'
  BY MaxIdAssumption DEF Delete, IInv, TypeOK, RowIsOwn, Ids
<1>4. TabOwned'
  BY DEF Delete, IInv, TypeOK, TabOwned
<1>5. EntryOwned'
  BY DEF Delete, IInv, EntryOwned
<1>6. StatusLostToSameHost'
  BY DEF Delete, IInv, TypeOK, StatusLostToSameHost
<1> QED  BY <1>1, <1>2, <1>3, <1>4, <1>5, <1>6 DEF IInv

(* A new tab has its host from the row, which is also that of every        *)
(* connection with the row's id.                                           *)
LEMMA OpenTabInv ==
  ASSUME IInv, NEW i \in Ids, OpenTab(i)
  PROVE  IInv'
<1> DEFINE new == [id |-> i, host |-> table[i]]
<1>1. table[i] \in Hosts /\ i <= lastId /\ i # 0
  BY MaxIdAssumption DEF OpenTab, IInv, TypeOK, IdsGivenOnce, Ids
<1>2. new \in [id : Ids, host : Hosts] /\ new.id = i /\ new.host = table[i]
  BY <1>1
<1>3. tabs' = tabs \cup {new}
  BY DEF OpenTab
<1> HIDE DEF new
<1>4. TypeOK'
  BY <1>2, <1>3 DEF OpenTab, IInv, TypeOK
<1>5. IdsGivenOnce'
  BY <1>1, <1>2, <1>3 DEF OpenTab, IInv, IdsGivenOnce
<1>6. TabOwned'
  <2>1. \A c \in Conns : idOf[c] = i => hostOf[c] = table[i]
    BY <1>1 DEF OpenTab, IInv, RowIsOwn
  <2> QED  BY <2>1, <1>2, <1>3 DEF OpenTab, IInv, TabOwned
<1>7. RowIsOwn' /\ EntryOwned' /\ StatusLostToSameHost'
  BY DEF OpenTab, IInv, RowIsOwn, EntryOwned, StatusLostToSameHost
<1> QED  BY <1>4, <1>5, <1>6, <1>7 DEF IInv

(* What a crash leaves is the table and the tabs. *)
LEMMA CrashInv ==
  ASSUME IInv, Crash
  PROVE  IInv'
<1>1. TypeOK'
  BY DEF Crash, IInv, TypeOK, Active
<1>2. IdsGivenOnce' /\ RowIsOwn' /\ TabOwned'
  BY DEF Crash, IInv, IdsGivenOnce, RowIsOwn, TabOwned
<1>3. EntryOwned' /\ StatusLostToSameHost'
  BY DEF Crash, IInv, TypeOK, EntryOwned, StatusLostToSameHost, Active
<1> QED  BY <1>1, <1>2, <1>3 DEF IInv

(* A restart, or no step at all, changes nothing the invariant is about. *)
LEMMA IdleInv ==
  ASSUME IInv, Restart \/ UNCHANGED vars
  PROVE  IInv'
BY DEF Restart, vars, IInv, TypeOK, IdsGivenOnce, RowIsOwn, TabOwned, EntryOwned,
       StatusLostToSameHost

(* Every step keeps the invariant. *)
LEMMA StepInv == IInv /\ [Next]_vars => IInv'
<1> SUFFICES ASSUME IInv, [Next]_vars  PROVE IInv'
  OBVIOUS
<1>1. ASSUME NEW c \in Conns, ConnStep(c)  PROVE IInv'
  BY <1>1, QuietInv, SelectInv, InsertInv, UpdateInv, RegisterInv, UnregisterInv,
     MarkInv DEF ConnStep, QuietStep
<1>2. ASSUME NEW i \in Ids, Delete(i) \/ OpenTab(i)  PROVE IInv'
  BY <1>2, DeleteInv, OpenTabInv
<1>3. CASE Crash
  BY <1>3, CrashInv
<1>4. CASE Restart \/ UNCHANGED vars
  BY <1>4, IdleInv
<1> QED  BY <1>1, <1>2, <1>3, <1>4 DEF Next

------------------------------------------------------------------------------
(* IInv holds in every state, over crashes, deletions and overlapping      *)
(* connections of one host.                                                *)
THEOREM Invariance == Spec => []IInv
BY InitInv, StepInv, PTL DEF Spec

(* No connection ever works with another host's row.                       *)
THEOREM RowsOwned == Spec => []RowIsOwn
<1>1. IInv => RowIsOwn
  BY DEF IInv
<1> QED  BY <1>1, Invariance, PTL

(* However old a tab is, the connection under its id is its host's.        *)
THEOREM TabsReachTheirHost == Spec => []TabReachesItsHost
<1>1. IInv => TabReachesItsHost
  BY DEF IInv, TypeOK, TabOwned, EntryOwned, TabReachesItsHost
<1> QED  BY <1>1, Invariance, PTL

(* A connected agent's status is only ever lost to its own host.           *)
THEOREM StatusIsolated == Spec => []StatusLostToSameHost
<1>1. IInv => StatusLostToSameHost
  BY DEF IInv
<1> QED  BY <1>1, Invariance, PTL

(* Only an INSERT adds a row, with an id above every deleted one.          *)
THEOREM DeletedForGood == Spec => DeletedStaysDeleted
<1>1. IInv /\ [Next]_vars
        => [\A i \in Ids : i <= lastId /\ table[i] = NoHost => table'[i] = NoHost]_vars
  <2> SUFFICES ASSUME IInv, Next, NEW i \in Ids, i <= lastId, table[i] = NoHost
               PROVE  table'[i] = NoHost
    OBVIOUS
  <2>1. ASSUME NEW c \in Conns, Insert(c)  PROVE table'[i] = NoHost
    <3>1. i # lastId + 1
      BY DEF IInv, TypeOK, Ids
    <3> QED  BY <2>1, <3>1 DEF Insert, IInv, TypeOK
  <2>2. ASSUME NEW j \in Ids, Delete(j)  PROVE table'[i] = NoHost
    BY <2>2 DEF Delete, IInv, TypeOK
  <2>3. table' = table
          \/ (\E c \in Conns : Insert(c)) \/ (\E j \in Ids : Delete(j))
    BY DEF Next, ConnStep, Dial, LinkBreaks, SelectFinds, SelectFindsNone, Update,
           DbFails, Register, LoopEnds, Unregister, MarkOffline, Unmarked,
           OpenTab, Crash, Restart
  <2> QED  BY <2>1, <2>2, <2>3
<1> QED  BY <1>1, Invariance, PTL DEF Spec, DeletedStaysDeleted

------------------------------------------------------------------------------
(* The refinement of AgentDirectory.  First, its invariant.                *)
LEMMA DirectoryInitInv == Init => DirectoryInv
<1> SUFFICES ASSUME Init PROVE DirectoryInv
  OBVIOUS
<1>1. NumbersOwned
  BY DEF Init, NumbersOwned
<1>2. DownIsIdle
  BY DEF Init, DownIsIdle
<1> QED  BY <1>1, <1>2, InitInv DEF DirectoryInv

(* A connection gets its id once, from a row of its host or from lastId.   *)
LEMMA NumbersOwnedStep ==
  ASSUME DirectoryInv, [Next]_vars
  PROVE  NumbersOwned'
<1> USE DEF DirectoryInv, IInv, TypeOK
<1>1. ASSUME NEW c \in Conns, SelectFinds(c)
      PROVE  NumbersOwned'
  <2>1. PICK i \in RowsOf(hostOf[c]) : idOf' = [idOf EXCEPT ![c] = i]
    BY <1>1 DEF SelectFinds
  <2>2. i \in Ids /\ i # 0 /\ table[i] = hostOf[c] /\ table[i] # NoHost /\ idOf[c] = 0
    BY <1>1, <2>1, NoHostAssumption, MaxIdAssumption
       DEF SelectFinds, RowsOf, Ids, NumbersOwned
  <2>3. \A d \in Conns : idOf[d] = i => hostOf[d] = hostOf[c]
    BY <2>2 DEF RowIsOwn
  <2>4. UNCHANGED <<hostOf, lastId>> /\ handler' = [handler EXCEPT ![c] = "updating"]
    BY <1>1 DEF SelectFinds
  <2>5. \A d, e \in Conns : idOf'[d] = idOf'[e] /\ idOf'[d] # 0 => hostOf'[d] = hostOf'[e]
    BY <2>1, <2>2, <2>3, <2>4 DEF NumbersOwned
  <2>6. \A k \in 1 .. lastId' : \E d \in Conns : idOf'[d] = k
    <3> SUFFICES ASSUME NEW k \in 1 .. lastId PROVE \E d \in Conns : idOf'[d] = k
      BY <2>4
    <3>1. PICK d \in Conns : idOf[d] = k
      BY DEF NumbersOwned
    <3>2. d # c
      BY <2>2, <3>1
    <3> QED  BY <2>1, <3>1, <3>2
  <2>7. \A d \in Conns : handler'[d] \in {"idle", "selecting", "inserting"} => idOf'[d] = 0
    BY <2>1, <2>4 DEF NumbersOwned
  <2> QED  BY <2>5, <2>6, <2>7 DEF NumbersOwned
<1>2. ASSUME NEW c \in Conns, Insert(c)
      PROVE  NumbersOwned'
  <2> DEFINE n == lastId + 1
  <2>1. /\ idOf' = [idOf EXCEPT ![c] = n] /\ lastId' = n /\ hostOf' = hostOf
        /\ handler' = [handler EXCEPT ![c] = "registering"] /\ idOf[c] = 0 /\ lastId \in Nat
    BY <1>2, MaxIdAssumption DEF Insert, NumbersOwned
  <2>2. \A d \in Conns : idOf[d] # n
    BY <2>1, MaxIdAssumption DEF IdsGivenOnce
  <2>3. \A d, e \in Conns : idOf'[d] = idOf'[e] /\ idOf'[d] # 0 => hostOf'[d] = hostOf'[e]
    BY <2>1, <2>2 DEF NumbersOwned
  <2>4. \A k \in 1 .. lastId' : \E d \in Conns : idOf'[d] = k
    <3> SUFFICES ASSUME NEW k \in 1 .. n PROVE \E d \in Conns : idOf'[d] = k
      BY <2>1
    <3>1. CASE k = n
      BY <2>1, <3>1
    <3>2. CASE k # n
      <4>1. k \in 1 .. lastId
        BY <2>1, <3>2
      <4>2. PICK d \in Conns : idOf[d] = k
        BY <4>1 DEF NumbersOwned
      <4>3. d # c
        BY <2>1, <4>1, <4>2
      <4> QED  BY <2>1, <4>2, <4>3
    <3> QED  BY <3>1, <3>2
  <2>5. \A d \in Conns : handler'[d] \in {"idle", "selecting", "inserting"} => idOf'[d] = 0
    BY <2>1 DEF NumbersOwned
  <2> QED  BY <2>3, <2>4, <2>5 DEF NumbersOwned
<1>3. ASSUME UNCHANGED <<hostOf, idOf, lastId>>,
             \A c \in Conns : handler'[c] \in {"idle", "selecting", "inserting"}
                                 => handler[c] \in {"idle", "selecting", "inserting"}
      PROVE  NumbersOwned'
  BY <1>3 DEF NumbersOwned
<1>4. ASSUME NEW c \in Conns, ConnStep(c), ~SelectFinds(c), ~Insert(c)
      PROVE  NumbersOwned'
  <2>1. UNCHANGED <<hostOf, idOf, lastId>>
    BY <1>4 DEF ConnStep, Dial, LinkBreaks, SelectFindsNone, Update, DbFails, Register,
                LoopEnds, Unregister, MarkOffline, Unmarked
  <2>2. \/ handler' = handler
        \/ \E h \in {"selecting", "inserting"} :
              handler[c] \in {"idle", "selecting"} /\ handler' = [handler EXCEPT ![c] = h]
        \/ \E h \in {"registering", "serving", "leaving", "marking", "closed"} :
              handler' = [handler EXCEPT ![c] = h]
    BY <1>4 DEF ConnStep, Dial, LinkBreaks, SelectFindsNone, Update, DbFails, Register,
                LoopEnds, Unregister, MarkOffline, Unmarked
  <2> QED  BY <1>3, <2>1, <2>2
<1>5. CASE Crash
  BY <1>3, <1>5 DEF Crash, Active
<1>6. CASE (\E i \in Ids : Delete(i) \/ OpenTab(i)) \/ Restart \/ UNCHANGED vars
  BY <1>3, <1>6 DEF Delete, OpenTab, Restart, vars
<1> QED  BY <1>1, <1>2, <1>4, <1>5, <1>6 DEF Next

(* Nothing starts in a server that is down.                                *)
LEMMA DownIsIdleStep ==
  ASSUME DirectoryInv, [Next]_vars
  PROVE  DownIsIdle'
<1> USE DEF DirectoryInv, IInv, TypeOK, DownIsIdle
<1>1. ASSUME NEW c \in Conns, ConnStep(c)
      PROVE  DownIsIdle'
  <2>1. CASE LinkBreaks(c)
    BY <2>1 DEF LinkBreaks
  <2>2. CASE ~LinkBreaks(c)
    <3>1. server' = server /\ (handler[c] \in Active \/ server = "up")
      BY <1>1, <2>2 DEF ConnStep, Dial, SelectFinds, SelectFindsNone, Insert, Update, DbFails,
                        Register, LoopEnds, Unregister, MarkOffline, Unmarked, Active
    <3> QED  BY <3>1
  <2> QED  BY <2>1, <2>2
<1>2. CASE Crash
  BY <1>2 DEF Crash, Active
<1>3. CASE (\E i \in Ids : Delete(i) \/ OpenTab(i)) \/ Restart \/ UNCHANGED vars
  BY <1>3 DEF Delete, OpenTab, Restart, vars
<1> QED  BY <1>1, <1>2, <1>3 DEF Next

(* IInv and the two additions hold in every state.                                   *)
THEOREM DirectoryInvariance == Spec => []DirectoryInv
<1>1. Init => DirectoryInv
  BY DirectoryInitInv
<1>2. DirectoryInv /\ [Next]_vars => DirectoryInv'
  BY StepInv, NumbersOwnedStep, DownIsIdleStep DEF DirectoryInv
<1> QED  BY <1>1, <1>2, PTL DEF Spec

(* A number was issued to the host of every connection that has it, ...    *)
LEMMA IssuedToIt ==
  ASSUME TypeOK, NumbersOwned, NEW i \in Ids, NEW c \in Conns, idOf[c] = i
  PROVE  IssuedTo(i) = hostOf[c]
<1> DEFINE d == CHOOSE d \in Conns : idOf[d] = i
<1>1. d \in Conns /\ idOf[d] = i
  OBVIOUS
<1>2. i # 0
  BY DEF Ids
<1> QED  BY <1>1, <1>2 DEF IssuedTo, NumbersOwned

(* and to nobody if it is still to come.                                   *)
LEMMA IssuedToNone ==
  ASSUME TypeOK, IdsGivenOnce, NEW i \in Ids, i > lastId
  PROVE  IssuedTo(i) = NoHost
<1>1. \A c \in Conns : idOf[c] # i
  BY MaxIdAssumption DEF TypeOK, IdsGivenOnce, Ids
<1> QED  BY <1>1 DEF IssuedTo

(* Numbers below lastId are issued, and rows are of the host theirs was    *)
(* issued to.                                                              *)
LEMMA IssuedFacts ==
  ASSUME DirectoryInv, NEW i \in Ids
  PROVE  /\ i <= lastId => IssuedTo(i) \in Hosts /\ IssuedTo(i) # NoHost
         /\ i > lastId => IssuedTo(i) = NoHost
         /\ table[i] # NoHost => i <= lastId /\ table[i] = IssuedTo(i)
<1> USE DEF DirectoryInv, IInv
<1>1. ASSUME i <= lastId
      PROVE  IssuedTo(i) \in Hosts /\ IssuedTo(i) # NoHost /\ table[i] \in {IssuedTo(i), NoHost}
  <2>1. i \in 1 .. lastId /\ i # 0
    BY <1>1, MaxIdAssumption DEF TypeOK, Ids
  <2>2. PICK c \in Conns : idOf[c] = i
    BY <2>1 DEF NumbersOwned
  <2>3. IssuedTo(i) = hostOf[c] /\ table[i] \in {hostOf[c], NoHost}
    BY <2>1, <2>2, IssuedToIt DEF RowIsOwn
  <2> QED  BY <2>3, NoHostAssumption DEF TypeOK
<1>2. i > lastId => IssuedTo(i) = NoHost
  BY IssuedToNone
<1>3. table[i] # NoHost => i <= lastId
  BY DEF IdsGivenOnce
<1> QED  BY <1>1, <1>2, <1>3

(* A step that gives out no number leaves them with those who have them.   *)
LEMMA IssuedKept ==
  ASSUME DirectoryInv, DirectoryInv', hostOf' = hostOf, lastId' = lastId,
         \A c \in Conns : idOf[c] # 0 => idOf'[c] = idOf[c]
  PROVE  [i \in Ids |-> IssuedTo(i)]' = [i \in Ids |-> IssuedTo(i)]
<1> SUFFICES ASSUME NEW i \in Ids PROVE IssuedTo(i)' = IssuedTo(i)
  OBVIOUS
<1> USE DEF DirectoryInv, IInv
<1>1. CASE i <= lastId
  <2>1. i \in 1 .. lastId /\ i # 0
    BY <1>1, MaxIdAssumption DEF TypeOK, Ids
  <2>2. PICK c \in Conns : idOf[c] = i
    BY <2>1 DEF NumbersOwned
  <2>3. IssuedTo(i) = hostOf[c]
    BY <2>2, IssuedToIt
  <2>4. idOf'[c] = i
    BY <2>1, <2>2
  <2>5. IssuedTo(i)' = hostOf'[c]
    <3> DEFINE d == CHOOSE d \in Conns : idOf'[d] = i
    <3>1. d \in Conns /\ idOf'[d] = i
      BY <2>4
    <3> QED  BY <2>1, <2>4, <3>1 DEF IssuedTo, NumbersOwned
  <2> QED  BY <2>3, <2>5
<1>2. CASE i > lastId
  <2>1. \A c \in Conns : idOf'[c] # i
    BY <1>2, MaxIdAssumption DEF TypeOK, IdsGivenOnce, Ids
  <2>2. IssuedTo(i)' = NoHost
    BY <2>1 DEF IssuedTo
  <2> QED  BY <1>2, <2>2, IssuedToNone
<1> QED  BY <1>1, <1>2, MaxIdAssumption DEF TypeOK, Ids

(* Whom the Hub reaches under a number is whom it was issued to.           *)
LEMMA ReachedIsIssued ==
  ASSUME DirectoryInv, NEW i \in Ids
  PROVE  Reached(i) \in {IssuedTo(i), NoHost}
BY IssuedToIt DEF DirectoryInv, IInv, TypeOK, EntryOwned, Reached

(* INSERT issues the next number.                                          *)
LEMMA InsertIssues ==
  ASSUME DirectoryInv, DirectoryInv', NEW c \in Conns, Insert(c)
  PROVE  Directory!Next
<1> DEFINE n == lastId + 1
           f == [i \in Ids |-> IssuedTo(i)]
           r == {i \in Ids : table[i] # NoHost}
<1> USE DEF DirectoryInv, IInv
<1>1. /\ idOf' = [idOf EXCEPT ![c] = n] /\ lastId' = n /\ hostOf' = hostOf
      /\ table' = [table EXCEPT ![n] = hostOf[c]] /\ n \in Ids /\ n \in Nat /\ n # 0
      /\ UNCHANGED <<hub, tabs, server>> /\ lastId \in Nat
  BY MaxIdAssumption DEF Insert, TypeOK, Ids
<1>2. server = "up" /\ hostOf[c] \in Hosts /\ hostOf[c] # NoHost /\ idOf[c] = 0
  BY NoHostAssumption DEF Insert, DownIsIdle, Active, TypeOK, NumbersOwned
<1>3. f[n] = NoHost
  BY <1>1, IssuedFacts
<1>4. \A m \in 1 .. n - 1 : f[m] # NoHost
  <2>1. \A m \in 1 .. n - 1 : m \in Ids /\ m <= lastId
    BY <1>1, MaxIdAssumption DEF Ids
  <2> QED  BY <2>1, IssuedFacts
<1>5. f' = [f EXCEPT ![n] = hostOf[c]]
  <2> SUFFICES ASSUME NEW i \in Ids
               PROVE  IssuedTo(i)' = IF i = n THEN hostOf[c] ELSE IssuedTo(i)
    OBVIOUS
  <2>1. ASSUME NEW d \in Conns, idOf'[d] = i PROVE IssuedTo(i)' = hostOf'[d]
    <3> DEFINE e == CHOOSE e \in Conns : idOf'[e] = i
    <3>1. e \in Conns /\ idOf'[e] = i /\ i # 0
      BY <2>1 DEF Ids
    <3> QED  BY <2>1, <3>1 DEF IssuedTo, NumbersOwned
  <2>2. CASE i = n
    BY <1>1, <2>1, <2>2 DEF TypeOK
  <2>3. CASE i # n /\ i <= lastId
    <3>1. i \in 1 .. lastId
      BY <1>1, <2>3 DEF Ids
    <3>2. PICK d \in Conns : idOf[d] = i
      BY <3>1 DEF NumbersOwned
    <3>3. d # c /\ idOf'[d] = i
      BY <1>1, <1>2, <3>1, <3>2 DEF TypeOK
    <3> QED  BY <1>1, <2>1, <2>3, <3>2, <3>3, IssuedToIt
  <2>4. CASE i # n /\ i > lastId
    <3>1. \A d \in Conns : idOf'[d] # i
      BY <1>1, <2>4, MaxIdAssumption DEF TypeOK, IdsGivenOnce, Ids
    <3> QED  BY <2>4, <3>1, IssuedToNone DEF IssuedTo
  <2> QED  BY <1>1, <2>2, <2>3, <2>4 DEF Ids
<1>6. r' = r \cup {n}
  BY <1>1, <1>2 DEF TypeOK
<1>7. [i \in Ids |-> Reached(i)]' = [i \in Ids |-> Reached(i)]
  BY <1>1 DEF Reached
<1> HIDE DEF f, r, n
<1>8. PICK m \in Ids, o \in Hosts : m = n /\ o = hostOf[c]
  BY <1>1, <1>2
<1>9. Directory!Issue(m, o)
  BY <1>1, <1>2, <1>3, <1>4, <1>5, <1>6, <1>7, <1>8 DEF Directory!Issue, f, r, Ids
<1> QED  BY <1>9 DEF Directory!Next, Directory!Numbers, Ids

(* What the other steps leave alone.                                       *)
LEMMA StepKeepsIssued ==
  ASSUME DirectoryInv, DirectoryInv', hostOf' = hostOf, lastId' = lastId,
         idOf' = idOf \/ \E c \in Conns : SelectFinds(c)
  PROVE  [i \in Ids |-> IssuedTo(i)]' = [i \in Ids |-> IssuedTo(i)]
<1>1. \A c \in Conns : idOf[c] # 0 => idOf'[c] = idOf[c]
  <2>1. ASSUME NEW c \in Conns, NEW d \in Conns, SelectFinds(c), idOf[d] # 0
        PROVE  idOf'[d] = idOf[d]
    BY <2>1 DEF SelectFinds, DirectoryInv, IInv, TypeOK, NumbersOwned
  <2> QED  BY <2>1
<1> QED  BY <1>1, IssuedKept

(* Register enters a connection, so that its number reaches its host; the  *)
(* end of any connection with the number takes out whatever is there.      *)
LEMMA EntryMoves ==
  ASSUME DirectoryInv, DirectoryInv', NEW c \in Conns, Register(c) \/ Unregister(c)
  PROVE  Directory!Next
<1> DEFINE f == [i \in Ids |-> IssuedTo(i)]
           r == [i \in Ids |-> Reached(i)]
<1> USE DEF DirectoryInv, IInv
<1>1. /\ idOf[c] \in Ids
      /\ UNCHANGED <<idOf, lastId, hostOf, table, tabs, server>>
      /\ hub' = [hub EXCEPT ![idOf[c]] = c] \/ hub' = [hub EXCEPT ![idOf[c]] = NoConn]
  BY MaxIdAssumption DEF Register, Unregister, TypeOK, EntryOwned, Ids
<1>2. PICK n \in Ids : n = idOf[c]
  BY <1>1
<1>3. server = "up"
  BY DEF Register, Unregister, TypeOK, DownIsIdle, Active
<1>4. f' = f
  BY <1>1, StepKeepsIssued
<1>5. f[n] = hostOf[c] /\ hostOf[c] # NoHost
  BY <1>2, IssuedToIt, NoHostAssumption DEF TypeOK
<1>6. CASE hub' = [hub EXCEPT ![n] = c]
  <2>1. r' = [r EXCEPT ![n] = f[n]]
    BY <1>1, <1>5, <1>6, NoConnAssumption DEF Reached, TypeOK
  <2> HIDE DEF f, r
  <2>2. Directory!Connect(n)
    BY <1>1, <1>3, <1>4, <1>5, <2>1 DEF Directory!Connect, f, r
  <2> QED  BY <2>2 DEF Directory!Next, Directory!Numbers, Ids
<1>7. CASE hub' = [hub EXCEPT ![n] = NoConn]
  <2>1. r' = [r EXCEPT ![n] = NoHost]
    BY <1>1, <1>7 DEF Reached, TypeOK
  <2> HIDE DEF f, r
  <2>2. Directory!Disconnect(n)
    BY <1>1, <1>3, <1>4, <2>1 DEF Directory!Disconnect, f, r
  <2> QED  BY <2>2 DEF Directory!Next, Directory!Numbers, Ids
<1> QED  BY <1>1, <1>2, <1>6, <1>7

(* The list of agents: a row is removed, or shown and kept in a tab.       *)
LEMMA ListMoves ==
  ASSUME DirectoryInv, DirectoryInv', NEW n \in Ids, Delete(n) \/ OpenTab(n)
  PROVE  Directory!Next
<1> DEFINE f == [i \in Ids |-> IssuedTo(i)]
           l == {i \in Ids : table[i] # NoHost}
           r == [i \in Ids |-> Reached(i)]
<1>1. /\ server = "up" /\ n \in l
      /\ UNCHANGED <<idOf, lastId, hostOf, hub, server>>
  BY DEF Delete, OpenTab
<1>2. f' = f
  BY <1>1, StepKeepsIssued
<1>3. r' = r
  BY <1>1 DEF Reached
<1>4. CASE Delete(n)
  <2>1. l' = l \ {n} /\ tabs' = tabs
    BY <1>4 DEF Delete, DirectoryInv, IInv, TypeOK
  <2> HIDE DEF f, l, r
  <2>2. Directory!Remove(n)
    BY <1>1, <1>2, <1>3, <2>1 DEF Directory!Remove, f, l, r
  <2> QED  BY <2>2 DEF Directory!Next, Directory!Numbers, Ids
<1>5. CASE OpenTab(n)
  <2>1. table[n] = f[n]
    BY <1>1, IssuedFacts
  <2>2. l' = l /\ tabs' = tabs \cup {[id |-> n, host |-> f[n]]}
    BY <1>5, <2>1 DEF OpenTab
  <2> HIDE DEF f, l, r
  <2>3. Directory!Keep(n)
    BY <1>1, <1>2, <1>3, <2>2 DEF Directory!Keep, f, l, r
  <2> QED  BY <2>3 DEF Directory!Next, Directory!Numbers, Ids
<1> QED  BY <1>4, <1>5

(* The server goes down and comes back.                                    *)
LEMMA ServerMoves ==
  ASSUME DirectoryInv, DirectoryInv', Crash \/ Restart
  PROVE  Directory!Next
<1> DEFINE f == [i \in Ids |-> IssuedTo(i)]
           r == [i \in Ids |-> Reached(i)]
<1>1. UNCHANGED <<idOf, lastId, hostOf, table, tabs>>
  BY DEF Crash, Restart
<1>2. f' = f
  BY <1>1, StepKeepsIssued
<1>3. CASE Crash
  <2>1. r' = [i \in Ids |-> NoHost]
    BY <1>3 DEF Crash, Reached
  <2> HIDE DEF f, r
  <2>2. Directory!Crash
    BY <1>1, <1>2, <1>3, <2>1 DEF Directory!Crash, Directory!Numbers, Crash, f, r, Ids
  <2> QED  BY <2>2 DEF Directory!Next
<1>4. CASE Restart
  <2>1. r' = r
    BY <1>4 DEF Restart, Reached
  <2> HIDE DEF f, r
  <2>2. Directory!Restart
    BY <1>1, <1>2, <1>4, <2>1 DEF Directory!Restart, Restart, f, r
  <2> QED  BY <2>2 DEF Directory!Next
<1> QED  BY <1>3, <1>4

(* The rest of the handshake, and of the end of a connection, is not seen. *)
LEMMA HandlerHidden ==
  ASSUME DirectoryInv, DirectoryInv', NEW c \in Conns,
         QuietStep(c) \/ SelectFinds(c) \/ Update(c) \/ MarkOffline(c)
  PROVE  UNCHANGED Directory!directoryVars
<1>1. /\ UNCHANGED <<hostOf, table, lastId, hub, tabs, server>>
      /\ idOf' = idOf \/ SelectFinds(c)
  BY DEF QuietStep, Dial, LinkBreaks, SelectFindsNone, DbFails, LoopEnds, Unmarked,
         SelectFinds, Update, MarkOffline
<1>2. [i \in Ids |-> IssuedTo(i)]' = [i \in Ids |-> IssuedTo(i)]
  BY <1>1, StepKeepsIssued
<1>3. [i \in Ids |-> Reached(i)]' = [i \in Ids |-> Reached(i)]
  BY <1>1 DEF Reached
<1> QED  BY <1>1, <1>2, <1>3 DEF Directory!directoryVars

(* Each step is one of the directory's or none.                            *)
LEMMA DirectoryStep ==
  DirectoryInv /\ DirectoryInv' /\ [Next]_vars => [Directory!Next]_(Directory!directoryVars)
<1> SUFFICES ASSUME DirectoryInv, DirectoryInv', [Next]_vars
             PROVE  Directory!Next \/ UNCHANGED Directory!directoryVars
  OBVIOUS
<1>1. ASSUME NEW c \in Conns, ConnStep(c)
      PROVE  Directory!Next \/ UNCHANGED Directory!directoryVars
  BY <1>1, InsertIssues, EntryMoves, HandlerHidden DEF ConnStep, QuietStep
<1>2. ASSUME NEW i \in Ids, Delete(i) \/ OpenTab(i)  PROVE Directory!Next
  BY <1>2, ListMoves
<1>3. CASE Crash \/ Restart
  BY <1>3, ServerMoves
<1>4. CASE UNCHANGED vars
  <2>1. UNCHANGED <<hostOf, table, lastId, hub, tabs, server, idOf>>
    BY <1>4 DEF vars
  <2>2. [i \in Ids |-> IssuedTo(i)]' = [i \in Ids |-> IssuedTo(i)]
    BY <2>1, StepKeepsIssued
  <2> QED  BY <2>1, <2>2 DEF Reached, Directory!directoryVars
<1> QED  BY <1>1, <1>2, <1>3, <1>4 DEF Next

(* An empty table is an empty directory.                                   *)
LEMMA DirectoryInit == Init => Directory!Init
<1> SUFFICES ASSUME Init PROVE Directory!Init
  OBVIOUS
<1>1. \A i \in Ids : IssuedTo(i) = NoHost /\ Reached(i) = NoHost
  BY DEF Init, IssuedTo, Reached, Ids
<1>2. {i \in Ids : table[i] # NoHost} = {} /\ tabs = {} /\ (server = "up") = TRUE
  BY DEF Init
<1> QED  BY <1>1, <1>2 DEF Directory!Init, Directory!Numbers, Ids

(* Table, handshakes and Hub together are a directory of numbers, issued   *)
(* once each and never to a second host.                                   *)
THEOREM DirectoryKept == Spec => DirectoryAsPromised
<1>1. Init => Directory!Init
  BY DirectoryInit
<1>2. DirectoryInv /\ DirectoryInv' /\ [Next]_vars
         => [Directory!Next]_(Directory!directoryVars)
  BY DirectoryStep
<1> QED
  BY <1>1, <1>2, DirectoryInvariance, PTL DEF Spec, DirectoryAsPromised, Directory!Spec
==============================================================================
