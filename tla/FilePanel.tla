------------------------------ MODULE FilePanel ------------------------------
(***************************************************************************)
(* The file panel of the dashboard, components/FilePanel.tsx, over the     *)
(* query cache it shares with every other panel of the window.  The page   *)
(* renders one FilePanel without a key (pages/Dashboard.tsx:194-198): it   *)
(* is mounted when a files tab becomes active after a terminal or none,    *)
(* and keeps its directory and its running changes when the next tab is a  *)
(* files tab of another agent.                                             *)
(*                                                                         *)
(* React-query (5.91, not part of the repository) is modelled by what the  *)
(* panel gets from it with the default options it uses: one fetch per key  *)
(* at a time, which a mounting panel joins; an invalidated key is fetched  *)
(* anew at once if it is shown, in place of the running fetch only if the  *)
(* key has data; without network fetches and changes wait; a change that   *)
(* waits runs with the functions its panel rendered last.  A directory is  *)
(* the number of changes made in it, and a listing the number it has seen. *)
(***************************************************************************)
EXTENDS Naturals, FiniteSets, SequencesExt

CONSTANTS
    Agents,      \* agent ids
    NoAgent,     \* no files tab is active
    Paths,       \* directories, as sequences of names; <<>> is the root
    MaxOps,      \* bound: deletes and uploads in all
    MaxFetches   \* bound: fetches that run at a time

ASSUME NoAgentAssumption == NoAgent \notin Agents
ASSUME PathsAssumption ==
    /\ <<>> \in Paths
    /\ \A p \in Paths : p \in Seq(STRING) /\ \A i \in 0 .. Len(p) : SubSeq(p, 1, i) \in Paths
ASSUME MaxOpsAssumption == MaxOps \in Nat

VARIABLES
    agent,       \* agentId of the FilePanel, or NoAgent
    path,        \* its path
    online,      \* has the window a network?
    disk,        \* changes made in each directory of each agent
    cache,       \* data of each query: a listing, or NoListing
    fetch,       \* the fetch of each query
    failed,      \* did the last fetch of the shown query fail?
    ops,         \* the deletes and uploads, in the order they were made
    current,     \* the last of each kind in the mounted panel, or 0
    known        \* history: the last change confirmed to a panel that showed it

vars == <<agent, path, online, disk, cache, fetch, failed, ops, current, known>>

Places == Agents \X Paths
Kinds == {"delete", "upload"}
Nowhere == <<>>
NoListing == [of |-> Nowhere, seen |-> 0]
Listing == [of : Places, seen : Nat]
NoFetch == [state |-> "idle", list |-> NoListing]

(* A change: the place it was made for, the one its functions have been    *)
(* rendered for last, the one its request went to, the number it got in    *)
(* that directory, and whether it had to wait for the network.             *)
Op == [kind : Kinds, want : Places, opts : Places, to : Places \cup {Nowhere},
       seen : Nat, waited : BOOLEAN,
       state : {"paused", "sent", "carried", "settling"}]
Over == [state |-> "done"]

TypeOK ==
    /\ agent \in Agents \cup {NoAgent}
    /\ path \in Paths
    /\ online \in BOOLEAN
    /\ disk \in [Places -> Nat]
    /\ cache \in [Places -> Listing \cup {NoListing}]
    /\ fetch \in [Places -> [state : {"idle", "sent", "read"},
                             list : Listing \cup {NoListing}]]
    /\ failed \in BOOLEAN
    /\ ops \in Seq(Op \cup {Over}) /\ Len(ops) <= MaxOps
    /\ current \in [Kinds -> 0 .. Len(ops)]
    /\ known \in [Places -> Nat]

Init ==
    /\ agent = NoAgent
    /\ path = <<>>
    /\ online = TRUE
    /\ disk = [k \in Places |-> 0]
    /\ cache = [k \in Places |-> NoListing]
    /\ fetch = [k \in Places |-> NoFetch]
    /\ failed = FALSE
    /\ ops = <<>>
    /\ current = [k \in Kinds |-> 0]
    /\ known = [k \in Places |-> 0]

------------------------------------------------------------------------------
(* Mutant: a query key without the agent. *)
KeyOfPath(a, p) == <<CHOOSE x \in Agents : TRUE, p>>

(* The query key, and the place the panel shows. *)
Key(a, p) == <<a, p>>

Here == <<agent, path>>
Shown == agent # NoAgent
ShownKey == Key(agent, path)
Shows(k) == Shown /\ ShownKey = k
Listed == Shown /\ cache[ShownKey] # NoListing

Running(k) == fetch[k].state # "idle"

(* A fetch of key k for place p begins, or takes the place of one. *)
Begins(k, p) ==
    /\ Running(k) \/ Cardinality({x \in Places : Running(x)}) < MaxFetches
    /\ fetch' = [fetch EXCEPT ![k] = [state |-> "sent", list |-> [of |-> p, seen |-> 0]]]
    /\ failed' = FALSE

(* The panel shows agent a and path p from now on: it joins the fetch that *)
(* runs for them or begins one, and its running changes get the functions  *)
(* of this rendering.                                                      *)
Observes(a, p) ==
    IF Running(Key(a, p))
    THEN UNCHANGED fetch /\ failed' = FALSE
    ELSE Begins(Key(a, p), <<a, p>>)

Unsettled(o) == ops[o].state \in {"paused", "sent", "carried"}

Rerenders(a, p) ==
    ops' = [o \in DOMAIN ops |->
               IF Unsettled(o) /\ \E k \in Kinds : current[k] = o
               THEN [ops[o] EXCEPT !.opts = <<a, p>>] ELSE ops[o]]

Renders(a, p) ==
    /\ agent' = a
    /\ path' = p
    /\ Observes(a, p)
    /\ Rerenders(a, p)
    /\ UNCHANGED <<online, disk, cache, known>>

------------------------------------------------------------------------------
(* A files tab becomes the active one: a panel that was not there starts   *)
(* at the root, one that was goes on with the other agent.                 *)
SwitchTo(a) ==
    /\ a # agent
    /\ Renders(a, IF Shown THEN path ELSE <<>>)
    /\ UNCHANGED current

(* No files tab is active any more; what runs goes on without the panel. *)
Leave ==
    /\ Shown
    /\ agent' = NoAgent
    /\ path' = <<>>
    /\ current' = [k \in Kinds |-> 0]
    /\ failed' = FALSE
    /\ UNCHANGED <<online, disk, cache, fetch, ops, known>>

(* Mutant: setPath without a new query. *)
SetPathOnly(p) ==
    /\ path' = p
    /\ UNCHANGED <<agent, online, disk, cache, fetch, failed, ops, current, known>>

SetPath(p) == Renders(agent, p) /\ UNCHANGED current

(* A directory of the listing, its first row "..", and the path bar. *)
Enter(p) ==
    /\ Listed
    /\ path = SubSeq(p, 1, Len(p) - 1)
    /\ p # <<>>
    /\ SetPath(p)

Up ==
    /\ Listed
    /\ path # <<>>
    /\ SetPath(SubSeq(path, 1, Len(path) - 1))

Crumb(i) ==
    /\ Shown
    /\ i < Len(path)
    /\ SetPath(SubSeq(path, 1, i))

------------------------------------------------------------------------------
(* Mutant: a delete whose path is the one rendered last, as an upload's is. *)
TargetAsRendered(op) == op.opts

(* Where a request goes that is sent now: to the agent rendered last, and  *)
(* to the path that was confirmed (delete) or rendered last (upload).      *)
Target(op) == IF op.kind = "delete" THEN <<op.opts[1], op.want[2]>> ELSE op.opts

Sent(op) == [op EXCEPT !.state = "sent", !.to = Target(op)]

Mutates(k) ==
    LET op == [kind |-> k, want |-> Here, opts |-> Here, to |-> Nowhere, seen |-> 0,
               waited |-> ~online, state |-> "paused"]
    IN  /\ Len(ops) < MaxOps
        /\ ops' = Append(ops, IF online THEN Sent(op) ELSE op)
        /\ current' = [current EXCEPT ![k] = Len(ops')]
        /\ UNCHANGED <<agent, path, online, disk, cache, fetch, failed, known>>

(* A delete is confirmed at a row of the listing; an upload is possible    *)
(* when the panel's last one is over.                                      *)
Delete ==
    /\ Listed
    /\ Mutates("delete")

Uploading ==
    /\ current["upload"] # 0
    /\ ops[current["upload"]].state # "done"

Upload ==
    /\ Shown
    /\ ~Uploading
    /\ Mutates("upload")

------------------------------------------------------------------------------
(* The server and the agent make the change.  An answer that is not the    *)
(* change's success is one failure for the panel, whatever was made.       *)
Moves(o, op) == ops' = [ops EXCEPT ![o] = op]

Carry(o) ==
    LET k == ops[o].to
    IN  /\ ops[o].state = "sent"
        /\ disk' = [disk EXCEPT ![k] = @ + 1]
        /\ Moves(o, [ops[o] EXCEPT !.state = "carried", !.seen = disk'[k]])
        /\ UNCHANGED <<agent, path, online, cache, fetch, failed, current, known>>

Fail(o) ==
    /\ ops[o].state \in {"sent", "carried"}
    /\ Moves(o, Over)
    /\ UNCHANGED <<agent, path, online, disk, cache, fetch, failed, current, known>>

(* Mutant: the running fetch is good enough. *)
InvalidatesIdle(k) ==
    IF Shows(k) /\ ~Running(k) THEN Begins(k, Here) ELSE UNCHANGED <<fetch, failed>>

(* invalidateQueries with the key rendered last. *)
Invalidates(k) ==
    IF Shows(k) /\ (cache[k] # NoListing \/ ~Running(k))
    THEN Begins(k, Here) ELSE UNCHANGED <<fetch, failed>>

(* The answer of success, and onSuccess, which waits for the new listing. *)
Succeed(o) ==
    LET k == Key(ops[o].opts[1], ops[o].opts[2])
    IN  /\ ops[o].state = "carried"
        /\ Invalidates(k)
        /\ Moves(o, IF Shows(k) /\ online THEN [ops[o] EXCEPT !.state = "settling"] ELSE Over)
        /\ known' = IF Listed /\ ops[o].to = Here /\ ops[o].opts = Here /\ known[Here] < ops[o].seen
                    THEN [known EXCEPT ![Here] = ops[o].seen] ELSE known
        /\ UNCHANGED <<agent, path, online, disk, cache, current>>

Settle(o) ==
    /\ ops[o].state = "settling"
    /\ fetch[Key(ops[o].opts[1], ops[o].opts[2])].state = "idle"
    /\ Moves(o, Over)
    /\ UNCHANGED <<agent, path, online, disk, cache, fetch, failed, current, known>>

------------------------------------------------------------------------------
(* Mutant: the fetch reads what the panel shows by then. *)
FetchReadShown(k) ==
    /\ online
    /\ fetch[k].state = "sent"
    /\ Shown
    /\ fetch' = [fetch EXCEPT ![k] = [state |-> "read", list |-> [of |-> Here, seen |-> disk[Here]]]]
    /\ UNCHANGED <<agent, path, online, disk, cache, failed, ops, current, known>>

(* A fetch is read by the agent and answered.  Its three retries are one   *)
(* attempt here, of which only the last reading counts; without network it *)
(* waits, before the first attempt or between two.                         *)
FetchRead(k) ==
    /\ online
    /\ fetch[k].state = "sent"
    /\ LET p == fetch[k].list.of
       IN  fetch' = [fetch EXCEPT ![k] = [state |-> "read", list |-> [of |-> p, seen |-> disk[p]]]]
    /\ UNCHANGED <<agent, path, online, disk, cache, failed, ops, current, known>>

FetchDone(k) ==
    /\ fetch[k].state = "read"
    /\ cache' = [cache EXCEPT ![k] = fetch[k].list]
    /\ fetch' = [fetch EXCEPT ![k] = NoFetch]
    /\ UNCHANGED <<agent, path, online, disk, failed, ops, current, known>>

FetchFails(k) ==
    /\ online
    /\ Running(k)
    /\ fetch' = [fetch EXCEPT ![k] = NoFetch]
    /\ failed' = (failed \/ Shows(k))
    /\ UNCHANGED <<agent, path, online, disk, cache, ops, current, known>>

(* The window gets the focus, or its network back: an idle query is        *)
(* fetched again.                                                          *)
Refresh ==
    /\ Shown
    /\ ~Running(ShownKey)
    /\ Begins(ShownKey, Here)
    /\ UNCHANGED <<agent, path, online, disk, cache, ops, current, known>>

(* Five minutes unobserved, a query is forgotten. *)
Collect(k) ==
    /\ ~Shows(k)
    /\ ~Running(k)
    /\ cache' = [cache EXCEPT ![k] = NoListing]
    /\ UNCHANGED <<agent, path, online, disk, fetch, failed, ops, current, known>>

(* The network goes, and comes back: the changes that wait are sent. *)
GoOffline ==
    /\ online
    /\ online' = FALSE
    /\ UNCHANGED <<agent, path, disk, cache, fetch, failed, ops, current, known>>

GoOnline ==
    /\ ~online
    /\ online' = TRUE
    /\ ops' = [o \in DOMAIN ops |-> IF ops[o].state = "paused" THEN Sent(ops[o]) ELSE ops[o]]
    /\ UNCHANGED <<agent, path, disk, cache, fetch, failed, current, known>>

------------------------------------------------------------------------------
UserStep ==
    \/ \E a \in Agents : SwitchTo(a)
    \/ Leave
    \/ \E p \in Paths : Enter(p)
    \/ Up
    \/ \E i \in 0 .. Len(path) : Crumb(i)
    \/ Delete
    \/ Upload

OpStep(o) == Carry(o) \/ Fail(o) \/ Succeed(o) \/ Settle(o)

FetchStep(k) ==
    FetchRead(k) \/ FetchDone(k) \/ FetchFails(k) \/ Collect(k)

Next ==
    \/ UserStep
    \/ \E o \in DOMAIN ops : OpStep(o)
    \/ \E k \in Places : FetchStep(k)
    \/ Refresh
    \/ GoOffline
    \/ GoOnline

Spec == Init /\ [][Next]_vars

------------------------------------------------------------------------------
(* What the panel lists is of the agent and the directory it names: keys   *)
(* and fetches never mix two panels' places, however fast they are         *)
(* switched (FilePanel.tsx:23-26).                                         *)
ListedIsHere == Listed => cache[ShownKey].of = Here

(* A change that was confirmed to the panel while it showed a listing of   *)
(* the place is in the listing it shows, once nothing runs and unless the  *)
(* last fetch failed: a listing that was read before the change and        *)
(* arrives after its confirmation must not stay (FilePanel.tsx:30, 35).    *)
ChangeIsShown ==
    Listed /\ ~Running(ShownKey) /\ ~failed => cache[ShownKey].seen >= known[Here]

(* A request hits the place it was made for; one that waited for the       *)
(* network may hit the agent, and an upload the directory, that the panel  *)
(* rendered last, but a delete never takes another path than was confirmed *)
(* (FilePanel.tsx:28-36, 142).                                             *)
HitsWhatWasConfirmed ==
    \A o \in DOMAIN ops :
        ops[o] # Over /\ ops[o].to # Nowhere =>
            /\ ops[o].to = ops[o].want \/ ops[o].waited
            /\ ops[o].kind = "delete" => ops[o].to[2] = ops[o].want[2]

(* The invariant of the proofs: a fetch knows its place, and one that has  *)
(* been read has seen every change confirmed at that place since; a change *)
(* is known after it was made; what has not waited is still rendered for   *)
(* its place when it is sent.                                              *)
FetchesFresh ==
    \A k \in Places :
        /\ Running(k) => fetch[k].list.of = k
        /\ fetch[k].state = "read" => fetch[k].list.seen >= known[k]
        /\ cache[k] # NoListing => cache[k].of = k

KnownIsMade ==
    /\ \A k \in Places : known[k] <= disk[k]
    /\ \A o \in DOMAIN ops :
           /\ ops[o].state \in {"sent", "carried", "settling"} => ops[o].to # Nowhere
           /\ ops[o].state \in {"carried", "settling"} => ops[o].seen <= disk[ops[o].to]

IInv ==
    /\ TypeOK
    /\ FetchesFresh
    /\ KnownIsMade
    /\ \A o \in DOMAIN ops : ops[o].state = "paused" => ops[o].waited
    /\ ListedIsHere
    /\ ChangeIsShown
    /\ HitsWhatWasConfirmed

(* A listing is of the past, and the one that is coming is no older than   *)
(* the one that is there.                                                  *)
ListingsPast ==
    \A k \in Places :
        /\ cache[k] # NoListing => cache[k].seen <= disk[k]
        /\ fetch[k].state = "read" =>
               /\ fetch[k].list.seen <= disk[k]
               /\ cache[k] # NoListing => cache[k].seen <= fetch[k].list.seen

(* The invariant ListingsAdvance is proved from. *)
AdvanceInv == IInv /\ ListingsPast

(* The listing of a place never goes back: as long as one is kept, no      *)
(* fetch, invalidation, failure or switch of tabs puts an older one in its *)
(* place, or one of another place (FilePanel.tsx:23-36).                   *)
ListingsAdvance ==
    [][\A k \in Places :
          cache[k] # NoListing /\ cache'[k] # NoListing =>
              cache'[k].of = cache[k].of /\ cache'[k].seen >= cache[k].seen]_vars
==============================================================================
