# A verification development for aiop

aiop is a small operations console. An **agent** runs on every managed host and keeps one
WebSocket to the **server**; the **browser** opens terminals on the hosts and lists,
downloads, uploads and deletes their files through the server. All of the server's run-time
state is in memory, in one `Hub`, and is shared by the goroutines of its handlers.

This directory holds TLA+ modules that model that system, TLC configurations that check them
on small instances, and proofs checked by TLAPS.

## 1. Inventory

| Component | State | Operations | Hard because |
|---|---|---|---|
| `server/internal/hub/hub.go` | `agents`, `sessions`, `pending`, each connection's session index; a mutex | Register, Unregister, Add/Get/RemoveSession, RegisterRequest, ResolveRequest, FinishRequest | called by every goroutine; keyed by agent id, so blind to which of an agent's connections it is asked about |
| `handler/agent_ws.go` | one goroutine per agent connection | handshake, Upsert, Register, read loop, deferred Unregister and status | several connections of one agent overlap; a close of `Done` after a stale test; a panic in a deferred call |
| `handler/terminal.go` | per terminal: main goroutine, reader goroutine, `Done`, `Frontend` (256) | open, AddSession, shell_start, relay both ways, RemoveSession | uses one `AgentConn` for good; two goroutines race for `Done`; the reader's panic is nobody's |
| `handler/files.go` | per request: a response channel (512) and a timer | List, Download, Upload, Delete | answers may be late, lost, out of another connection, or an ack where a chunk is expected |
| `agent/.../ws_client.go` | `sendCh` (256) for all connections, `shells`, backoff | connect, writer, reader, one goroutine per file request and shell | `sendCh` outlives connections and drops when full; an unsynchronised map |
| `agent/.../filemgr`, `executor` | the host's files and shells | ListDir, ReadFileChunked, WriteFile, DeletePath; a pty | one goroutine per request |
| `db/db.go`, `handler/agents.go` | table `agents` | UpsertAgent, UpdateAgentStatus, UpdateAgentLastSeen, List, Delete | select then insert; status and Hub are updated in two steps; a row deleted under a connection |
| `handler/auth.go`, `middleware/auth.go` | none | Login, Auth | stateless |
| `frontend/src/store/tabs.ts` | open tabs, active tab | open, close, setActive | a tab closed while active; the page mounts and unmounts panels after it |
| `frontend/src/store/auth.ts`, `api/client.ts`, `router`, `pages/Login.tsx` | token (kept over reloads), page, waiting form | login, logout, both interceptors, RequireAuth | an answer acts on the session that is there when it arrives: a late 401, a late login |
| `components/TerminalPanel.tsx` | per terminal tab: an xterm with a size, a WebSocket, a timer | mount, effects and clean-up, onopen, resize, fit | three copies of one size; effects run again on a new token |
| `components/FilePanel.tsx` | directory, query cache, running changes | navigate, list, delete, upload | one panel serves every files tab; fetches and changes overlap and wait for the network |
| `pages/Dashboard.tsx` | the above, mounted | agent list, tab bar, logout | decides what is mounted |
| deploy, scripts | none | restart policy | the server is restarted with an empty Hub |

How they interact: a browser's HTTP request or WebSocket runs a handler, which takes the
agent's `AgentConn` out of the Hub and writes to it. The agent's answers arrive in that
connection's read loop, which finds the session or the pending request in the Hub and passes
them on through a channel. `Done` is a channel that three goroutines may close: the terminal's
reader (browser gone), the read loop (`shell_exit`) and Unregister (agent gone).

What makes each correct: the Hub's maps agree with the goroutines that are running (no session
without handler, no handler forgotten, no entry without connection); a terminal ends when either
side goes; a file request gets at most one answer, its own, and a true one; the table agrees with
the Hub; the tabs agree with the active tab. `PROJECT.json` lists the hazards behind these at
their lines.

## 2. Modules

| Module | Models | Builds on |
|---|---|---|
| `Hub` | `agents`, `sessions` and the index; one operator per critical section of `Hub.mu` | |
| `TerminalHub` | the goroutines of `agent_ws.go` and `terminal.go`, the network, the server's crash and restart | `Hub` |
| `TerminalService` | abstract: what the server promises about a terminal | |
| `AgentLink` | `Client.send`, `connect` and its writer, the connections, the server's handshake and read loop: the way from agent to server | |
| `FileRequests` | `files.go`, `Hub.pending`, the agent's file goroutines | `AgentLink` |
| `RequestReply` | abstract: what the file API promises | |
| `ShellRelay` | the agent's shells and their map, `streamShell`, the server's relay, the `Frontend` channel, death and restart of the agent | `AgentLink` |
| `LossyStream` | abstract: what a terminal is promised of its shell's output | |
| `AgentStore` | the `agents` table, its use by the handshake and the end of a connection, Delete, the tabs that keep an agent's id, the crash of the server over the table | |
| `AgentDirectory` | abstract: what the table and the Hub together promise about an agent's number | |
| `Tabs` | the tab store | |
| `WebSession` | token, login form, routes, the calls under way and the interceptors; the server's answers | |
| `Browser` | a window: terminal panels, their sockets and sizes, over tabs and session | `Tabs`, `WebSession` |
| `FilePanel` | the file panel over the query cache | |
| `MCTerminalHub`, `MCFileRequests`, `MCShellRelay`, `MCAgentStore`, `MCBrowser`, `MCFilePanel` | symmetry sets and constants of the TLC instances | |
| `TerminalHubProofs`, `AgentLinkProofs`, `FileRequestsProofs`, `DownloadProofs`, `ShellRelayProofs`, `AgentStoreProofs`, `BrowserProofs`, `FilePanelProofs` | theorems and proofs | the above |

Every operator named `...` with the comment *Mutant* is a plausible wrong version of the
definition that follows it. No specification uses it; replacing the definition by it makes a
property fail, which `PROJECT.json` records under "mutants".

### Terminals: `Hub`, `TerminalHub`, `TerminalService`

A step is what one goroutine does between two points where another may run: one critical section
of the Hub, one test of `Done`, the close that follows, one blocking call. So `shell_exit` is
`RecvShellExit` (GetSession and the test) and `CloseOnExit`; the reader's end is `BrowserReadFails`
(the test) and `CloseOnBrowserGone` or `ReaderPanics`. A close of a closed channel panics:

- in `CloseOnExit` and in the deferred Unregister (`LeavePanics`) gin's recovery catches it, after
  the deferred calls. Unregister has then closed an arbitrary part of the sessions (Go visits a map
  in no fixed order) and not deleted the entry;
- in the reader, a bare `go func`, it ends the process (`ReaderPanics`). The container's restart
  policy starts a new one (`Restart`) with an empty Hub.

A connection of the model is one `*AgentConn` and is used once; the agent that dials it, `hostOf`,
and the agent a session is for, `target`, are chosen in Init. `Dial` requires that no other
connection of the agent is up in the network, as the agent holds one at a time, but the server's
handler of an earlier one may be anywhere. Shell output is the possibility of `TakeOutput`: what the
Frontend channel holds is in `ShellRelay`.

`TerminalService` knows neither connections nor goroutines. A terminal is entered, told to stop at most
once and only for a cause of its own (its browser left, its shell ended, its agent lost a
connection), ends only when told or when its browser has left, and never comes back; the server takes
it from the list behind its back only by telling it in the same step. A server may go down, and the one
case in which it does is named: a terminal told while its browser leaves. `TerminalHub` implements it under
`Stage` and `CausesOf`: the stage is read off the main goroutine and `sessions`, the causes off browser,
shell and the network.

### Files: `AgentLink`, `FileRequests`, `RequestReply`

The agent's messages pass through `sendCh`, the wire of a connection and a response channel, each a
sequence. `sendCh` is shared by everything the agent sends and by all its connections in turn; a module
has only its own messages in it, so `Enqueue` may find no room whatever `sendCh` holds. `LinkBreaks` keeps any first part of what was written; the server may read it long
afterwards. A message is its request, its kind, index, total and whether it reports an error; an ack
has index and total 0, which is how `json.Unmarshal` reads it as a chunk.

Upload and Delete are one kind, `Changes`: they are asked for and answered alike. A file operation is
one step of the agent that succeeds or fails. GetAgent may return any connection that has been
registered, also one that has ended: this over-approximates the Hub, whose entries `TerminalHub`
characterises.

`RequestReply` is what the browser may rely on: a request is answered at most once; "ok" and
"error" are what the agent did (except that an unreadable directory is listed as an empty one); an
operation is carried out at most once, and not after the request was turned away, but possibly after
it timed out. `FileRequests` implements it under the mapping in `Abstract`.

### Shells: `ShellRelay`, `LossyStream`

A piece of output goes through `sendCh`, the wire and `Frontend` and is `shown`; each of its messages
carries its place in what the shell wrote, which the code does not, so that order can be stated.
`StreamOutput` and `StreamEnds` are the two sends of `streamShell`, `Deliver` the read loop with `Relay`
for `shell_output` and `Tell` for `shell_exit`, `TakeOutput`, `WriteReturns` and `Ends` the main loop of
the terminal. What `TerminalHub` has step by step is coarse here: `Open` is GetAgent, AddSession and
`shell_start`; a test of `Done` and the close are one step; `Unregister` tells any terminals it likes, which
includes all that `TerminalHub` allows it. A session that was told may or may not still be in the Hub, so
`Relay` may drop its output.

The map `shells` is used without a lock by the connect loop and by every `streamShell`. The Go runtime
ends a process in which it sees two of them at once: `RaceAborts` may happen whenever a `delete` is due
while the loop, or another `streamShell`, may be in the map. The agent's shells, `sendCh` and connection are
gone, and systemd starts it again (`Restart=always`), which is the next `Dial`. Shells are not ended by a
broken connection or by a browser that leaves: they go on, and their output goes over the next
connection, where the server drops it unless the old terminal is still listed. This is why
`OutputInOrder` speaks of a connection that holds: output of the old and of the new one may arrive in
either order.

`LossyStream` has neither queues nor connections: a shell writes numbered pieces and a mark at the end, each of
them may be lost on the way, none is shown twice, and none overtakes another while the terminal's line is
intact. `ShellRelay` implements it: what is on the `Way` of a terminal are the numbers found in `sendCh`, on any
wire and in its `Frontend`, and its `Line` is intact while the connection it was opened over holds.

### The agents table: `AgentStore`, `AgentDirectory`

`SetMaxOpenConns(1)` makes the table a critical section of one statement. `UpsertAgent` is two of
them, SELECT (`SelectFinds`, `SelectFindsNone`) and then INSERT or UPDATE, with any other handler's
in between; the end of a connection is Unregister and then `MarkOffline`, or less if one of them
fails (`Unmarked`). `table` and `status` are the rows, `lastId` the AUTOINCREMENT counter, which
`Delete` leaves alone. A host is what the SELECT compares, hostname and ip; it dials with one
connection at a time, while the server may still be anywhere in the handshake of an earlier one.

A crash ends every handler and empties the Hub and leaves the table; the next process changes
nothing in it. Tabs survive both: the browser keeps the number it was given and uses it for every
later request, which is why it matters that an id, deleted or not, never changes hands
(`TabReachesItsHost`). The module has of the Hub the entries only; what becomes of sessions is in
`TerminalHub`, which takes one id for each agent in turn. That is the one thing a second row
(section 6) would change there: two ids of one host behave as two agents.

`AgentDirectory` has neither handshakes nor SQL: numbers are issued in order, once each, to one host; a number is listed
from its issue to its removal and never again; listed or removed, it reaches the host it was issued to, or
nobody. `AgentStore` implements it. The table does not say of a deleted row whose number it was; `IssuedTo` reads it
off the connections, which keep the id they were given. A host may be issued several numbers, as the
code promises no more (section 6).

### The window: `Tabs`, `WebSession`, `Browser`

JavaScript runs one handler at a time, so a step is one event: a click, an answer, a socket's event, a
timer. What React does because of it belongs to the step, since effects that follow a click or a
store's change are flushed before the next event. So `PanelsFollow` is conjoined to every step of the
session: it compares token and page before and after and runs the first effect of the panels (new
terminal, new socket), its clean-up, or nothing. `Timer` is the second effect. A StrictMode build
that runs effects twice is a development build and is not modelled.

Three things happen between events and are what is hard. A *call* is sent with the token of that
moment, decided by the server later, and received later still: the interceptor's `logout` and the
form's `login` act on the session they find (`Rejected`, `LoggedIn`). A *socket* opens after its
terminal has been fitted, resized or replaced. And the *timer* of 50 ms fits a terminal without telling
the shell. A login's answer that arrives when its form is gone still stores its token; with the
dashboard open (`Visit` has led back to it) every panel's effect runs again.

The server is Grant, Refuse, Serve and Expire: the login handler and the `Auth` middleware, which is
stateless. An asleep window (no focus or no network) does not poll and may lose calls.

### The file panel: `FilePanel`

A directory is a number, how many changes were made in it, and a listing is the number it saw, with
the place it was read from. The panel's query key is `Key`; the cache keeps what was fetched for each
key, fetches run one per key, and the panel shows the entry of its own key. Deletes and uploads are
`ops`: the place the user confirmed (`want`), the one the functions were rendered for last (`opts`), and
the one the request went to (`to`). react-query is outside the repository; the module's header
names what it is taken to do, and `PROJECT.json` marks those definitions external.

`ChangeIsShown` says nothing of a change whose panel has moved on before the answer: `onSuccess` then
invalidates only the key rendered last, and the other listing stays until it is fetched again. `known`
therefore counts a confirmed change only if panel, `opts` and `to` agree. `ListingsAdvance` is about the cache and
not the panel: what is kept for a place, shown or not, is only ever replaced by a newer listing of it.

## 3. Runs

| Run | Instance | States | Shows |
|---|---|---|---|
| terminal_sessions | 2 agents, 2 connections, 2 terminals | 782,000 | sessions, index, entries and `Done` agree (ListedIsAttached, DetachedIsDone, IndexedWhileRegistered, DoneHasCause, IndexAgrees, DeadEntryOnlyAfterPanic, LostOnlyToSameAgent); ServiceInv, the invariant of the proofs, with TypeOK in it; TerminalsAsPromised, the refinement of TerminalService |
| terminal_liveness | 1 agent, 2 connections, 1 terminal | 11,000 | BrowserGoneEndsTerminal, ReaderEndsWithTerminal, BrokenLinkIsReaped |
| file_answers | a download of 3 chunks and a change, 2 connections, capacities 2 and 2 | 1,030,000 | DownloadIntact, UnreadableNeverServed, PipelineTrue; IInv, the invariant of the proofs, with TypeOK in it; AnswersAreTrue, the refinement of RequestReply |
| shell_relay | 2 terminals over 1 connection or 1 over 2, the shell of one writes twice; `sendCh` of 2, `Frontend` of 1 | 494,000 | OutputInOrder, NoOutputTwice, ExitTold; OnceInv, the invariant of the proofs, with TypeOK in it; OutputAsPromised, the refinement of LossyStream |
| agent_store | 2 hosts, 3 connections, 3 rows | 389,000 | RowIsOwn, TabReachesItsHost, StatusLostToSameHost, DeletedStaysDeleted; DirectoryInv, the invariant of the proofs, with TypeOK in it; DirectoryAsPromised, the refinement of AgentDirectory |
| browser | 2 tabs, 2 tokens, 2 calls, 1 window size and the two of an unfitted and a hidden terminal | 581,000 | ActiveIsTab, SocketsFollowPanels, DisplayedIsFitted, DriftsByRefitOnly, EndsForAReason, ExpiredSessionEnds; IInv, the invariant of the proofs, with TypeOK in it |
| file_panel | 2 agents with a root and one directory, 1 change, 2 fetches | 1,901,000 | ListedIsHere, ChangeIsShown, HitsWhatWasConfirmed, ListingsAdvance; AdvanceInv, the invariant of the proofs, with TypeOK in it |

Five more runs each refute what a comment of the source says (section 6).

*Why the bounds are enough to be interesting.* Every hazard of the Hub needs at most two connections of
one agent and one terminal between them; a second agent shows isolation, a second terminal the partial
Unregister and a shared index. For files, two requests share `sendCh` and a wire, two connections let
messages of the first arrive after, or over, the second; three chunks in channels of two make
both drop messages. No run has a listing, or a second download beside the first: an instance with three
requests exceeds five minutes, so these are left to the theorems, which hold for every set of requests.
Capacities in the code are 256 and 512.

In `ShellRelay` (`MaxOutput`) the shell that writes twice can be reordered, and the other one, whose exit
is its only message, shares the queues with it; a `Frontend` of one is full at once. Two terminals over two connections exceed five minutes and are left to
the theorems; the run has either with the constraint `OneOrTheOther`: a second dial and a second terminal
exclude each other. `Dial` and `Open` are the only steps that lead out of it, and neither is fair, so a behaviour that
stays within it is fair in the run exactly when it is fair, and `ExitTold` loses nothing.

In `Browser` (`MaxTabs`, `MaxLogins`, `Calls`) two tabs are the first, the last and the only one in
turn; two tokens are a session and the one after it, and two calls let an answer to the first session
meet the second while a login is under way. One window size is enough, as a terminal that has missed
a fit has another one anyhow. In `FilePanel` (`MaxOps`, `MaxFetches`) one change beside two fetches
lets a listing be read before the change and arrive after it; two agents with two directories each are
all that a switch, a move and a wrong key can mix up.

In `AgentStore` three connections of two hosts let a row be deleted and its host, or the other one, be
inserted again while a connection and a tab have the old id. `MaxId` bounds the rows that are
inserted, in the guard of `Insert`; as each connection inserts at most one, three are all that occur.

`MaxDials` bounds the connections an agent opens, in the guard of `AgentLink!Dial`; each connection,
session and request is used once. These sets are finite, so every run comes to an end and
`CHECK_DEADLOCK` is off: a system in which all connections are closed and all requests answered has
nothing left to do.

*Fairness* (`FairSpec`). Weak fairness of each goroutine's next step where it does not depend on another
party: the Go scheduler runs every runnable goroutine. A write to a broken link and a read from one
return an error; a write to a link that holds is not assumed to return, since `Send` has no
deadline. `TakeOutput`, `ForwardInput`, the browser's and the agent's steps have no fairness. The
liveness properties therefore except a terminal that is blocked in a Send for good.
`SeeDone` needs no more than weak fairness even though output may be taken instead: the
property holds because a write to a browser that has gone fails.
In `Browser`, weak fairness of the polling (a timer of the browser) and strong fairness of the
server's answers and of their arrival, which a reload may cut off again and again but not always:
`ExpiredSessionEnds` excepts the window that is put to sleep. The user's steps have none.
In `ShellRelay` only the agent's writer, the last send of `streamShell` and the server's read loop are fair:
none of them waits for a browser, a shell or another terminal, and that is what `ExitTold` is about.

## 4. Proofs

The proof modules prove, for every value of the constants, what the runs check on instances. Assumptions
are those of the modules: the "none" values are not members of the sets they extend, the sizes of an unfitted and a hidden terminal are not those of a window, the set of
directories is closed under going up, the three kinds of request are disjoint, the register message is no answer,
capacities and bounds are positive.

**Terminals.** None of the safety properties is inductive. `ListedIsAttached` needs to know that
Unregister and RemoveSession take out what they should, `IndexedWhileRegistered` that a terminal's
`captured` connection belongs to its agent and was registered before (`CapturedRegistered`), so that a
later HubRegister cannot empty the index of a connection in use; `DetachedIsDone` that every indexed
session that is not listed is done (`IndexOwned`); `DoneHasCause` that a handler about to close `Done`
holds a shell that has exited (`ExitingHoldsExited`) and that the reader closes only after its browser
has gone (`NotYetStarted`); `DeadEntryOnlyAfterPanic` that an entry is filed under its own agent
(`EntryOwned`). `IInv` is their conjunction. The proof has a lemma per action, and in it a step per
conjunct. Theorems: `Invariance`, `TypeCorrect`, `SessionsAttached`, `DetachedTold`, `StoppedForACause`, `IndexComplete`,
`IndexSound`, `DeadEntryNeedsPanic`, `AgentsIsolated`.

`PromiseKept` is the refinement of `TerminalService`, again a lemma per group of steps. It needs two facts that
nothing else does and that `IInv` therefore leaves out: a handler on its way out was told or has lost
its browser (`EndsForACause`), or else a terminal could end for no reason, and a server that is down has left
nothing behind (`DownIsEmpty`), or else the next one would go on with its terminals. `ServiceInv` is all
of them (`ServiceInvariance`). The hard step is Unregister, which may tell a part of an index and panic: what it tells
is the departing agent's and listed because entry and index say so (`EntryOwned`, `IndexOwned`), and was
not told before, or the close would have been the panic.

**Files.** The invariant is that every message anywhere between agent and handler tells the truth about
its request (`PipelineTrue`), with `JobsMatch` to relate the agent's goroutine to the HTTP handler.
`LinkTypeStep` is proved once for an arbitrary set of messages and used twice, for all messages
(types) and for the true ones (truth). `OutcomeGrows` is the core: an outcome is decided once, so a
message that was true stays true. `Refinement` maps each step to a step of `RequestReply` or to a
stutter. Theorems: `Invariance`, `TypeCorrect`, `PipelineTruthful`, `UnreadableSafe`, `Refinement`.

**Downloads.** That a download is in order is a statement about four queues at once: what the handler has
collected, its response channel, the wire and `sendCh`. `Gapless` cuts the numbers sent so far at two
places, `b` and `d`, such that each queue carries exactly its part; a step moves one chunk from the head
of one queue to the end of the next and moves one cut with it. `Intact` are the downloads this is
promised for: the connection they came over holds, and nothing of theirs was dropped. It needs that
connections come one after the other (`ConnectionsOrdered`), so that the agent's writer and the handler
speak of one wire, and that a handler that waits is registered (`PendingUntilAnswered`). Theorems: `NoGaps`,
`DownloadsIntact`.

**Shells.** `OutputInOrder` is again about four queues, but nothing keeps a message from being dropped: `InOrder`
cuts what a shell has posted at three places, and each queue has messages of its part only, in
order, with any of them missing. A step takes the head of a queue and drops it or appends it to the next
one, and moves the cut behind it. That a terminal's cuts can start at 0 needs that nothing of it is under
way before its `shell_start` (`Unborn`, `Started`), and that one wire counts needs `ConnectionsOrdered`.
`AgentLinkProofs` has what these proofs share with those of the files. Theorems: `RelayInOrder`, `RelayTypes`,
`ShownInOrder`.

`StreamKept` is the refinement of `LossyStream`. Order alone would let a message be in two queues, or twice in
one, as long as the cuts allow it, so the invariant gets a second half, `NoCopies`: a place in the output
is found in one queue at most, once, and only after it was posted. `IndicesTail`, `IndicesAppend` and
`IndicesSubSeq` say which places a queue holds after it has given, taken or lost something; with them a
step is one of four moves (the head of a queue to another, a queue shrinks, a new place is posted, or nothing of this
terminal). `FirstOfTheWay` joins the two halves: while the line is intact, the head of `Frontend` has the least place on
the whole way. That nothing is shown twice (`NothingShownTwice`) is not an invariant of queues at all; it is argued on the
stream: what was shown is below `written` and no longer on the way, and `Put` adds
no number below `written`.

**The window.** `SocketsFollowPanels` is inductive only with `Shown => token # NoToken`, which is what
RequireAuth does, with the tabs being distinct and never reused (`TabsDistinct`), and with the timer
running for the active terminal only (`TimerIsActive`); `EndsForAReason` needs that a 401 comes of a login
or of a token that is not valid (`UnauthorizedIsInvalid`). The steps of the session are first reduced
to what they do to token, page and calls, so that `PanelsFollow` is treated once. Theorems: `Inductive`,
`TypeCorrect`, `ActiveTab`, `SocketsOfPanels`, `Fits`, and the action properties `DriftOnlyByTimer` and
`EndsOnlyForAReason`.

**The file panel.** `ChangeIsShown` rests on `FetchesFresh`: a fetch that has been read has seen every
change confirmed at its place since, because the confirmation replaced a fetch that was still running;
and on `KnownIsMade`. `HitsWhatWasConfirmed` needs that what is paused has waited for the network.
Theorems: `Inductive`, `TypeCorrect`, `ListsWhatItNames`, `ShowsWhatWasConfirmed`,
`ChangesWhatWasConfirmed`. `ListingsAdvance` needs more, `ListingsPast`: no listing counts changes that have
not been made, and one that has been read and not yet arrived counts no fewer than the one in the cache. That one fetch runs
per key is what makes it inductive. Theorems: `AdvanceInvariance` and the action property `NeverGoesBack`.

**The agents table.** `RowIsOwn` alone is inductive only because an INSERT takes an id nobody has:
`IdsGivenOnce` bounds every id in the table, at a connection or in a tab by `lastId`. `TabOwned` says
that the connections with a tab's id are of the tab's host, also once the row has gone, and
`EntryOwned` that the Hub has each connection under its own id; the two give `TabReachesItsHost`.
`StatusLostToSameHost` is inductive with `RowIsOwn`: two connections with the id of a row that exists
are both of its host. Theorems: `Invariance`, `RowsOwned`, `TabsReachTheirHost`, `StatusIsolated`, and
the action property `DeletedForGood`.

`DirectoryKept` is the refinement of `AgentDirectory`. Its invariant adds to `IInv` that the numbers up to `lastId` are
each some connection's, all of one host (`NumbersOwned`), without which nobody could say whom a deleted number
was issued to, and that a server that is down has neither handlers nor entries (`DownIsIdle`), without which a handshake
could be completed by a server that is not there. `IssuedKept` is the lemma the steps share: one that gives
out no number leaves each with its host. Theorems: `DirectoryInvariance`, `DirectoryKept`.

Only model-checked: the liveness properties (`BrowserGoneEndsTerminal`, `ReaderEndsWithTerminal`,
`BrokenLinkIsReaped`, `ExitTold`, `ExpiredSessionEnds`), since liveness under fairness and ENABLED are out of
the prover's reach. Every invariant and action property the passing runs check is a theorem.

## 5. Not modelled, and why

- The bytes of a terminal: what they are, and how many a pty or a WebSocket takes before a write
  waits. `shell_stop`, which the server never sends.
- Of the `agents` table, `os`, `arch`, `last_seen` and `created_at`: nothing depends on them. The
  `status` column is modelled although `List` puts the Hub's word in its place. `users` and
  `audit_logs` are written at the start or not at all.
- A crash of the server while file requests wait: their browsers lose the connection, and the next
  process knows nothing of them. `TerminalHub` and `AgentStore` have the crash where state survives it.
  The agent dies in `ShellRelay`; for a file request that is a connection that breaks after the agent has
  done a part of its work, which `FileRequests` has.
- The time of anything: time limits and the backoff may pass at any moment.
- Of the frontend: several windows that share localStorage; the install dialog and the list of
  agents, which only show what the server says; a download in the file panel, which changes nothing
  there. `pages/FileManager.tsx` and `pages/TerminalPage.tsx` are on no route and imported nowhere. Of
  react-query only what `FilePanel` needs, and no liveness of fetches: retries and time-outs are its own.
- Rendering, configuration and scripts have no behaviour to explore. `handler/auth.go` and
  `middleware/auth.go` are stateless and appear as the server's steps in `WebSession`.

## 6. Where the code and its comments disagree

- `hub.go:38` "Hub manages all agent connections": `ConnectedIsManaged` fails. An old connection's
  late Register or Unregister replaces or removes the entry of the connection the agent holds.
- `db.go:21` "self-registers on connect, identified by hostname+ip": `OneRowPerHost` fails. Two
  handshakes of one new host may both find no row and both insert one.
- `hub.go:143` "CancelRequest closes the channel so the HTTP handler unblocks.", and the answer 503
  "agent disconnected" that every file handler has for a closed channel (`files.go:62-64`, 104-107,
  163-166, 203-206): `DisconnectUnblocks` fails. Nothing calls `CancelRequest` and nothing else closes
  the channel, so that branch is dead and a disconnected agent's requests run into their time limit.
- `ws_client.go:233` "channel full, drop (shouldn't happen in practice)": `DownloadOkIsWhole` fails. A
  download can be answered 200 with a chunk missing.
- `agent_ws.go:37` "First message must be register": `FirstMessageIsRegister` fails. `sendCh` may hold
  older messages when the agent reconnects.

Seen while modelling, where nothing in the repository says otherwise: Unregister closes the sessions
that are indexed under the present entry (hub.go:70), so a terminal that was added while its agent had
no entry stays open when the agent leaves. A window resized while a terminal is hidden leaves its shell
in the old size until the next resize, since the fit on switching back is not sent
(TerminalPanel.tsx:67). Tabs outlive a logout and are connected anew by the next login, whoever it is.
A refused login in a form beside a valid session (back in the history) ends that session (client.ts:15).
Between two files tabs the file panel stays mounted, with its directory and its running changes, as it
has no key (Dashboard.tsx:194). A read of 4096 bytes may end within a character, which then reaches
the browser as two replacement characters (ws_client.go:205). The pty of a shell that has ended is not
closed and its process not waited for, as `streamShell` does not call `Close`.

## 7. Plan

Done, in this order: `Hub` and `TerminalHub`; `AgentLink`, `FileRequests` and `RequestReply`; `AgentStore`;
`Tabs`, `WebSession` and `Browser`; `FilePanel`; `ShellRelay`; the proofs of each; `TerminalService`,
`LossyStream` and `AgentDirectory` and their refinements. What could follow:

1. Liveness of a file request under the fairness of its timer, and a server that dies while one waits.
2. `ShellRelay` with the Hub of `TerminalHub` in place of the coarse `Open` and `Unregister`.
3. Several windows that share localStorage in `WebSession`.
