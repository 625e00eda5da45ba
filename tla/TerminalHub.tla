----------------------------- MODULE TerminalHub -----------------------------
(***************************************************************************)
(* The goroutines that share the Hub: one AgentWSHandler.Connect per agent *)
(* connection (handler/agent_ws.go) and, per terminal, the main loop and   *)
(* the reader goroutine of TerminalHandler.Connect (handler/terminal.go).  *)
(* A step is what one goroutine does between two points where another may  *)
(* run: a critical section of the Hub, a "is Done closed?" test, the close *)
(* that follows it, a blocking read or write of a WebSocket.               *)
(*                                                                         *)
(* A panic has two outcomes.  In a goroutine that gin started it is caught *)
(* by gin.Recovery, after the deferred calls have run.  In the reader,     *)
(* which is a bare `go func`, it ends the server process.                  *)
(***************************************************************************)
EXTENDS Hub

CONSTANTS NoSession   \* "no session" in exiting

ASSUME NoSessionAssumption == NoSession \notin Sessions

VARIABLES
    server,    \* is the server process up?
    link,      \* the network connection under each agent WebSocket
    handler,   \* where AgentWSHandler.Connect of each connection stands
    exiting,   \* the session whose shell_exit a handler is about to act on
    panicked,  \* has the deferred Unregister of a connection panicked?
    term,      \* where TerminalHandler.Connect of each session stands
    captured,  \* the *AgentConn it got from GetAgent and keeps using
    reader,    \* where the reader goroutine of each session stands
    browser,   \* the browser's end of the terminal WebSocket
    shell      \* the shell the agent runs for the session

connVars == <<link, handler, exiting, panicked>>
termVars == <<term, captured, reader, browser, shell>>
vars == <<hubVars, server, connVars, termVars>>

Live == {"serving", "exiting", "leaving"}     \* Connect is between Register and its end
Attached == {"starting", "streaming", "writing", "removing"}

TypeOK ==
    /\ HubTypeOK
    /\ server \in {"up", "down"}
    /\ link \in [Conns -> {"none", "up", "down"}]
    /\ handler \in [Conns -> {"idle", "handshake", "refused", "closed"} \cup Live]
    /\ exiting \in [Conns -> Sessions \cup {NoSession}]
    /\ panicked \in [Conns -> BOOLEAN]
    /\ term \in [Sessions -> {"idle", "upgrading", "finished"} \cup Attached]
    /\ captured \in [Sessions -> Conns \cup {NoConn}]
    /\ reader \in [Sessions -> {"none", "reading", "sending", "closing", "exited"}]
    /\ browser \in [Sessions -> {"none", "open", "closed"}]
    /\ shell \in [Sessions -> {"none", "running", "exited"}]

Init ==
    /\ HubInit
    /\ server = "up"
    /\ link = [c \in Conns |-> "none"]
    /\ handler = [c \in Conns |-> "idle"]
    /\ exiting = [c \in Conns |-> NoSession]
    /\ panicked = [c \in Conns |-> FALSE]
    /\ term = [s \in Sessions |-> "idle"]
    /\ captured = [s \in Sessions |-> NoConn]
    /\ reader = [s \in Sessions |-> "none"]
    /\ browser = [s \in Sessions |-> "none"]
    /\ shell = [s \in Sessions |-> "none"]

------------------------------------------------------------------------------
(* The agent's end of a connection and the network.                        *)

(* The agent's connect loop holds one connection at a time: it dials again *)
(* once it has seen the last one fail, which the server may not have.      *)
Dial(c) ==
    /\ server = "up"
    /\ handler[c] = "idle"
    /\ \A d \in Conns : hostOf[d] = hostOf[c] => link[d] # "up"
    /\ link' = [link EXCEPT ![c] = "up"]
    /\ handler' = [handler EXCEPT ![c] = "handshake"]
    /\ UNCHANGED <<hubVars, server, exiting, panicked, termVars>>

LinkBreaks(c) ==
    /\ link[c] = "up"
    /\ link' = [link EXCEPT ![c] = "down"]
    /\ UNCHANGED <<hubVars, server, handler, exiting, panicked, termVars>>

------------------------------------------------------------------------------
(* AgentWSHandler.Connect.                                                 *)

(* No register message in time, a bad one, or UpsertAgent failed. *)
Refuse(c) ==
    /\ handler[c] = "handshake"
    /\ handler' = [handler EXCEPT ![c] = "refused"]
    /\ link' = [link EXCEPT ![c] = "down"]
    /\ UNCHANGED <<hubVars, server, exiting, panicked, termVars>>

Register(c) ==
    /\ handler[c] = "handshake"
    /\ HubRegister(c)
    /\ handler' = [handler EXCEPT ![c] = "serving"]
    /\ UNCHANGED <<server, link, exiting, panicked, termVars>>

(* A shell_exit arrives: GetSession, then the test of Done.  The agent     *)
(* process outlives its connections, so any connection of the session's    *)
(* agent may carry it, also data that was in flight when the link broke.   *)
RecvShellExit(c, s) ==
    /\ handler[c] = "serving"
    /\ shell[s] = "running"
    /\ target[s] = hostOf[c]
    /\ shell' = [shell EXCEPT ![s] = "exited"]
    /\ IF s \in sessions /\ ~done[s]
       THEN /\ handler' = [handler EXCEPT ![c] = "exiting"]
            /\ exiting' = [exiting EXCEPT ![c] = s]
       ELSE UNCHANGED <<handler, exiting>>
    /\ UNCHANGED <<hubVars, server, link, panicked, term, captured, reader, browser>>

(* Mutant: Done is sent to instead of closed, and nobody is left to take.  *)
CloseOnExitBlocks(c) ==
    /\ handler[c] = "exiting"
    /\ ~done[exiting[c]]
    /\ CloseDone(exiting[c])
    /\ handler' = [handler EXCEPT ![c] = "serving"]
    /\ exiting' = [exiting EXCEPT ![c] = NoSession]
    /\ UNCHANGED <<server, link, panicked, termVars>>

(* close(sess.Done) after the test, which may have gone stale. *)
CloseOnExit(c) ==
    /\ handler[c] = "exiting"
    /\ IF done[exiting[c]]
       THEN /\ handler' = [handler EXCEPT ![c] = "leaving"]
            /\ UNCHANGED hubVars
       ELSE /\ CloseDone(exiting[c])
            /\ handler' = [handler EXCEPT ![c] = "serving"]
    /\ exiting' = [exiting EXCEPT ![c] = NoSession]
    /\ UNCHANGED <<server, link, panicked, termVars>>

(* ReadMessage fails: the loop ends. *)
ReadFails(c) ==
    /\ handler[c] = "serving"
    /\ link[c] = "down"
    /\ handler' = [handler EXCEPT ![c] = "leaving"]
    /\ UNCHANGED <<hubVars, server, link, exiting, panicked, termVars>>

(* The deferred calls: Unregister with the agent's id, then conn.Close. *)
Leave(c) ==
    /\ handler[c] = "leaving"
    /\ HubUnregister(hostOf[c])
    /\ handler' = [handler EXCEPT ![c] = "closed"]
    /\ link' = [link EXCEPT ![c] = "down"]
    /\ UNCHANGED <<server, exiting, panicked, termVars>>

LeavePanics(c) ==
    /\ handler[c] = "leaving"
    /\ HubUnregisterPanics(hostOf[c])
    /\ panicked' = [panicked EXCEPT ![c] = TRUE]
    /\ handler' = [handler EXCEPT ![c] = "closed"]
    /\ link' = [link EXCEPT ![c] = "down"]
    /\ UNCHANGED <<server, exiting, termVars>>

------------------------------------------------------------------------------
(* TerminalHandler.Connect, main goroutine.                                *)

(* Mutant: the second result of GetAgent is ignored. *)
OpenTerminalUnchecked(s) ==
    /\ term[s] = "idle"
    /\ captured' = [captured EXCEPT ![s] = agents[target[s]]]
    /\ term' = [term EXCEPT ![s] = "upgrading"]
    /\ UNCHANGED <<hubVars, connVars, server, reader, browser, shell>>

(* GetAgent; an offline agent is answered 503 and nothing changes. *)
OpenTerminal(s) ==
    /\ term[s] = "idle"
    /\ IsOnline(target[s])
    /\ captured' = [captured EXCEPT ![s] = agents[target[s]]]
    /\ term' = [term EXCEPT ![s] = "upgrading"]
    /\ UNCHANGED <<hubVars, connVars, server, reader, browser, shell>>

UpgradeFails(s) ==
    /\ term[s] = "upgrading"
    /\ term' = [term EXCEPT ![s] = "finished"]
    /\ UNCHANGED <<hubVars, connVars, server, captured, reader, browser, shell>>

(* The upgrade succeeds and AddSession enters the session. *)
Attach(s) ==
    /\ term[s] = "upgrading"
    /\ HubAddSession(s)
    /\ term' = [term EXCEPT ![s] = "starting"]
    /\ browser' = [browser EXCEPT ![s] = "open"]
    /\ UNCHANGED <<connVars, server, captured, reader, shell>>

(* ac.Send(shell_start) returns, its error ignored, and the reader starts. *)
(* The agent has a shell only if the message reached it and NewShell works.*)
StartShell(s) ==
    /\ term[s] = "starting"
    /\ \E started \in {"none", "running"} :
          /\ started = "running" => link[captured[s]] = "up"
          /\ shell' = [shell EXCEPT ![s] = started]
    /\ term' = [term EXCEPT ![s] = "streaming"]
    /\ reader' = [reader EXCEPT ![s] = "reading"]
    /\ UNCHANGED <<hubVars, connVars, server, captured, browser>>

(* select picks <-sess.Done. *)
SeeDone(s) ==
    /\ term[s] = "streaming"
    /\ done[s]
    /\ term' = [term EXCEPT ![s] = "removing"]
    /\ UNCHANGED <<hubVars, connVars, server, captured, reader, browser, shell>>

(* select picks shell output and starts to write it to the browser. *)
TakeOutput(s) ==
    /\ term[s] = "streaming"
    /\ shell[s] # "none"
    /\ term' = [term EXCEPT ![s] = "writing"]
    /\ UNCHANGED <<hubVars, connVars, server, captured, reader, browser, shell>>

OutputWritten(s) ==
    /\ term[s] = "writing"
    /\ browser[s] = "open"
    /\ term' = [term EXCEPT ![s] = "streaming"]
    /\ UNCHANGED <<hubVars, connVars, server, captured, reader, browser, shell>>

(* Mutant: a write that takes too long counts as failed. *)
OutputTimesOut(s) ==
    /\ term[s] = "writing"
    /\ term' = [term EXCEPT ![s] = "removing"]
    /\ UNCHANGED <<hubVars, connVars, server, captured, reader, browser, shell>>

OutputFails(s) ==
    /\ term[s] = "writing"
    /\ browser[s] = "closed"
    /\ term' = [term EXCEPT ![s] = "removing"]
    /\ UNCHANGED <<hubVars, connVars, server, captured, reader, browser, shell>>

(* Mutant: the browser's WebSocket is left open. *)
DetachLeavesOpen(s) ==
    /\ term[s] = "removing"
    /\ HubRemoveSession(s)
    /\ term' = [term EXCEPT ![s] = "finished"]
    /\ UNCHANGED <<connVars, server, captured, reader, browser, shell>>

(* The deferred calls: RemoveSession, then conn.Close. *)
Detach(s) ==
    /\ term[s] = "removing"
    /\ HubRemoveSession(s)
    /\ term' = [term EXCEPT ![s] = "finished"]
    /\ browser' = [browser EXCEPT ![s] = "closed"]
    /\ UNCHANGED <<connVars, server, captured, reader, shell>>

------------------------------------------------------------------------------
(* TerminalHandler.Connect, reader goroutine.                              *)

BrowserCloses(s) ==
    /\ browser[s] = "open"
    /\ browser' = [browser EXCEPT ![s] = "closed"]
    /\ UNCHANGED <<hubVars, connVars, server, term, captured, reader, shell>>

(* Input or a resize arrives; ac.Send blocks until the write is done. *)
ForwardInput(s) ==
    /\ reader[s] = "reading"
    /\ browser[s] = "open"
    /\ reader' = [reader EXCEPT ![s] = "sending"]
    /\ UNCHANGED <<hubVars, connVars, server, term, captured, browser, shell>>

InputSent(s) ==
    /\ reader[s] = "sending"
    /\ link[captured[s]] = "up"
    /\ reader' = [reader EXCEPT ![s] = "reading"]
    /\ UNCHANGED <<hubVars, connVars, server, term, captured, browser, shell>>

(* The write fails with the link; the error is ignored. *)
InputLost(s) ==
    /\ reader[s] = "sending"
    /\ link[captured[s]] = "down"
    /\ reader' = [reader EXCEPT ![s] = "reading"]
    /\ UNCHANGED <<hubVars, connVars, server, term, captured, browser, shell>>

(* ReadMessage fails, then the test of Done. *)
BrowserReadFails(s) ==
    /\ reader[s] = "reading"
    /\ browser[s] = "closed"
    /\ reader' = [reader EXCEPT ![s] = IF done[s] THEN "exited" ELSE "closing"]
    /\ UNCHANGED <<hubVars, connVars, server, term, captured, browser, shell>>

(* Mutant: the reader returns without closing Done. *)
ReturnOnBrowserGone(s) ==
    /\ reader[s] = "closing"
    /\ ~done[s]
    /\ reader' = [reader EXCEPT ![s] = "exited"]
    /\ UNCHANGED <<hubVars, connVars, server, term, captured, browser, shell>>

CloseOnBrowserGone(s) ==
    /\ reader[s] = "closing"
    /\ ~done[s]
    /\ CloseDone(s)
    /\ reader' = [reader EXCEPT ![s] = "exited"]
    /\ UNCHANGED <<connVars, server, term, captured, browser, shell>>

------------------------------------------------------------------------------
(* The server process.                                                     *)

(* The reader closes a Done that was closed after its test: nothing        *)
(* recovers the panic, the process dies and all its memory with it.        *)
ReaderPanics(s) ==
    /\ reader[s] = "closing"
    /\ done[s]
    /\ server' = "down"
    /\ HubReset
    /\ link' = [c \in Conns |-> IF link[c] = "up" THEN "down" ELSE link[c]]
    /\ handler' = [c \in Conns |-> IF handler[c] \in Live THEN "closed"
                                  ELSE IF handler[c] = "handshake" THEN "refused"
                                  ELSE handler[c]]
    /\ exiting' = [c \in Conns |-> NoSession]
    /\ term' = [t \in Sessions |-> IF term[t] = "idle" THEN "idle" ELSE "finished"]
    /\ reader' = [t \in Sessions |-> IF reader[t] = "none" THEN "none" ELSE "exited"]
    /\ browser' = [t \in Sessions |-> IF browser[t] = "none" THEN "none" ELSE "closed"]
    /\ UNCHANGED <<panicked, captured, shell>>

(* Compose's `restart: unless-stopped` starts it again. *)
Restart ==
    /\ server = "down"
    /\ server' = "up"
    /\ UNCHANGED <<hubVars, connVars, termVars>>

------------------------------------------------------------------------------
ConnStep(c) ==
    \/ Dial(c) \/ LinkBreaks(c) \/ Refuse(c) \/ Register(c)
    \/ \E s \in Sessions : RecvShellExit(c, s)
    \/ CloseOnExit(c) \/ ReadFails(c) \/ Leave(c) \/ LeavePanics(c)

TermStep(s) ==
    \/ OpenTerminal(s) \/ UpgradeFails(s) \/ Attach(s) \/ StartShell(s)
    \/ SeeDone(s) \/ TakeOutput(s) \/ OutputWritten(s) \/ OutputFails(s) \/ Detach(s)

ReaderStep(s) ==
    \/ BrowserCloses(s) \/ ForwardInput(s) \/ InputSent(s) \/ InputLost(s)
    \/ BrowserReadFails(s) \/ CloseOnBrowserGone(s) \/ ReaderPanics(s)

Next ==
    \/ \E c \in Conns : ConnStep(c)
    \/ \E s \in Sessions : TermStep(s) \/ ReaderStep(s)
    \/ Restart

Spec == Init /\ [][Next]_vars

(* Every goroutine that can run does; a blocked call is assumed to return  *)
(* only when what it waits for has failed.  The agents, the browsers and a *)
(* Send on a link that still holds promise nothing.                        *)
Fairness ==
    /\ \A c \in Conns :
          /\ WF_vars(Register(c) \/ Refuse(c))
          /\ WF_vars(CloseOnExit(c))
          /\ WF_vars(ReadFails(c))
          /\ WF_vars(Leave(c) \/ LeavePanics(c))
    /\ \A s \in Sessions :
          /\ WF_vars(UpgradeFails(s) \/ Attach(s))
          /\ WF_vars(StartShell(s) /\ link[captured[s]] = "down")
          /\ WF_vars(SeeDone(s))
          /\ WF_vars(OutputFails(s))
          /\ WF_vars(Detach(s))
          /\ WF_vars(InputLost(s))
          /\ WF_vars(BrowserReadFails(s))
          /\ WF_vars(CloseOnBrowserGone(s) \/ ReaderPanics(s))

FairSpec == Spec /\ Fairness

------------------------------------------------------------------------------
(* Safety.                                                                 *)

(* No session outlives its handler: what the Hub lists is attached to a    *)
(* running TerminalHandler.Connect, whatever the order of RemoveSession,   *)
(* Unregister and a crash (hub.go:67-78, 110-119).                         *)
ListedIsAttached ==
    \A s \in sessions : term[s] \in Attached

(* A terminal the Hub no longer lists receives no output any more, so it   *)
(* must have been told to stop: whoever takes a session out of the Hub     *)
(* behind its handler's back has closed Done (hub.go:70-75).               *)
DetachedIsDone ==
    \A s \in Sessions :
        term[s] \in {"starting", "streaming", "writing"} /\ s \notin sessions => done[s]

(* As long as the connection a terminal talks to is the registered one,    *)
(* Unregister will find the terminal: no order of GetAgent, Register and   *)
(* AddSession leaves it out of the index (terminal.go:34-53, hub.go:94).   *)
IndexedWhileRegistered ==
    \A s \in sessions :
        captured[s] = agents[target[s]] => s \in connSessions[captured[s]]

(* The index never leads from one agent to another's terminals, and holds  *)
(* no terminal that has ended unless its Done was closed under it.         *)
IndexAgrees ==
    \A a \in Agents :
        /\ IsOnline(a) => hostOf[agents[a]] = a
        /\ \A s \in IndexedSessions(a) :
              /\ target[s] = a
              /\ s \notin sessions => done[s]

(* An agent that is listed online has a connection whose handler is still  *)
(* running, unless that handler's Unregister panicked: the double close is *)
(* the only way to a registration nobody will remove (hub.go:67-78).       *)
DeadEntryOnlyAfterPanic ==
    \A a \in Agents :
        IsOnline(a) => handler[agents[a]] \in Live \/ panicked[agents[a]]

(* A connected agent is missing from the Hub only because of another       *)
(* connection of the same agent: agents do not disturb each other.         *)
LostOnlyToSameAgent ==
    \A c \in Conns :
        handler[c] \in Live /\ agents[hostOf[c]] # c =>
            \E d \in Conns \ {c} :
                hostOf[d] = hostOf[c] /\ handler[d] \in Live \cup {"closed"}

(* A terminal is told to stop for a reason of its own: its browser left,   *)
(* its shell ended, or a connection of its own agent went.                 *)
DoneHasCause ==
    \A s \in Sessions :
        done[s] => \/ browser[s] = "closed"
                   \/ shell[s] = "exited"
                   \/ \E c \in Conns : hostOf[c] = target[s] /\ handler[c] = "closed"

------------------------------------------------------------------------------
(* The invariant behind the safety properties.                             *)

(* An entry of the agents map belongs to the agent it is filed under, and  *)
(* its handler has not ended unless it ended in a panic.                   *)
EntryOwned ==
    \A a \in Agents :
        IsOnline(a) =>
            /\ hostOf[agents[a]] = a
            /\ handler[agents[a]] \in Live \cup {"closed"}
            /\ handler[agents[a]] = "closed" => panicked[agents[a]]

(* A terminal past GetAgent holds a connection of its agent that has been  *)
(* through Register.                                                       *)
CapturedRegistered ==
    \A s \in Sessions :
        /\ term[s] # "idle" => captured[s] # NoConn
        /\ captured[s] # NoConn =>
              /\ hostOf[captured[s]] = target[s]
              /\ handler[captured[s]] \in Live \cup {"closed"}

(* What a terminal has not started yet: its session, shell and reader.     *)
NotYetStarted ==
    \A s \in Sessions :
        /\ term[s] \in {"idle", "upgrading"} => ~done[s] /\ browser[s] = "none"
        /\ term[s] \in {"idle", "upgrading", "starting"} =>
              shell[s] = "none" /\ reader[s] = "none"
        /\ reader[s] = "closing" => browser[s] = "closed"

(* Every index, that of a replaced connection too, holds started terminals *)
(* of one agent; the one in use misses none and keeps none that has ended. *)
IndexOwned ==
    /\ \A c \in Conns : \A s \in connSessions[c] :
          target[s] = hostOf[c] /\ term[s] \notin {"idle", "upgrading"}
    /\ \A a \in Agents : \A s \in IndexedSessions(a) : s \notin sessions => done[s]

(* A handler between its test of Done and the close holds an exited shell. *)
ExitingHoldsExited ==
    \A c \in Conns :
        /\ handler[c] = "exiting" => exiting[c] # NoSession
        /\ exiting[c] # NoSession => shell[exiting[c]] = "exited"

(* The inductive strengthening: every step of the server preserves it, and *)
(* each safety property above is one of its parts or follows from it.      *)
IInv ==
    /\ TypeOK
    /\ EntryOwned
    /\ CapturedRegistered
    /\ NotYetStarted
    /\ IndexOwned
    /\ ExitingHoldsExited
    /\ ListedIsAttached
    /\ DetachedIsDone
    /\ IndexedWhileRegistered
    /\ LostOnlyToSameAgent
    /\ DoneHasCause

------------------------------------------------------------------------------
(* The promise behind all of this.                                         *)

(* A terminal whose handler is about to end was told or has lost its       *)
(* browser, and a server that has died left nothing behind: two facts only *)
(* the refinement needs.                                                   *)
EndsForACause ==
    \A s \in Sessions : term[s] = "removing" => done[s] \/ browser[s] = "closed"

DownIsEmpty ==
    server = "down" =>
        /\ \A a \in Agents : ~IsOnline(a)
        /\ \A c \in Conns : handler[c] \in {"idle", "refused", "closed"}
        /\ \A s \in Sessions : term[s] \in {"idle", "finished"} /\ reader[s] \in {"none", "exited"}

(* The invariant the refinement below is proved from.                      *)
ServiceInv == IInv /\ EndsForACause /\ DownIsEmpty

(* What the refinement makes of a terminal's goroutines. *)
Stage(s) ==
    IF term[s] \in {"idle", "upgrading"} THEN "new"
    ELSE IF term[s] = "finished" THEN "over"
    ELSE IF s \in sessions THEN "listed" ELSE "unlisted"

CausesOf(s) ==
    {k \in {"browser", "shell", "agent"} :
        \/ k = "browser" /\ browser[s] = "closed"
        \/ k = "shell" /\ shell[s] = "exited"
        \/ k = "agent" /\ \E c \in Conns : hostOf[c] = target[s] /\ handler[c] = "closed"}

Service == INSTANCE TerminalService WITH
    Terminals <- Sessions,
    Owners <- Agents,
    owner <- target,
    stage <- [s \in Sessions |-> Stage(s)],
    told <- done,
    causes <- [s \in Sessions |-> CausesOf(s)],
    up <- server = "up"

(* The goroutines that share the Hub keep the promise of TerminalService:  *)
(* no interleaving of an agent's handlers with a terminal's two goroutines *)
(* takes a terminal from the Hub without telling it, tells it twice or for *)
(* nothing, ends it untold, brings it back, or lets one live on in a       *)
(* server that has died (agent_ws.go:77-131, terminal.go:23-107).          *)
TerminalsAsPromised == Service!Spec

------------------------------------------------------------------------------
(* Liveness.                                                               *)

(* A Send to an agent that neither reads nor drops the connection.         *)
BlockedOnAgent(s) ==
    /\ term[s] = "starting" \/ reader[s] = "sending"
    /\ link[captured[s]] = "up"

(* Once the browser has gone its terminal ends and leaves the Hub, also    *)
(* when the main loop is inside a write; only a Send that the agent does   *)
(* not take can keep it for good (terminal.go:65-107).                     *)
BrowserGoneEndsTerminal ==
    \A s \in Sessions :
        browser[s] = "closed" /\ term[s] \in Attached
            ~> term[s] = "finished" \/ []BlockedOnAgent(s)

(* The reader goroutine does not outlive the terminal (terminal.go:65-75). *)
ReaderEndsWithTerminal ==
    \A s \in Sessions :
        term[s] = "finished" /\ reader[s] # "none"
            ~> reader[s] = "exited" \/ []BlockedOnAgent(s)

(* A broken connection's handler reaches its end, panics included.         *)
BrokenLinkIsReaped ==
    \A c \in Conns :
        link[c] = "down" /\ handler[c] \in Live ~> handler[c] = "closed"

------------------------------------------------------------------------------
(* What the source's comments say and the code does not do.                *)

(* hub.go:38 "Hub manages all agent connections": the connection a         *)
(* connected agent holds is the one the Hub has for it.                    *)
ConnectedIsManaged ==
    \A c \in Conns :
        handler[c] = "serving" /\ link[c] = "up" => agents[hostOf[c]] = c
==============================================================================
