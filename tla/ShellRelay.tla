------------------------------ MODULE ShellRelay ------------------------------
(***************************************************************************)
(* The shells of an agent and the way of their output to the browsers:     *)
(* streamShell and the map of shells (connector/ws_client.go), the link    *)
(* that all of them share (AgentLink), the read loop that finds the        *)
(* session (handler/agent_ws.go), and the Frontend channel with the main   *)
(* loop that empties it (handler/terminal.go).                             *)
(*                                                                         *)
(* TerminalHub has the steps in which a terminal is entered into the Hub   *)
(* and told to stop; here each of them is one step, and Unregister tells   *)
(* any terminals it likes.  Input and resizes matter only as accesses to   *)
(* the map: they change nothing on the way back.                           *)
(*                                                                         *)
(* The map is used by the connect loop and by every streamShell without a  *)
(* lock.  The Go runtime ends a process in which it sees that, and systemd *)
(* starts the agent again (RaceAborts).                                    *)
(***************************************************************************)
EXTENDS AgentLink

CONSTANTS
    Terms,       \* terminals (session ids)
    FrontCap,    \* capacity of Frontend (256 in the code)
    MaxOutput    \* bound: how many pieces of output the shell of a terminal writes

ASSUME FrontCapAssumption == FrontCap \in Nat \ {0}
ASSUME MaxOutputAssumption == MaxOutput \in [Terms -> Nat]

VARIABLES
    captured,    \* the connection a terminal uses, or 0
    term,        \* where TerminalHandler.Connect stands
    done,        \* is the session's Done closed?
    front,       \* its Frontend channel
    shown,       \* what its main loop took out and wrote to the browser
    browser,     \* the browser's end of the WebSocket
    shell,       \* the terminal's shell on the agent
    posted,      \* the index of its next message
    lost         \* terminals whose shell_exit met a full sendCh

termVars == <<captured, term, done, front, shown, browser>>
shellVars == <<shell, posted, lost>>
vars == <<linkVars, termVars, shellVars>>

(* shell_output and shell_exit; the exit comes after all output. *)
Out(s, i) == [kind |-> "output", term |-> s, index |-> i]
Exit(s) == [kind |-> "exit", term |-> s, index |-> MaxOutput[s]]

Messages == [kind : {"output", "exit"}, term : Terms, index : Nat]

(* A register message is no output. *)
ASSUME RegisterAssumption == Register \notin Messages

(* The session is in the Hub. *)
Listed == {"streaming", "writing"}

(* The shells of the map: an exited one is in it until streamShell ends. *)
InMap == {"running", "exited", "deleting"}

TypeOK ==
    /\ LinkTypeOK(Messages)
    /\ captured \in [Terms -> {0} \cup Dials]
    /\ term \in [Terms -> {"idle", "gone"} \cup Listed]
    /\ done \in [Terms -> BOOLEAN]
    /\ front \in [Terms -> Seq(Messages)]
    /\ \A s \in Terms : Len(front[s]) <= FrontCap
    /\ shown \in [Terms -> Seq(Messages)]
    /\ browser \in [Terms -> {"none", "open", "closed"}]
    /\ shell \in [Terms -> {"none", "asked", "gone"} \cup InMap]
    /\ posted \in [Terms -> Nat]
    /\ lost \in SUBSET Terms

Init ==
    /\ LinkInit
    /\ captured = [s \in Terms |-> 0]
    /\ term = [s \in Terms |-> "idle"]
    /\ done = [s \in Terms |-> FALSE]
    /\ front = [s \in Terms |-> <<>>]
    /\ shown = [s \in Terms |-> <<>>]
    /\ browser = [s \in Terms |-> "none"]
    /\ shell = [s \in Terms |-> "none"]
    /\ posted = [s \in Terms |-> 0]
    /\ lost = {}

------------------------------------------------------------------------------
(* The terminal's handler.                                                 *)

(* GetAgent finds a registered connection, AddSession enters the session   *)
(* and shell_start is sent.                                                *)
Open(s) ==
    /\ term[s] = "idle"
    /\ \E e \in Dials :
          /\ phase[e] \in {"serving", "ended"}
          /\ captured' = [captured EXCEPT ![s] = e]
          /\ shell' = IF link[e] = "up" THEN [shell EXCEPT ![s] = "asked"] ELSE shell
    /\ term' = [term EXCEPT ![s] = "streaming"]
    /\ browser' = [browser EXCEPT ![s] = "open"]
    /\ UNCHANGED <<linkVars, done, front, shown, posted, lost>>

(* select picks output and WriteMessage begins, which waits for a browser  *)
(* that does not read.                                                     *)
TakeOutput(s) ==
    /\ term[s] = "streaming"
    /\ front[s] # <<>>
    /\ shown' = [shown EXCEPT ![s] = Append(@, Head(front[s]))]
    /\ front' = [front EXCEPT ![s] = Tail(@)]
    /\ term' = [term EXCEPT ![s] = "writing"]
    /\ UNCHANGED <<linkVars, captured, done, browser, shellVars>>

WriteReturns(s) ==
    /\ term[s] = "writing"
    /\ term' = [term EXCEPT ![s] = "streaming"]
    /\ UNCHANGED <<linkVars, captured, done, front, shown, browser, shellVars>>

(* The handler ends: select picks Done, though output may be waiting, or   *)
(* the write fails.                                                        *)
Ends(s) ==
    /\ \/ term[s] = "streaming" /\ done[s]
       \/ term[s] = "writing" /\ browser[s] = "closed"
    /\ term' = [term EXCEPT ![s] = "gone"]
    /\ browser' = [browser EXCEPT ![s] = "closed"]
    /\ UNCHANGED <<linkVars, captured, done, front, shown, shellVars>>

(* The browser leaves; the reader notices and closes Done. *)
BrowserLeaves(s) ==
    /\ browser[s] = "open"
    /\ browser' = [browser EXCEPT ![s] = "closed"]
    /\ UNCHANGED <<linkVars, captured, term, done, front, shown, shellVars>>

ReaderCloses(s) ==
    /\ term[s] \in Listed
    /\ browser[s] = "closed"
    /\ ~done[s]
    /\ done' = [done EXCEPT ![s] = TRUE]
    /\ UNCHANGED <<linkVars, captured, term, front, shown, browser, shellVars>>

------------------------------------------------------------------------------
(* The server's read loop.                                                 *)

(* Mutants: the read loop waits for room in Frontend; it appends without   *)
(* looking; it takes any session of the agent.                             *)
RelayWaits(m) ==
    /\ term[m.term] \in Listed => Len(front[m.term]) < FrontCap
    /\ front' = IF term[m.term] \in Listed
                THEN [front EXCEPT ![m.term] = Append(@, m)] ELSE front

RelayUnbounded(m) ==
    front' = IF term[m.term] \in Listed
             THEN [front EXCEPT ![m.term] = Append(@, m)] ELSE front

RelayToAny(m) ==
    \E s \in Terms :
        /\ term[s] \in Listed
        /\ Len(front[s]) < FrontCap
        /\ front' = [front EXCEPT ![s] = Append(@, m)]

(* shell_output: into the Frontend of a session that is listed, if there   *)
(* is room.  A session that Unregister has told is not listed any more.    *)
Relay(m) ==
    \/ /\ term[m.term] \in Listed
       /\ Len(front[m.term]) < FrontCap
       /\ front' = [front EXCEPT ![m.term] = Append(@, m)]
    \/ /\ term[m.term] \notin Listed \/ done[m.term] \/ Len(front[m.term]) = FrontCap
       /\ UNCHANGED front

(* shell_exit: Done is closed if the session is listed. *)
Tell(s) == done' = [done EXCEPT ![s] = @ \/ term[s] \in Listed]

Deliver(e) ==
    /\ ServerReads(e)
    /\ LET m == Head(wire[e])
       IN  IF m = Register THEN UNCHANGED <<front, done>>
           ELSE IF m.kind = "output" THEN Relay(m) /\ UNCHANGED done
           ELSE Tell(m.term) /\ UNCHANGED front
    /\ UNCHANGED <<captured, term, shown, browser, shellVars>>

(* The read loop ends and Unregister tells the terminals of the entry. *)
Unregister(e) ==
    /\ ServerReadFails(e)
    /\ \E T \in SUBSET {s \in Terms : term[s] \in Listed} :
          done' = [s \in Terms |-> done[s] \/ s \in T]
    /\ UNCHANGED <<captured, term, front, shown, browser, shellVars>>

------------------------------------------------------------------------------
(* The agent.                                                              *)
Post(m) == Enqueue(m) /\ UNCHANGED <<agent, conn, writer, link, wire, phase>>

(* shell_start arrives at the connect loop: NewShell starts a shell, or    *)
(* fails and says nothing.                                                 *)
StartArrives(s) ==
    /\ shell[s] = "asked"
    /\ agent = "looping"
    /\ conn = captured[s]

HandleStart(s) ==
    /\ StartArrives(s)
    /\ \E r \in {"running", "gone"} : shell' = [shell EXCEPT ![s] = r]
    /\ UNCHANGED <<linkVars, termVars, posted, lost>>

(* Mutant: what was read is sent again. *)
StreamOutputAgain(s) ==
    /\ shell[s] = "running"
    /\ posted[s] < MaxOutput[s]
    /\ Post(Out(s, posted[s]))
    /\ posted' \in {posted, [posted EXCEPT ![s] = @ + 1]}
    /\ UNCHANGED <<termVars, shell, lost>>

(* streamShell reads a piece of output. *)
StreamOutput(s) ==
    /\ shell[s] = "running"
    /\ posted[s] < MaxOutput[s]
    /\ Post(Out(s, posted[s]))
    /\ posted' = [posted EXCEPT ![s] = @ + 1]
    /\ UNCHANGED <<termVars, shell, lost>>

(* The shell ends: nothing is left to read. *)
ShellEnds(s) ==
    /\ shell[s] = "running"
    /\ shell' = [shell EXCEPT ![s] = "exited"]
    /\ UNCHANGED <<linkVars, termVars, posted, lost>>

(* streamShell sees the end, says so, and goes to take the shell out of    *)
(* the map.                                                                *)
StreamEnds(s) ==
    /\ shell[s] = "exited"
    /\ Post(Exit(s))
    /\ lost' = IF sendCh' = sendCh THEN lost \cup {s} ELSE lost
    /\ posted' = [posted EXCEPT ![s] = MaxOutput[s] + 1]
    /\ shell' = [shell EXCEPT ![s] = "deleting"]
    /\ UNCHANGED termVars

Deleted(s) ==
    /\ shell[s] = "deleting"
    /\ shell' = [shell EXCEPT ![s] = "gone"]
    /\ UNCHANGED <<linkVars, termVars, posted, lost>>

(* The connect loop uses the map for a shell_start, an input or a resize. *)
LoopUsesMap ==
    /\ agent = "looping"
    /\ \E t \in Terms :
          /\ conn = captured[t]
          /\ shell[t] = "asked" \/ browser[t] = "open"

(* A delete meets another access to the map, and the runtime has seen it:  *)
(* the agent dies, and its shells, its messages and its connection with    *)
(* it.                                                                     *)
RaceAborts(s) ==
    /\ shell[s] = "deleting"
    /\ LoopUsesMap \/ \E t \in Terms \ {s} : shell[t] = "deleting"
    /\ shell' = [t \in Terms |-> IF shell[t] = "none" THEN "none" ELSE "gone"]
    /\ sendCh' = <<>>
    /\ agent' = "away"
    /\ writer' = "stopped"
    /\ link' = [link EXCEPT ![conn] = "down"]
    /\ \E n \in 0 .. Len(wire[conn]) : wire' = [wire EXCEPT ![conn] = SubSeq(@, 1, n)]
    /\ UNCHANGED <<conn, phase, termVars, posted, lost>>

------------------------------------------------------------------------------
TermStep(s) ==
    \/ Open(s) \/ TakeOutput(s) \/ WriteReturns(s) \/ Ends(s)
    \/ BrowserLeaves(s) \/ ReaderCloses(s)

ShellStep(s) ==
    \/ HandleStart(s) \/ StreamOutput(s) \/ ShellEnds(s) \/ StreamEnds(s)
    \/ Deleted(s) \/ RaceAborts(s)

Next ==
    \/ Relink /\ UNCHANGED <<termVars, shellVars>>
    \/ \E e \in Dials : Deliver(e) \/ Unregister(e)
    \/ \E s \in Terms : TermStep(s) \/ ShellStep(s)

Spec == Init /\ [][Next]_vars

(* The agent's and the server's own goroutines run when they can.  Nothing *)
(* is assumed of a browser, of a shell, or of a write to a browser.        *)
Fairness ==
    /\ WF_vars(WriterSends /\ UNCHANGED <<termVars, shellVars>>)
    /\ \A s \in Terms : WF_vars(StreamEnds(s))
    /\ \A e \in Dials : WF_vars(Deliver(e))

FairSpec == Spec /\ Fairness

------------------------------------------------------------------------------
Holds(s) == captured[s] # 0 /\ link[captured[s]] = "up"

(* What a terminal shows is its own shell's output and, as long as its     *)
(* connection holds, in the order in which the shell wrote it, however     *)
(* much of it is dropped: the shells share sendCh, the connection and the  *)
(* read loop, and select and default never let a later piece overtake      *)
(* (ws_client.go:200-211, agent_ws.go:102-117, terminal.go:98-107).        *)
OutputInOrder ==
    \A s \in Terms :
        /\ \A i \in DOMAIN shown[s] : shown[s][i].term = s /\ shown[s][i].kind = "output"
        /\ Holds(s) => \A i, j \in DOMAIN shown[s] :
                           i < j => shown[s][i].index < shown[s][j].index

(* A terminal whose shell has ended is told, unless the shell_exit met a   *)
(* full sendCh or the connection breaks: no other terminal of the agent,   *)
(* with a browser that does not read and a Frontend that is full, can hold *)
(* it up (agent_ws.go:114-117).                                            *)
ExitTold ==
    \A s \in Terms :
        shell[s] = "exited" ~> done[s] \/ term[s] = "gone" \/ s \in lost \/ ~Holds(s)

(* The invariant of the proofs.  Of the messages of a terminal whose       *)
(* connection holds, each queue on the way has a later part than the one   *)
(* before it, in order; and no other connection carries any.               *)
Of(m, s) == m # Register /\ m.term = s

Within(q, s, lo, hi) ==
    /\ \A i \in DOMAIN q : Of(q[i], s) => lo <= q[i].index /\ q[i].index < hi
    /\ \A i, j \in DOMAIN q :
           i < j /\ Of(q[i], s) /\ Of(q[j], s) => q[i].index < q[j].index

InOrder(s) ==
    \E a, b, c \in 0 .. posted[s] :
        /\ a <= b /\ b <= c
        /\ Within(shown[s], s, 0, a)
        /\ Within(front[s], s, a, b)
        /\ Within(wire[captured[s]], s, b, c)
        /\ Within(sendCh, s, c, posted[s])

Absent(q, s) == \A i \in DOMAIN q : ~Of(q[i], s)

StreamsInOrder ==
    \A s \in Terms : Holds(s) =>
        InOrder(s) /\ \A e \in Dials : e # captured[s] => Absent(wire[e], s)

(* Nothing of a terminal is under way before its shell is asked for. *)
Unborn ==
    \A s \in Terms : shell[s] = "none" =>
        /\ Absent(sendCh, s) /\ Absent(front[s], s) /\ Absent(shown[s], s)
        /\ \A e \in Dials : Absent(wire[e], s)

(* Connections come one after the other. *)
ConnectionsOrdered ==
    /\ \A e \in Dials : link[e] = "up" => e = conn /\ agent # "away"
    /\ \A e \in Dials : phase[e] # "none" => e <= conn
    /\ \A s \in Terms : captured[s] <= conn

Started ==
    \A s \in Terms :
        /\ term[s] = "idle" => shell[s] = "none"
        /\ shell[s] \in {"none", "asked"} => posted[s] = 0
        /\ shell[s] \in {"running", "exited"} => posted[s] <= MaxOutput[s]

OwnOutput ==
    \A s \in Terms :
        /\ \A i \in DOMAIN front[s] : front[s][i].term = s /\ front[s][i].kind = "output"
        /\ \A i \in DOMAIN shown[s] : shown[s][i].term = s /\ shown[s][i].kind = "output"

IInv ==
    /\ TypeOK /\ ConnectionsOrdered /\ Started /\ Unborn
    /\ OwnOutput /\ StreamsInOrder

------------------------------------------------------------------------------
(* The places where a message of a terminal waits: its Frontend channel,   *)
(* the connections, and sendCh.                                            *)
Places == 0 .. MaxDials + 1

Queue(p, s) == IF p = 0 THEN front[s] ELSE IF p \in Dials THEN wire[p] ELSE sendCh

Indices(q, s) == {q[i].index : i \in {j \in DOMAIN q : Of(q[j], s)}}

(* Every message is in one place only, once, and was posted.               *)
Distinct(q, s) ==
    \A i, j \in DOMAIN q : Of(q[i], s) /\ Of(q[j], s) /\ q[i].index = q[j].index => i = j

Single(s) ==
    /\ \A p \in Places : /\ Distinct(Queue(p, s), s)
                         /\ Indices(Queue(p, s), s) \subseteq 0 .. posted[s] - 1
    /\ \A p, r \in Places :
          p # r => Indices(Queue(p, s), s) \cap Indices(Queue(r, s), s) = {}

NoCopies == \A s \in Terms : Single(s)

(* The invariant the refinement below is proved from.                      *)
OnceInv == IInv /\ NoCopies

Stage(s) == IF term[s] = "idle" THEN "new" ELSE IF term[s] = "gone" THEN "over" ELSE "open"

Line(s) == IF captured[s] = 0 THEN "new" ELSE IF link[captured[s]] = "up" THEN "intact"
           ELSE "broken"

Way(s) == UNION {Indices(Queue(p, s), s) : p \in Places}

Stream == INSTANCE LossyStream WITH
    Terminals <- Terms,
    Limit <- MaxOutput,
    stage <- [s \in Terms |-> Stage(s)],
    line <- [s \in Terms |-> Line(s)],
    written <- posted,
    way <- [s \in Terms |-> Way(s)],
    shown <- [s \in Terms |-> [i \in DOMAIN shown[s] |-> shown[s][i].index]]

(* sendCh, the connections, the read loops and the Frontend channels are   *)
(* for each terminal a stream that loses and, over an intact connection,   *)
(* never reorders: what is left in sendCh for the next connection, or read *)
(* by two read loops at once, is not shown twice                           *)
(* (ws_client.go:89-101, 200-211, agent_ws.go:102-117, terminal.go:98-107).*)
OutputAsPromised == Stream!Spec

(* No piece of output is shown twice, over however many connections.       *)
NoOutputTwice ==
    \A s \in Terms : \A i, j \in DOMAIN shown[s] :
        shown[s][i].index = shown[s][j].index => i = j
===============================================================================
