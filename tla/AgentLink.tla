------------------------------ MODULE AgentLink ------------------------------
(***************************************************************************)
(* The way of a message from the agent to the server: Client.send,         *)
(* Client.connect and its writer goroutine (connector/ws_client.go), the   *)
(* connection, and the handshake and read loop of AgentWSHandler.Connect   *)
(* (handler/agent_ws.go).                                                  *)
(*                                                                         *)
(* One sendCh serves every connection the agent opens, one after the       *)
(* other; what it holds when a connection breaks is still there when the   *)
(* next one is dialled.  The server may not have noticed the break by then *)
(* and still read what the old connection delivered.                       *)
(***************************************************************************)
EXTENDS Naturals, Sequences

CONSTANTS
    Register,   \* the register message
    QueueCap,   \* capacity of sendCh (256 in the code)
    MaxDials    \* bound: how many connections the agent opens

ASSUME QueueCapAssumption == QueueCap \in Nat \ {0}
ASSUME MaxDialsAssumption == MaxDials \in Nat \ {0}

Dials == 1 .. MaxDials

VARIABLES
    sendCh,   \* Client.sendCh: the agent's messages not yet written
    agent,    \* where Client.connect stands
    conn,     \* the number of the connection it dialled last
    writer,   \* the writer goroutine of that connection
    link,     \* the state of each connection
    wire,     \* what was written to it and the server has not read
    phase     \* where AgentWSHandler.Connect stands with it

linkVars == <<sendCh, agent, conn, writer, link, wire, phase>>

LinkTypeOK(Messages) ==
    /\ sendCh \in Seq(Messages \cup {Register}) /\ Len(sendCh) <= QueueCap
    /\ agent \in {"away", "registering", "looping"}
    /\ conn \in 0 .. MaxDials
    /\ writer \in {"stopped", "running"}
    /\ link \in [Dials -> {"none", "up", "down"}]
    /\ wire \in [Dials -> Seq(Messages \cup {Register})]
    /\ phase \in [Dials -> {"none", "handshake", "refused", "serving", "ended"}]

LinkInit ==
    /\ sendCh = <<>>
    /\ agent = "away"
    /\ conn = 0
    /\ writer = "stopped"
    /\ link = [e \in Dials |-> "none"]
    /\ wire = [e \in Dials |-> <<>>]
    /\ phase = [e \in Dials |-> "none"]

------------------------------------------------------------------------------
(* The agent.                                                              *)

(* Client.send by any goroutine: a full channel drops the message.         *)
(* Heartbeats, file answers and shell output go through the same channel,  *)
(* and no module has all of them, so it may be full whatever sendCh holds. *)
Enqueue(m) ==
    \/ Len(sendCh) < QueueCap /\ sendCh' = Append(sendCh, m)
    \/ UNCHANGED sendCh

(* The backoff of at least a second has passed, in which the last writer   *)
(* has stopped, and the dial succeeds.  The new writer starts before the   *)
(* register message is queued.                                             *)
Dial ==
    /\ agent = "away"
    /\ writer = "stopped"
    /\ conn < MaxDials
    /\ conn' = conn + 1
    /\ agent' = "registering"
    /\ writer' = "running"
    /\ link' = [link EXCEPT ![conn + 1] = "up"]
    /\ phase' = [phase EXCEPT ![conn + 1] = "handshake"]
    /\ UNCHANGED <<sendCh, wire>>

SendRegister ==
    /\ agent = "registering"
    /\ Enqueue(Register)
    /\ agent' = "looping"
    /\ UNCHANGED <<conn, writer, link, wire, phase>>

(* Mutant: a message is taken out of sendCh after its write, if nothing    *)
(* comes between.                                                          *)
WriterSendsFirst ==
    /\ writer = "running"
    /\ sendCh # <<>>
    /\ link[conn] = "up"
    /\ wire' = [wire EXCEPT ![conn] = Append(@, Head(sendCh))]
    /\ sendCh' \in {sendCh, Tail(sendCh)}
    /\ UNCHANGED <<agent, conn, writer, link, phase>>

WriterSends ==
    /\ writer = "running"
    /\ sendCh # <<>>
    /\ link[conn] = "up"
    /\ wire' = [wire EXCEPT ![conn] = Append(@, Head(sendCh))]
    /\ sendCh' = Tail(sendCh)
    /\ UNCHANGED <<agent, conn, writer, link, phase>>

(* A write to a broken connection: it is reported and the writer returns,  *)
(* or it is not reported yet; the message is gone either way.              *)
WriterLoses ==
    /\ writer = "running"
    /\ sendCh # <<>>
    /\ link[conn] = "down"
    /\ sendCh' = Tail(sendCh)
    /\ writer' \in {"running", "stopped"}
    /\ UNCHANGED <<agent, conn, link, wire, phase>>

(* The read loop reports an error: connect returns and closes stopWriter. *)
ConnectReturns ==
    /\ agent = "looping"
    /\ link[conn] = "down"
    /\ agent' = "away"
    /\ UNCHANGED <<sendCh, conn, writer, link, wire, phase>>

(* The writer picks stopWriter, after as many messages as it likes. *)
WriterStops ==
    /\ writer = "running"
    /\ agent = "away"
    /\ writer' = "stopped"
    /\ UNCHANGED <<sendCh, agent, conn, link, wire, phase>>

------------------------------------------------------------------------------
(* The network and the server.                                             *)

(* Of what is on its way only a first part may still arrive. *)
LinkBreaks(e) ==
    /\ link[e] = "up"
    /\ link' = [link EXCEPT ![e] = "down"]
    /\ \E n \in 0 .. Len(wire[e]) : wire' = [wire EXCEPT ![e] = SubSeq(@, 1, n)]
    /\ UNCHANGED <<sendCh, agent, conn, writer, phase>>

Accept(e) ==
    /\ phase[e] = "handshake"
    /\ wire[e] # <<>>
    /\ Head(wire[e]) = Register
    /\ wire' = [wire EXCEPT ![e] = Tail(@)]
    /\ phase' = [phase EXCEPT ![e] = "serving"]
    /\ UNCHANGED <<sendCh, agent, conn, writer, link>>

(* The first message is no register message or a bad one, none arrives in  *)
(* time, or the agents table cannot be updated: the server hangs up.       *)
Refuse(e) ==
    /\ phase[e] = "handshake"
    /\ phase' = [phase EXCEPT ![e] = "refused"]
    /\ link' = [link EXCEPT ![e] = "down"]
    /\ wire' = [wire EXCEPT ![e] = <<>>]
    /\ UNCHANGED <<sendCh, agent, conn, writer>>

(* ReadMessage hands Head(wire[e]) to the read loop. *)
ServerReads(e) ==
    /\ phase[e] = "serving"
    /\ wire[e] # <<>>
    /\ wire' = [wire EXCEPT ![e] = Tail(@)]
    /\ UNCHANGED <<sendCh, agent, conn, writer, link, phase>>

ServerReadFails(e) ==
    /\ phase[e] = "serving"
    /\ link[e] = "down"
    /\ wire[e] = <<>>
    /\ phase' = [phase EXCEPT ![e] = "ended"]
    /\ UNCHANGED <<sendCh, agent, conn, writer, link, wire>>

(* The steps that neither add a message of the agent nor read one. *)
Relink ==
    \/ Dial \/ SendRegister \/ WriterSends \/ WriterLoses
    \/ ConnectReturns \/ WriterStops
    \/ \E e \in Dials : LinkBreaks(e) \/ Accept(e) \/ Refuse(e)

LinkStep == Relink \/ \E e \in Dials : ServerReadFails(e)

(* agent_ws.go:37 "First message must be register": what waits at the head *)
(* of a connection under handshake is the register message.                *)
FirstMessageIsRegister ==
    \A e \in Dials :
        phase[e] = "handshake" /\ wire[e] # <<>> => Head(wire[e]) = Register
==============================================================================
