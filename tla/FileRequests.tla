----------------------------- MODULE FileRequests -----------------------------
(***************************************************************************)
(* The file API: FileHandler's List, Download, Upload and Delete           *)
(* (handler/files.go), Hub.pending and its response channels (hub.go), and *)
(* the goroutine the agent starts for each request (ws_client.go,          *)
(* filemgr/handler.go), over AgentLink.                                    *)
(*                                                                         *)
(* Upload and Delete are one kind here, Changes: they differ in what they  *)
(* do to the file system, not in how they are asked for and answered.      *)
(***************************************************************************)
EXTENDS AgentLink

CONSTANTS
    Lists, Downloads, Changes,   \* the requests of each kind
    Chunks,                      \* number of chunks of a downloaded file
    ChanCap                      \* capacity of a response channel (512 in the code)

ASSUME KindsDisjoint ==
    Lists \cap Downloads = {} /\ Lists \cap Changes = {} /\ Downloads \cap Changes = {}
ASSUME ChunksAssumption == Chunks \in Nat \ {0}
ASSUME ChanCapAssumption == ChanCap \in Nat \ {0}

Requests == Lists \cup Downloads \cup Changes

VARIABLES
    http,      \* where the HTTP handler of each request stands
    captured,  \* the connection it got from GetAgent, 0 before
    reply,     \* the HTTP answer
    got,       \* Download's buf: the indices of the chunks written to it
    pending,   \* keys of Hub.pending
    chan,      \* the response channel of each pending request
    job,       \* the agent's goroutine for the request
    outcome,   \* whether the file operation worked
    sent,      \* how many chunks handleFileDownload has passed to send
    dropped    \* history: requests a full sendCh or channel lost a message of

serverVars == <<http, captured, reply, got, pending, chan>>
agentVars == <<job, outcome, sent>>
vars == <<linkVars, serverVars, agentVars, dropped>>

(* file_list, file_chunk and file_ack; an ack decodes as a FileChunkPayload *)
(* whose index and total are 0.                                             *)
ListMsg(r) == [req |-> r, kind |-> "list", index |-> 0, total |-> 0, err |-> FALSE]
AckMsg(r, e) == [req |-> r, kind |-> "ack", index |-> 0, total |-> 0, err |-> e]
(* Mutant: the number of the last chunk for the number of chunks. *)
ChunkMsgShort(r, i) ==
    [req |-> r, kind |-> "chunk", index |-> i, total |-> Chunks - 1, err |-> FALSE]

ChunkMsg(r, i) ==
    [req |-> r, kind |-> "chunk", index |-> i, total |-> Chunks, err |-> FALSE]

Messages ==
    [req : Requests, kind : {"list", "chunk", "ack"}, index : 0 .. Chunks,
     total : 0 .. Chunks, err : BOOLEAN]

(* A register message is no answer. *)
ASSUME RegisterAssumption == Register \notin Messages

Answers == {"ok", "error", "timeout", "offline", "sendFailed"}

TypeOK ==
    /\ LinkTypeOK(Messages)
    /\ http \in [Requests -> {"idle", "sending", "waiting", "answered"}]
    /\ captured \in [Requests -> 0 .. MaxDials]
    /\ reply \in [Requests -> {"none"} \cup Answers]
    /\ got \in [Requests -> Seq(0 .. Chunks)]
    /\ pending \in SUBSET Requests
    /\ chan \in [Requests -> Seq(Messages)]
    /\ \A r \in Requests : Len(chan[r]) <= ChanCap
    /\ job \in [Requests -> {"none", "asked", "running", "sending", "done"}]
    /\ outcome \in [Requests -> {"none", "ok", "failed"}]
    /\ sent \in [Requests -> 0 .. Chunks]
    /\ dropped \in SUBSET Requests

Init ==
    /\ LinkInit
    /\ http = [r \in Requests |-> "idle"]
    /\ captured = [r \in Requests |-> 0]
    /\ reply = [r \in Requests |-> "none"]
    /\ got = [r \in Requests |-> <<>>]
    /\ pending = {}
    /\ chan = [r \in Requests |-> <<>>]
    /\ job = [r \in Requests |-> "none"]
    /\ outcome = [r \in Requests |-> "none"]
    /\ sent = [r \in Requests |-> 0]
    /\ dropped = {}

------------------------------------------------------------------------------
(* The HTTP handlers.                                                      *)

(* c.JSON and the deferred FinishRequest; a channel that is no longer      *)
(* pending is garbage.                                                     *)
Answer(r, a) ==
    /\ reply' = [reply EXCEPT ![r] = a]
    /\ http' = [http EXCEPT ![r] = "answered"]
    /\ pending' = pending \ {r}
    /\ chan' = [chan EXCEPT ![r] = <<>>]

(* GetAgent finds no entry: TerminalHub shows when, also for an agent that *)
(* is connected.                                                           *)
Offline(r) ==
    /\ http[r] = "idle"
    /\ Answer(r, "offline")
    /\ UNCHANGED <<linkVars, captured, got, agentVars, dropped>>

(* GetAgent finds an entry, which is some registered connection of the     *)
(* agent (TerminalHub's EntryOwned), and RegisterRequest follows.          *)
Ask(r) ==
    /\ http[r] = "idle"
    /\ \E e \in Dials :
          /\ phase[e] \in {"serving", "ended"}
          /\ captured' = [captured EXCEPT ![r] = e]
    /\ pending' = pending \cup {r}
    /\ http' = [http EXCEPT ![r] = "sending"]
    /\ UNCHANGED <<linkVars, reply, got, chan, agentVars, dropped>>

(* ac.Send succeeds.  A write to a broken connection may succeed too. *)
Send(r) ==
    /\ http[r] = "sending"
    /\ http' = [http EXCEPT ![r] = "waiting"]
    /\ job' = IF link[captured[r]] = "up" THEN [job EXCEPT ![r] = "asked"] ELSE job
    /\ UNCHANGED <<linkVars, captured, reply, got, pending, chan, outcome, sent, dropped>>

SendFails(r) ==
    /\ http[r] = "sending"
    /\ link[captured[r]] = "down"
    /\ Answer(r, "sendFailed")
    /\ UNCHANGED <<linkVars, captured, got, agentVars, dropped>>

(* List and Changes: the first message on the channel is the answer. *)
ReceiveReply(r) ==
    /\ http[r] = "waiting"
    /\ chan[r] # <<>>
    /\ r \notin Downloads
    /\ Answer(r, IF Head(chan[r]).err THEN "error" ELSE "ok")
    /\ UNCHANGED <<linkVars, captured, got, agentVars, dropped>>

(* Mutant: the answer is given when index = total, as in an ack. *)
ReceiveChunkUntilTotal(r) ==
    /\ http[r] = "waiting"
    /\ chan[r] # <<>>
    /\ r \in Downloads
    /\ IF Head(chan[r]).index = Head(chan[r]).total
       THEN Answer(r, "ok")
       ELSE chan' = [chan EXCEPT ![r] = Tail(@)] /\ UNCHANGED <<http, reply, pending>>
    /\ UNCHANGED <<linkVars, captured, got, agentVars, dropped>>

(* Download: every message is taken for a chunk, and the answer is given   *)
(* with the one whose index is total - 1.                                  *)
ReceiveChunk(r) ==
    /\ http[r] = "waiting"
    /\ chan[r] # <<>>
    /\ r \in Downloads
    /\ LET m == Head(chan[r]) IN
          /\ got' = IF m.kind = "chunk" THEN [got EXCEPT ![r] = Append(@, m.index)]
                    ELSE got
          /\ IF m.index + 1 = m.total
             THEN Answer(r, "ok")
             ELSE /\ chan' = [chan EXCEPT ![r] = Tail(@)]
                  /\ UNCHANGED <<http, reply, pending>>
    /\ UNCHANGED <<linkVars, captured, agentVars, dropped>>

(* time.After: 15 s for List and Delete, 60 s for Upload, and 60 s for all *)
(* of a Download.  select may pick it although an answer is there.         *)
Timeout(r) ==
    /\ http[r] = "waiting"
    /\ Answer(r, "timeout")
    /\ UNCHANGED <<linkVars, captured, got, agentVars, dropped>>

------------------------------------------------------------------------------
(* Mutant: every pending request gets the message. *)
ResolveAll(e) ==
    /\ ServerReads(e)
    /\ chan' = [r \in Requests |->
                   IF r \in pending /\ Head(wire[e]) # Register /\ Len(chan[r]) < ChanCap
                   THEN Append(chan[r], Head(wire[e])) ELSE chan[r]]
    /\ UNCHANGED <<http, captured, reply, got, pending, agentVars, dropped>>

(* The server's read loop of connection e: ResolveRequest.                 *)
Resolve(e) ==
    /\ ServerReads(e)
    /\ LET m == Head(wire[e]) IN
          IF m = Register \/ m.req \notin pending
          THEN UNCHANGED <<chan, dropped>>
          ELSE IF Len(chan[m.req]) < ChanCap
               THEN /\ chan' = [chan EXCEPT ![m.req] = Append(@, m)]
                    /\ UNCHANGED dropped
               ELSE dropped' = dropped \cup {m.req} /\ UNCHANGED chan
    /\ UNCHANGED <<http, captured, reply, got, pending, agentVars>>

------------------------------------------------------------------------------
(* The agent.                                                              *)

(* Mutant: a request that was carried out can be handled again. *)
HandleAgain(r) ==
    /\ job[r] \in {"asked", "done"}
    /\ captured[r] = conn
    /\ agent = "looping"
    /\ job' = [job EXCEPT ![r] = "running"]
    /\ UNCHANGED <<linkVars, serverVars, outcome, sent, dropped>>

(* The connect loop takes the request and starts its goroutine. *)
Handle(r) ==
    /\ job[r] = "asked"
    /\ captured[r] = conn
    /\ agent = "looping"
    /\ job' = [job EXCEPT ![r] = "running"]
    /\ UNCHANGED <<linkVars, serverVars, outcome, sent, dropped>>

Post(r, m) ==
    /\ Enqueue(m)
    /\ dropped' = IF sendCh' = sendCh THEN dropped \cup {r} ELSE dropped
    /\ UNCHANGED <<agent, conn, writer, link, wire, phase>>

(* Mutant: the error is not reported. *)
CarryOutUnreported(r) ==
    /\ job[r] = "running"
    /\ r \notin Downloads
    /\ \E o \in {"ok", "failed"} : outcome' = [outcome EXCEPT ![r] = o]
    /\ Post(r, IF r \in Lists THEN ListMsg(r) ELSE AckMsg(r, FALSE))
    /\ job' = [job EXCEPT ![r] = "done"]
    /\ UNCHANGED <<serverVars, sent>>

(* WriteFile, DeletePath or ListDir, and the one message that reports it.  *)
(* handleFileList reports a directory it cannot read as an empty one.      *)
CarryOut(r) ==
    /\ job[r] = "running"
    /\ r \notin Downloads
    /\ \E o \in {"ok", "failed"} :
          /\ outcome' = [outcome EXCEPT ![r] = o]
          /\ Post(r, IF r \in Lists THEN ListMsg(r) ELSE AckMsg(r, o = "failed"))
    /\ job' = [job EXCEPT ![r] = "done"]
    /\ UNCHANGED <<serverVars, sent>>

(* ReadFileChunked, the whole file at once. *)
ReadFile(r) ==
    /\ job[r] = "running"
    /\ r \in Downloads
    /\ outcome' = [outcome EXCEPT ![r] = "ok"]
    /\ job' = [job EXCEPT ![r] = "sending"]
    /\ UNCHANGED <<linkVars, serverVars, sent, dropped>>

ReadFileFails(r) ==
    /\ job[r] = "running"
    /\ r \in Downloads
    /\ outcome' = [outcome EXCEPT ![r] = "failed"]
    /\ Post(r, AckMsg(r, TRUE))
    /\ job' = [job EXCEPT ![r] = "done"]
    /\ UNCHANGED <<serverVars, sent>>

SendChunk(r) ==
    /\ job[r] = "sending"
    /\ Post(r, ChunkMsg(r, sent[r]))
    /\ sent' = [sent EXCEPT ![r] = @ + 1]
    /\ job' = IF sent'[r] = Chunks THEN [job EXCEPT ![r] = "done"] ELSE job
    /\ UNCHANGED <<serverVars, outcome>>

------------------------------------------------------------------------------
ServerStep(r) ==
    \/ Offline(r) \/ Ask(r) \/ Send(r) \/ SendFails(r)
    \/ ReceiveReply(r) \/ ReceiveChunk(r) \/ Timeout(r)

AgentStep(r) ==
    \/ Handle(r) \/ CarryOut(r) \/ ReadFile(r) \/ ReadFileFails(r) \/ SendChunk(r)

Next ==
    \/ LinkStep /\ UNCHANGED <<serverVars, agentVars, dropped>>
    \/ \E e \in Dials : Resolve(e)
    \/ \E r \in Requests : ServerStep(r) \/ AgentStep(r)

Spec == Init /\ [][Next]_vars

------------------------------------------------------------------------------
(* Safety.                                                                 *)

(* Whatever is dropped, delayed, answered late or read from an older       *)
(* connection, the answers are those RequestReply allows.                  *)
Abstract == INSTANCE RequestReply WITH
    Listings <- Lists,
    stage <- [r \in Requests |->
                 IF http[r] \in {"sending", "waiting"} THEN "asked" ELSE http[r]],
    answer <- reply,
    outcome <- outcome

AnswersAreTrue == Abstract!Spec

(* As long as the connection that carried the request holds and no channel *)
(* was full, a download is a gapless beginning of the file, and the file   *)
(* when it is answered: neither the agent's goroutines, which share        *)
(* sendCh, nor the relay reorder, repeat or mix chunks                     *)
(* (ws_client.go:284-294, files.go:101-117).                               *)
DownloadIntact ==
    \A r \in Downloads :
        captured[r] # 0 /\ r \notin dropped /\ link[captured[r]] = "up" =>
            /\ \A i \in 1 .. Len(got[r]) : got[r][i] = i - 1
            /\ reply[r] = "ok" => Len(got[r]) = Chunks

(* A file the agent could not read is never served, not even as an empty   *)
(* one: its file_ack decodes as a chunk that is nobody's last              *)
(* (files.go:108-114, ws_client.go:280-283).                               *)
UnreadableNeverServed ==
    \A r \in Downloads : outcome[r] # "ok" => reply[r] # "ok" /\ got[r] = <<>>

------------------------------------------------------------------------------
(* The invariant behind the safety properties.                             *)

(* The messages that report what was done for their request, in the form   *)
(* the agent has for that kind of request.                                 *)
Tells(m) ==
    \/ /\ m.kind = "list"
       /\ m.req \in Lists
       /\ outcome[m.req] # "none"
       /\ ~m.err
    \/ /\ m.kind = "ack"
       /\ m.req \in Changes \/ (m.req \in Downloads /\ m.err)
       /\ outcome[m.req] = IF m.err THEN "failed" ELSE "ok"
       /\ m.total = 0
    \/ /\ m.kind = "chunk"
       /\ m.req \in Downloads
       /\ outcome[m.req] = "ok"
       /\ m.total = Chunks

TrueMessages == {m \in Messages : Tells(m)}

(* Whatever is on its way, in sendCh, on a connection that may be gone or  *)
(* in a response channel, tells the truth, and a response channel holds    *)
(* answers to its own request only (ws_client.go:225-324, hub.go:121-141). *)
PipelineTrue ==
    /\ sendCh \in Seq(TrueMessages \cup {Register})
    /\ wire \in [Dials -> Seq(TrueMessages \cup {Register})]
    /\ \A r \in Requests : chan[r] \in Seq({m \in TrueMessages : m.req = r})

(* The agent works on no request that was turned away or never sent, and   *)
(* on one that was answered only if the answer was the time limit.         *)
JobsMatch ==
    \A r \in Requests :
        /\ reply[r] = "none" <=> http[r] # "answered"
        /\ job[r] # "none" => http[r] \in {"waiting", "answered"}
        /\ job[r] \in {"none", "asked", "running"} <=> outcome[r] = "none"
        /\ job[r] \in {"asked", "running"} => reply[r] \in {"none", "timeout"}
        /\ job[r] \in {"none", "asked", "running"} => sent[r] = 0
        /\ job[r] = "sending" => outcome[r] = "ok" /\ sent[r] < Chunks /\ r \in Downloads
        /\ http[r] \in {"sending", "waiting"} => captured[r] # 0

IInv ==
    /\ TypeOK
    /\ PipelineTrue
    /\ JobsMatch
    /\ UnreadableNeverServed

------------------------------------------------------------------------------
(* The invariant behind DownloadIntact.                                    *)

(* A connection that holds is the agent's last one; nothing was written to *)
(* a later one, and no answer to an earlier one than carried its request.  *)
ConnectionsOrdered ==
    /\ \A e \in Dials : link[e] = "up" => e = conn /\ agent # "away"
    /\ \A e \in Dials : phase[e] # "none" \/ wire[e] # <<>> => e <= conn
    /\ \A r \in Requests : captured[r] <= conn
    /\ \A e \in Dials : \A i \in DOMAIN wire[e] :
           wire[e][i] # Register => captured[wire[e][i].req] <= e

PendingUntilAnswered ==
    \A r \in Requests : http[r] \in {"sending", "waiting"} => r \in pending

(* A queue carries the chunks lo, ..., hi - 1 of r in order, among others. *)
IsChunk(m, r) == m # Register /\ m.req = r /\ m.kind = "chunk"

Carries(q, r, lo, hi) ==
    /\ \A i \in DOMAIN q : IsChunk(q[i], r) => q[i].index \in lo .. hi - 1
    /\ \A i, j \in DOMAIN q :
           i < j /\ IsChunk(q[i], r) /\ IsChunk(q[j], r) => q[i].index < q[j].index
    /\ \A n \in lo .. hi - 1 : \E i \in DOMAIN q : IsChunk(q[i], r) /\ q[i].index = n

(* Nothing is missing of what has been sent so far, in got and the queues. *)
Intact(r) == captured[r] # 0 /\ r \notin dropped /\ link[captured[r]] = "up"

Gapless(r) ==
    \E b, d \in 0 .. sent[r] :
        /\ Len(got[r]) <= b /\ b <= d
        /\ Carries(chan[r], r, Len(got[r]), b)
        /\ Carries(wire[captured[r]], r, b, d)
        /\ Carries(sendCh, r, d, sent[r])

StreamsGapless ==
    \A r \in Downloads : Intact(r) /\ http[r] = "waiting" => Gapless(r)

DInv ==
    /\ ConnectionsOrdered
    /\ PendingUntilAnswered
    /\ StreamsGapless
    /\ DownloadIntact

------------------------------------------------------------------------------
(* What the source's comments say and the code does not do.                *)

(* hub.go:143 "CancelRequest closes the channel so the HTTP handler        *)
(* unblocks", and the answer "agent disconnected" that files.go:62-64 has  *)
(* for a closed channel: a handler whose agent has disconnected is not     *)
(* left to its time limit.                                                 *)
DisconnectUnblocks ==
    [][\A r \in Requests :
          reply[r] = "none" /\ reply'[r] = "timeout" => phase[captured[r]] = "serving"]_vars

(* ws_client.go:233 "channel full, drop (shouldn't happen in practice)": a *)
(* download that is answered with the file is answered with all of it.     *)
DownloadOkIsWhole ==
    \A r \in Downloads :
        reply[r] = "ok" => got[r] = [i \in 1 .. Chunks |-> i - 1]
==============================================================================
