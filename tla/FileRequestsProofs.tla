-------------------------- MODULE FileRequestsProofs --------------------------
(***************************************************************************)
(* The invariant of FileRequests is inductive, and FileRequests implements *)
(* RequestReply, for every number of requests, connections and chunks and  *)
(* every capacity of the channels.                                         *)
(*                                                                         *)
(* The core of the argument: an outcome is decided once and never changes, *)
(* so a message that told the truth when it was posted still does when it  *)
(* arrives, however late and over whichever connection.                    *)
(***************************************************************************)
EXTENDS FileRequests, AgentLinkProofs

USE QueueCapAssumption, MaxDialsAssumption, ChunksAssumption, ChanCapAssumption

------------------------------------------------------------------------------
(* The initial states satisfy the invariant. *)
LEMMA InitInv == Init => IInv
<1> SUFFICES ASSUME Init PROVE IInv
  OBVIOUS
<1> USE DEF Init, LinkInit
<1>1. TypeOK
  BY EmptySeq DEF TypeOK, LinkTypeOK, Dials, Requests
<1>2. PipelineTrue
  BY EmptySeq DEF PipelineTrue
<1>3. JobsMatch /\ UnreadableNeverServed
  BY DEF JobsMatch, UnreadableNeverServed, Requests
<1> QED  BY <1>1, <1>2, <1>3 DEF IInv

(* A step of the link changes no message, so it keeps the invariant. *)
LEMMA LinkInv ==
  ASSUME IInv, LinkStep, UNCHANGED <<serverVars, agentVars, dropped>>
  PROVE  IInv'
<1> USE DEF IInv, serverVars, agentVars
<1>1. TypeOK'
  BY LinkTypeStep DEF TypeOK
<1>2. TrueMessages' = TrueMessages
  BY DEF TrueMessages, Tells
<1>3. PipelineTrue'
  <2>1. LinkTypeOK(TrueMessages)
    BY DEF PipelineTrue, TypeOK, LinkTypeOK
  <2>2. /\ sendCh' \in Seq(TrueMessages \cup {Register})
        /\ wire' \in [Dials -> Seq(TrueMessages \cup {Register})]
    BY <2>1, LinkTypeStep DEF LinkTypeOK
  <2> QED  BY <1>2, <2>2 DEF PipelineTrue
<1>4. JobsMatch' /\ UnreadableNeverServed'
  BY DEF JobsMatch, UnreadableNeverServed
<1> QED  BY <1>1, <1>3, <1>4

(* The message a handler takes from its channel is true and its own. *)
LEMMA HeadTells ==
  ASSUME IInv, NEW r \in Requests, chan[r] # <<>>
  PROVE  /\ Head(chan[r]) \in Messages
         /\ Tells(Head(chan[r]))
         /\ Head(chan[r]).req = r
         /\ Tail(chan[r]) \in Seq({m \in TrueMessages : m.req = r})
         /\ Tail(chan[r]) \in Seq(Messages)
         /\ Len(Tail(chan[r])) <= ChanCap
<1>1. chan[r] \in Seq({m \in TrueMessages : m.req = r}) /\ chan[r] \in Seq(Messages)
  BY DEF IInv, PipelineTrue, TypeOK
<1>2. Head(chan[r]) \in {m \in TrueMessages : m.req = r}
  BY <1>1, SeqFacts
<1>3. Len(chan[r]) \in Nat /\ Len(chan[r]) <= ChanCap /\ Len(Tail(chan[r])) = Len(chan[r]) - 1
  BY <1>1, SeqFacts DEF IInv, TypeOK
<1> QED  BY <1>1, <1>2, <1>3, SeqFacts DEF TrueMessages

(* What an answer leaves behind, whatever it is. *)
LEMMA AnswerKeeps ==
  ASSUME IInv, NEW r \in Requests, NEW a \in Answers, Answer(r, a),
         UNCHANGED <<linkVars, captured, agentVars, dropped>>,
         got' \in [Requests -> Seq(0 .. Chunks)]
  PROVE  TypeOK' /\ PipelineTrue'
<1> USE DEF IInv, linkVars, agentVars, Answer
<1>1. TypeOK'
  <2>1. <<>> \in Seq(Messages) /\ Len(<<>>) = 0
    BY EmptySeq
  <2>2. chan' \in [Requests -> Seq(Messages)] /\ \A q \in Requests : Len(chan'[q]) <= ChanCap
    BY <2>1 DEF TypeOK
  <2> QED  BY <2>2 DEF TypeOK, LinkTypeOK
<1>2. TrueMessages' = TrueMessages
  BY DEF TrueMessages, Tells
<1>3. PipelineTrue'
  BY <1>2, EmptySeq DEF PipelineTrue, TypeOK
<1> QED  BY <1>1, <1>3

(* The answer "offline" keeps the invariant. *)
LEMMA OfflineInv == ASSUME IInv, NEW r \in Requests, Offline(r) PROVE IInv'
<1> USE DEF Offline
<1>1. TypeOK' /\ PipelineTrue'
  BY AnswerKeeps DEF Answers, IInv, TypeOK
<1>2. JobsMatch' /\ UnreadableNeverServed'
  BY DEF IInv, TypeOK, JobsMatch, UnreadableNeverServed, Answer, agentVars, linkVars
<1> QED  BY <1>1, <1>2 DEF IInv

(* The answer to a Send that failed keeps the invariant: no job was        *)
(* started.                                                                *)
LEMMA SendFailsInv == ASSUME IInv, NEW r \in Requests, SendFails(r) PROVE IInv'
<1> USE DEF SendFails
<1>1. TypeOK' /\ PipelineTrue'
  BY AnswerKeeps DEF Answers, IInv, TypeOK
<1>2. JobsMatch' /\ UnreadableNeverServed'
  BY DEF IInv, TypeOK, JobsMatch, UnreadableNeverServed, Answer, agentVars, linkVars
<1> QED  BY <1>1, <1>2 DEF IInv

(* The time limit keeps the invariant: a job may go on after it. *)
LEMMA TimeoutInv == ASSUME IInv, NEW r \in Requests, Timeout(r) PROVE IInv'
<1> USE DEF Timeout
<1>1. TypeOK' /\ PipelineTrue'
  BY AnswerKeeps DEF Answers, IInv, TypeOK
<1>2. JobsMatch' /\ UnreadableNeverServed'
  BY DEF IInv, TypeOK, JobsMatch, UnreadableNeverServed, Answer, agentVars, linkVars
<1> QED  BY <1>1, <1>2 DEF IInv

(* Answering with the first message keeps the invariant: the job is done. *)
LEMMA ReceiveReplyInv == ASSUME IInv, NEW r \in Requests, ReceiveReply(r) PROVE IInv'
<1> USE DEF ReceiveReply
<1> DEFINE a == IF Head(chan[r]).err THEN "error" ELSE "ok"
<1>1. TypeOK' /\ PipelineTrue'
  BY AnswerKeeps, a \in Answers DEF Answers, IInv, TypeOK
<1>2. outcome[r] # "none"
  BY HeadTells DEF Tells
<1>3. JobsMatch' /\ UnreadableNeverServed'
  BY <1>2 DEF IInv, TypeOK, JobsMatch, UnreadableNeverServed, Answer, agentVars, linkVars
<1> QED  BY <1>1, <1>3 DEF IInv

(* Taking a chunk keeps the invariant: only a chunk of a file that was     *)
(* read is written to the buffer or is the last one, an ack never is.      *)
LEMMA ReceiveChunkInv == ASSUME IInv, NEW r \in Requests, ReceiveChunk(r) PROVE IInv'
<1> USE DEF ReceiveChunk
<1> DEFINE m == Head(chan[r])
<1>1. /\ m \in Messages /\ m.index \in 0 .. Chunks /\ m.total \in 0 .. Chunks
      /\ outcome[r] # "none"
      /\ m.kind = "chunk" => outcome[r] = "ok"
      /\ m.index + 1 = m.total => m.kind = "chunk"
  <2>1. m \in Messages /\ Tells(m) /\ m.req = r
    BY HeadTells
  <2>2. m.index \in 0 .. Chunks /\ m.total \in 0 .. Chunks
    BY <2>1 DEF Messages
  <2>3. m.kind \in {"ack", "chunk"}
    BY <2>1, KindsDisjoint DEF Tells
  <2>4. CASE m.kind = "ack"
    BY <2>1, <2>2, <2>4 DEF Tells
  <2>5. CASE m.kind = "chunk"
    BY <2>1, <2>2, <2>5 DEF Tells
  <2> QED  BY <2>1, <2>2, <2>3, <2>4, <2>5
<1>2. got' \in [Requests -> Seq(0 .. Chunks)]
  <2>1. got[r] \in Seq(0 .. Chunks) /\ Append(got[r], m.index) \in Seq(0 .. Chunks)
    BY <1>1, SeqFacts DEF IInv, TypeOK
  <2> QED  BY <2>1 DEF IInv, TypeOK
<1>3. CASE m.index + 1 = m.total
  <2>1. TypeOK' /\ PipelineTrue'
    BY <1>2, <1>3, AnswerKeeps DEF Answers
  <2>2. outcome[r] = "ok" /\ UNCHANGED agentVars /\ Answer(r, "ok")
    BY <1>1, <1>3
  <2>3. JobsMatch'
    <3>1. job[r] \notin {"asked", "running"} /\ job[r] # "none"
      BY <2>2 DEF IInv, JobsMatch
    <3> QED  BY <2>2, <3>1 DEF IInv, TypeOK, JobsMatch, Answer, agentVars
  <2>4. UnreadableNeverServed'
    BY <2>2 DEF IInv, TypeOK, UnreadableNeverServed, Answer, agentVars
  <2> QED  BY <2>1, <2>3, <2>4 DEF IInv
<1>4. CASE m.index + 1 # m.total
  <2>1. TypeOK'
    BY <1>2, <1>4, HeadTells DEF IInv, TypeOK, LinkTypeOK, agentVars, linkVars
  <2>2. TrueMessages' = TrueMessages
    BY DEF TrueMessages, Tells, agentVars
  <2>3. PipelineTrue'
    <3>1. \A q \in Requests : chan'[q] = IF q = r THEN Tail(chan[r]) ELSE chan[q]
      BY <1>4 DEF IInv, TypeOK
    <3>2. Tail(chan[r]) \in Seq({x \in TrueMessages : x.req = r})
      BY HeadTells
    <3>3. \A q \in Requests : chan'[q] \in Seq({x \in TrueMessages : x.req = q})
      BY <3>1, <3>2 DEF IInv, PipelineTrue
    <3> QED  BY <2>2, <3>3 DEF IInv, PipelineTrue, linkVars
  <2>4. JobsMatch'
    BY <1>4 DEF IInv, JobsMatch, agentVars
  <2>5. UnreadableNeverServed'
    BY <1>1, <1>4 DEF IInv, TypeOK, UnreadableNeverServed, agentVars
  <2> QED  BY <2>1, <2>3, <2>4, <2>5 DEF IInv
<1> QED  BY <1>3, <1>4

(* GetAgent and RegisterRequest keep the invariant. *)
LEMMA AskInv == ASSUME IInv, NEW r \in Requests, Ask(r) PROVE IInv'
<1> USE DEF Ask
<1>1. PICK e \in Dials : captured' = [captured EXCEPT ![r] = e]
  OBVIOUS
<1>2. TypeOK'
  BY <1>1, MaxDialsAssumption DEF IInv, TypeOK, LinkTypeOK, Dials, agentVars, linkVars
<1>3. TrueMessages' = TrueMessages
  BY DEF TrueMessages, Tells, agentVars
<1>4. PipelineTrue'
  BY <1>3 DEF IInv, PipelineTrue, linkVars
<1>5. JobsMatch'
  BY <1>1 DEF IInv, TypeOK, JobsMatch, agentVars, Dials
<1>6. UnreadableNeverServed'
  BY DEF IInv, UnreadableNeverServed, agentVars
<1> QED  BY <1>2, <1>4, <1>5, <1>6 DEF IInv

(* Sending the request keeps the invariant: it starts the only job. *)
LEMMA SendInv == ASSUME IInv, NEW r \in Requests, Send(r) PROVE IInv'
<1> USE DEF Send
<1>2. TypeOK'
  BY DEF IInv, TypeOK, LinkTypeOK, linkVars
<1>3. TrueMessages' = TrueMessages
  BY DEF TrueMessages, Tells
<1>4. PipelineTrue'
  BY <1>3 DEF IInv, PipelineTrue, linkVars
<1>5. JobsMatch'
  <2>1. job[r] = "none" /\ reply[r] = "none" /\ captured[r] # 0
    BY DEF IInv, TypeOK, JobsMatch
  <2> QED  BY <2>1 DEF IInv, TypeOK, JobsMatch
<1>6. UnreadableNeverServed'
  BY DEF IInv, UnreadableNeverServed
<1> QED  BY <1>2, <1>4, <1>5, <1>6 DEF IInv

(* ResolveRequest keeps the invariant: it files a true message under the   *)
(* request the message names, and drops it when the channel is full.       *)
LEMMA ResolveInv == ASSUME IInv, NEW e \in Dials, Resolve(e) PROVE IInv'
<1> USE DEF Resolve, ServerReads
<1> DEFINE m == Head(wire[e])
<1>1. /\ m \in TrueMessages \cup {Register}
      /\ Tail(wire[e]) \in Seq(TrueMessages \cup {Register})
      /\ Tail(wire[e]) \in Seq(Messages \cup {Register})
  BY SeqFacts DEF IInv, PipelineTrue, TypeOK, LinkTypeOK
<1>2. TrueMessages' = TrueMessages
  BY DEF TrueMessages, Tells, agentVars
<1>3. /\ wire' \in [Dials -> Seq(TrueMessages \cup {Register})]
      /\ wire' \in [Dials -> Seq(Messages \cup {Register})]
  BY <1>1 DEF IInv, PipelineTrue, TypeOK, LinkTypeOK
<1>4. /\ \A r \in Requests : chan'[r] \in Seq({x \in TrueMessages : x.req = r})
      /\ chan' \in [Requests -> Seq(Messages)]
      /\ \A r \in Requests : Len(chan'[r]) <= ChanCap
      /\ dropped' \in SUBSET Requests
  <2>1. CASE m = Register \/ m.req \notin pending
    BY <2>1 DEF IInv, PipelineTrue, TypeOK
  <2>2. CASE ~(m = Register \/ m.req \notin pending)
    <3>1. m \in TrueMessages /\ m \in Messages /\ m.req \in Requests
      BY <1>1, <2>2 DEF TrueMessages, Messages
    <3>2. CASE Len(chan[m.req]) < ChanCap
      <4>1. chan[m.req] \in Seq({x \in TrueMessages : x.req = m.req})
        BY <3>1 DEF IInv, PipelineTrue
      <4>2. Append(chan[m.req], m) \in Seq({x \in TrueMessages : x.req = m.req})
        BY <3>1, <4>1, SeqFacts
      <4>3. /\ Append(chan[m.req], m) \in Seq(Messages)
            /\ Len(Append(chan[m.req], m)) = Len(chan[m.req]) + 1
            /\ Len(chan[m.req]) \in Nat
        BY <3>1, SeqFacts DEF IInv, TypeOK
      <4>4. chan' = [chan EXCEPT ![m.req] = Append(@, m)] /\ dropped' = dropped
        BY <2>2, <3>2
      <4>5. \A r \in Requests :
               chan'[r] = IF r = m.req THEN Append(chan[m.req], m) ELSE chan[r]
        BY <3>1, <4>4 DEF IInv, TypeOK
      <4>6. \A r \in Requests : chan'[r] \in Seq({x \in TrueMessages : x.req = r})
        BY <4>2, <4>5 DEF IInv, PipelineTrue
      <4>7. chan' \in [Requests -> Seq(Messages)]
        BY <3>1, <4>3, <4>4 DEF IInv, TypeOK
      <4>8. \A r \in Requests : Len(chan'[r]) <= ChanCap
        <5>1. Len(Append(chan[m.req], m)) <= ChanCap
          BY <3>2, <4>3, ChanCapAssumption
        <5>2. \A r \in Requests : Len(chan[r]) <= ChanCap
          BY DEF IInv, TypeOK
        <5> QED  BY <4>5, <5>1, <5>2
      <4> QED  BY <4>4, <4>6, <4>7, <4>8 DEF IInv, TypeOK
    <3>3. CASE ~(Len(chan[m.req]) < ChanCap)
      <4>1. chan' = chan /\ dropped' = dropped \cup {m.req}
        BY <2>2, <3>3
      <4> QED  BY <3>1, <4>1 DEF IInv, PipelineTrue, TypeOK
    <3> QED  BY <3>2, <3>3
  <2> QED  BY <2>1, <2>2
<1>5. TypeOK'
  BY <1>3, <1>4 DEF IInv, TypeOK, LinkTypeOK, agentVars
<1>6. PipelineTrue'
  BY <1>2, <1>3, <1>4 DEF IInv, PipelineTrue
<1>7. JobsMatch' /\ UnreadableNeverServed'
  BY DEF IInv, JobsMatch, UnreadableNeverServed, agentVars
<1> QED  BY <1>5, <1>6, <1>7 DEF IInv

(* The goroutines of the agent: what has been true of a message stays true *)
(* of it, wherever it is under way.                                        *)
LEMMA GrowKeeps ==
  ASSUME IInv, TrueMessages \subseteq TrueMessages'
  PROVE  /\ sendCh \in Seq(TrueMessages' \cup {Register})
         /\ wire \in [Dials -> Seq(TrueMessages' \cup {Register})]
         /\ \A q \in Requests : chan[q] \in Seq({x \in TrueMessages' : x.req = q})
<1>1. /\ sendCh \in Seq(TrueMessages' \cup {Register})
      /\ wire \in [Dials -> Seq(TrueMessages' \cup {Register})]
  <2>1. TrueMessages \cup {Register} \subseteq TrueMessages' \cup {Register}
    OBVIOUS
  <2> QED  BY <2>1, SeqGrows DEF IInv, PipelineTrue
<1>2. ASSUME NEW q \in Requests PROVE chan[q] \in Seq({x \in TrueMessages' : x.req = q})
  <2>1. {x \in TrueMessages : x.req = q} \subseteq {x \in TrueMessages' : x.req = q}
    OBVIOUS
  <2> QED  BY <2>1, SeqGrows DEF IInv, PipelineTrue
<1> QED  BY <1>1, <1>2

(* A goroutine that posts a true message keeps the pipeline true, also     *)
(* when the message is dropped.                                            *)
LEMMA PostKeeps ==
  ASSUME IInv, NEW r \in Requests, NEW m \in Messages, Post(r, m),
         TrueMessages \subseteq TrueMessages', m \in TrueMessages', UNCHANGED serverVars
  PROVE  /\ LinkTypeOK(Messages)' /\ PipelineTrue'
         /\ dropped' \in SUBSET Requests
<1> USE DEF Post, Enqueue
<1>1. /\ sendCh \in Seq(TrueMessages' \cup {Register})
      /\ wire \in [Dials -> Seq(TrueMessages' \cup {Register})]
      /\ \A q \in Requests : chan[q] \in Seq({x \in TrueMessages' : x.req = q})
  BY GrowKeeps
<1>2. sendCh' \in Seq(TrueMessages' \cup {Register})
  BY <1>1, SeqFacts
<1>3. sendCh' \in Seq(Messages \cup {Register}) /\ Len(sendCh') <= QueueCap
  <2>1. sendCh \in Seq(Messages \cup {Register}) /\ Len(sendCh) <= QueueCap
    BY DEF IInv, TypeOK, LinkTypeOK
  <2>2. /\ Append(sendCh, m) \in Seq(Messages \cup {Register})
        /\ Len(Append(sendCh, m)) = Len(sendCh) + 1 /\ Len(sendCh) \in Nat
    BY <2>1, SeqFacts
  <2> QED  BY <2>1, <2>2, QueueCapAssumption
<1>4. PipelineTrue'
  BY <1>1, <1>2 DEF PipelineTrue, serverVars
<1> QED  BY <1>3, <1>4 DEF IInv, TypeOK, LinkTypeOK

(* Starting the goroutine keeps the invariant. *)
LEMMA HandleInv == ASSUME IInv, NEW r \in Requests, Handle(r) PROVE IInv'
<1> USE DEF Handle
<1>1. TypeOK'
  BY DEF IInv, TypeOK, LinkTypeOK, linkVars, serverVars
<1>2. TrueMessages' = TrueMessages
  BY DEF TrueMessages, Tells
<1>3. PipelineTrue'
  BY <1>2 DEF IInv, PipelineTrue, linkVars, serverVars
<1>4. JobsMatch'
  BY DEF IInv, TypeOK, JobsMatch, serverVars
<1>5. UnreadableNeverServed'
  BY DEF IInv, UnreadableNeverServed, serverVars
<1> QED  BY <1>1, <1>3, <1>4, <1>5 DEF IInv

(* The outcome of an operation that had none makes no message false:       *)
(* nobody has reported on that request yet.                                *)
LEMMA OutcomeGrows ==
  ASSUME IInv, NEW r \in Requests, outcome[r] = "none", NEW o \in {"ok", "failed"},
         outcome' = [outcome EXCEPT ![r] = o]
  PROVE  TrueMessages \subseteq TrueMessages'
<1> SUFFICES ASSUME NEW m \in TrueMessages PROVE m \in TrueMessages'
  OBVIOUS
<1>1. m \in Messages /\ Tells(m) /\ m.req \in Requests
  BY DEF TrueMessages, Messages
<1>2. m.req # r
  BY <1>1 DEF Tells
<1>3. outcome'[m.req] = outcome[m.req]
  BY <1>1, <1>2 DEF IInv, TypeOK
<1>4. Tells(m)'
  BY <1>1, <1>3 DEF Tells
<1> QED  BY <1>1, <1>4 DEF TrueMessages

(* Carrying out a listing, an upload or a delete keeps the invariant. *)
LEMMA CarryOutInv == ASSUME IInv, NEW r \in Requests, CarryOut(r) PROVE IInv'
<1> USE DEF CarryOut
<1>1. PICK o \in {"ok", "failed"} :
        /\ outcome' = [outcome EXCEPT ![r] = o]
        /\ Post(r, IF r \in Lists THEN ListMsg(r) ELSE AckMsg(r, o = "failed"))
  OBVIOUS
<1> DEFINE m == IF r \in Lists THEN ListMsg(r) ELSE AckMsg(r, o = "failed")
<1>2. outcome[r] = "none"
  BY DEF IInv, JobsMatch
<1>3. m \in Messages /\ m.req = r
  BY ChunksAssumption DEF Messages, ListMsg, AckMsg
<1>4. outcome'[r] = o
  BY <1>1 DEF IInv, TypeOK
<1>5. Tells(m)'
  BY <1>4, KindsDisjoint DEF Tells, ListMsg, AckMsg, Requests
<1>6. TrueMessages \subseteq TrueMessages' /\ m \in TrueMessages'
  BY <1>1, <1>2, <1>3, <1>5, OutcomeGrows DEF TrueMessages
<1>7. LinkTypeOK(Messages)' /\ PipelineTrue' /\ dropped' \in SUBSET Requests
  BY <1>1, <1>3, <1>6, PostKeeps
<1>8. TypeOK'
  BY <1>1, <1>7 DEF IInv, TypeOK, serverVars
<1>9. JobsMatch'
  BY <1>1, <1>2 DEF IInv, TypeOK, JobsMatch, serverVars
<1>10. UnreadableNeverServed'
  BY <1>1 DEF IInv, TypeOK, UnreadableNeverServed, serverVars
<1> QED  BY <1>7, <1>8, <1>9, <1>10 DEF IInv

(* Reading a file keeps the invariant. *)
LEMMA ReadFileInv == ASSUME IInv, NEW r \in Requests, ReadFile(r) PROVE IInv'
<1> USE DEF ReadFile
<1>1. outcome[r] = "none" /\ sent[r] = 0
  BY DEF IInv, JobsMatch
<1>2. TrueMessages \subseteq TrueMessages'
  BY <1>1, OutcomeGrows
<1>3. TypeOK'
  BY DEF IInv, TypeOK, LinkTypeOK, linkVars, serverVars
<1>4. PipelineTrue'
  BY <1>2, GrowKeeps DEF PipelineTrue, linkVars, serverVars
<1>5. JobsMatch'
  BY <1>1 DEF IInv, TypeOK, JobsMatch, serverVars
<1>6. UnreadableNeverServed'
  BY <1>1 DEF IInv, TypeOK, UnreadableNeverServed, serverVars
<1> QED  BY <1>3, <1>4, <1>5, <1>6 DEF IInv

(* Failing to read a file, and the ack for it, keeps the invariant. *)
LEMMA ReadFileFailsInv == ASSUME IInv, NEW r \in Requests, ReadFileFails(r) PROVE IInv'
<1> USE DEF ReadFileFails
<1> DEFINE m == AckMsg(r, TRUE)
<1>1. outcome[r] = "none"
  BY DEF IInv, JobsMatch
<1>2. m \in Messages
  BY ChunksAssumption DEF Messages, AckMsg
<1>3. Tells(m)'
  BY DEF IInv, TypeOK, Tells, AckMsg
<1>4. TrueMessages \subseteq TrueMessages' /\ m \in TrueMessages'
  BY <1>1, <1>2, <1>3, OutcomeGrows DEF TrueMessages
<1>5. LinkTypeOK(Messages)' /\ PipelineTrue' /\ dropped' \in SUBSET Requests
  BY <1>2, <1>4, PostKeeps
<1>6. TypeOK'
  BY <1>5 DEF IInv, TypeOK, serverVars
<1>7. JobsMatch'
  BY <1>1 DEF IInv, TypeOK, JobsMatch, serverVars
<1>8. UnreadableNeverServed'
  BY <1>1 DEF IInv, TypeOK, UnreadableNeverServed, serverVars
<1> QED  BY <1>5, <1>6, <1>7, <1>8 DEF IInv

(* Sending the next chunk keeps the invariant. *)
LEMMA SendChunkInv == ASSUME IInv, NEW r \in Requests, SendChunk(r) PROVE IInv'
<1> USE DEF SendChunk
<1> DEFINE m == ChunkMsg(r, sent[r])
<1>1. r \in Downloads /\ outcome[r] = "ok" /\ sent[r] \in 0 .. Chunks /\ sent[r] < Chunks
  BY DEF IInv, JobsMatch, TypeOK
<1>2. m \in Messages
  BY <1>1, ChunksAssumption DEF Messages, ChunkMsg
<1>3. TrueMessages' = TrueMessages
  BY DEF TrueMessages, Tells
<1>4. m \in TrueMessages'
  BY <1>1, <1>2, <1>3 DEF TrueMessages, Tells, ChunkMsg
<1>5. LinkTypeOK(Messages)' /\ PipelineTrue' /\ dropped' \in SUBSET Requests
  BY <1>2, <1>3, <1>4, PostKeeps
<1>6. sent' \in [Requests -> 0 .. Chunks] /\ sent'[r] = sent[r] + 1
  BY <1>1, ChunksAssumption DEF IInv, TypeOK
<1>7. TypeOK'
  BY <1>5, <1>6 DEF IInv, TypeOK, serverVars
<1>8. JobsMatch'
  BY <1>1, <1>6, ChunksAssumption DEF IInv, TypeOK, JobsMatch, serverVars
<1>9. UnreadableNeverServed'
  BY DEF IInv, UnreadableNeverServed, serverVars
<1> QED  BY <1>5, <1>7, <1>8, <1>9 DEF IInv

(* A stuttering step keeps the invariant. *)
LEMMA StutterInv == ASSUME IInv, UNCHANGED vars PROVE IInv'
<1> USE DEF vars, linkVars, serverVars, agentVars
<1>1. TypeOK'
  BY DEF IInv, TypeOK, LinkTypeOK
<1>2. TrueMessages' = TrueMessages
  BY DEF TrueMessages, Tells
<1>3. PipelineTrue' /\ JobsMatch' /\ UnreadableNeverServed'
  BY <1>2 DEF IInv, PipelineTrue, JobsMatch, UnreadableNeverServed
<1> QED  BY <1>1, <1>3 DEF IInv

(* Every step keeps the invariant. *)
LEMMA StepInv == IInv /\ [Next]_vars => IInv'
<1> SUFFICES ASSUME IInv, [Next]_vars PROVE IInv'
  OBVIOUS
<1>1. CASE LinkStep /\ UNCHANGED <<serverVars, agentVars, dropped>>
  BY <1>1, LinkInv
<1>2. ASSUME NEW e \in Dials, Resolve(e) PROVE IInv'
  BY <1>2, ResolveInv
<1>3. ASSUME NEW r \in Requests, ServerStep(r) PROVE IInv'
  BY <1>3, OfflineInv, AskInv, SendInv, SendFailsInv, ReceiveReplyInv, ReceiveChunkInv,
     TimeoutInv DEF ServerStep
<1>4. ASSUME NEW r \in Requests, AgentStep(r) PROVE IInv'
  BY <1>4, HandleInv, CarryOutInv, ReadFileInv, ReadFileFailsInv, SendChunkInv
     DEF AgentStep
<1>5. CASE UNCHANGED vars
  BY <1>5, StutterInv
<1> QED  BY <1>1, <1>2, <1>3, <1>4, <1>5 DEF Next

(* IInv, the inductive invariant of the file API, holds in every state. *)
THEOREM Invariance == Spec => []IInv
<1>1. Init => IInv
  BY InitInv
<1>2. IInv /\ [Next]_vars => IInv'
  BY StepInv
<1> QED  BY <1>1, <1>2, PTL DEF Spec

(* The variables of the file API and of the link keep their types; in      *)
(* particular neither sendCh nor a response channel exceeds its capacity.  *)
THEOREM TypeCorrect == Spec => []TypeOK
<1>1. IInv => TypeOK
  BY DEF IInv
<1> QED  BY <1>1, Invariance, PTL

(* No message that waits anywhere between the agent and an HTTP handler is *)
(* false or another request's (ws_client.go:225-324, hub.go:121-141).      *)
THEOREM PipelineTruthful == Spec => []PipelineTrue
<1>1. IInv => PipelineTrue
  BY DEF IInv
<1> QED  BY <1>1, Invariance, PTL

(* A file the agent could not read is never served (files.go:108-114,      *)
(* ws_client.go:280-283).                                                  *)
THEOREM UnreadableSafe == Spec => []UnreadableNeverServed
<1>1. IInv => UnreadableNeverServed
  BY DEF IInv
<1> QED  BY <1>1, Invariance, PTL

------------------------------------------------------------------------------
(* The initial states are initial states of RequestReply. *)
LEMMA AbstractInit == Init => Abstract!Init
BY DEF Init, Abstract!Init

(* The answer to a listing or a change is one RequestReply allows. *)
LEMMA ReceiveReplyTrue ==
  ASSUME IInv, NEW r \in Requests, ReceiveReply(r)
  PROVE  Abstract!AnswerOk(r) \/ Abstract!AnswerError(r)
<1> DEFINE m == Head(chan[r])
<1>1. r \notin Downloads /\ chan[r] # <<>> /\ http[r] = "waiting"
  BY DEF ReceiveReply
<1>2. Tells(m) /\ m.req = r
  BY <1>1, HeadTells
<1>3. /\ m.err => outcome[r] = "failed"
      /\ ~m.err => outcome[r] = "ok" \/ (outcome[r] = "failed" /\ r \in Lists)
  BY <1>1, <1>2 DEF Tells, IInv, TypeOK
<1>4. Answer(r, IF m.err THEN "error" ELSE "ok") /\ UNCHANGED outcome
  BY DEF ReceiveReply, agentVars
<1>5. ASSUME NEW a, Answer(r, a) PROVE Abstract!Tell(r, a)
  BY <1>1, <1>4, <1>5 DEF Answer, Abstract!Tell, IInv, TypeOK
<1>6. CASE m.err
  BY <1>3, <1>4, <1>5, <1>6 DEF Abstract!AnswerError
<1>7. CASE ~m.err
  BY <1>3, <1>4, <1>5, <1>7 DEF Abstract!AnswerOk
<1> QED  BY <1>6, <1>7

(* The answer to a download is one RequestReply allows. *)
LEMMA ReceiveChunkTrue ==
  ASSUME IInv, NEW r \in Requests, ReceiveChunk(r)
  PROVE  Abstract!AnswerOk(r) \/ UNCHANGED Abstract!abstractVars
<1> DEFINE m == Head(chan[r])
<1>1. r \in Downloads /\ chan[r] # <<>> /\ http[r] = "waiting" /\ UNCHANGED outcome
  BY DEF ReceiveChunk, agentVars
<1>2. CASE m.index + 1 = m.total
  <2>1. m \in Messages /\ Tells(m) /\ m.req = r
    BY <1>1, HeadTells
  <2>2. m.kind # "list" /\ m.kind # "ack"
    BY <1>1, <1>2, <2>1, KindsDisjoint DEF Tells, Messages
  <2>3. outcome[r] = "ok"
    BY <2>1, <2>2 DEF Tells
  <2>4. Answer(r, "ok")
    BY <1>2 DEF ReceiveChunk
  <2>5. Abstract!Tell(r, "ok")
    BY <1>1, <2>4 DEF Answer, Abstract!Tell, IInv, TypeOK
  <2> QED  BY <2>3, <2>5 DEF Abstract!AnswerOk
<1>3. CASE m.index + 1 # m.total
  BY <1>1, <1>3 DEF ReceiveChunk, Abstract!abstractVars
<1> QED  BY <1>2, <1>3

(* Every step is a step of RequestReply or changes nothing it sees. *)
LEMMA AbstractStep == IInv /\ [Next]_vars => [Abstract!Next]_(Abstract!abstractVars)
<1> SUFFICES ASSUME IInv, [Next]_vars
             PROVE  Abstract!Next \/ UNCHANGED Abstract!abstractVars
  OBVIOUS
<1> USE DEF Abstract!abstractVars
<1>1. CASE LinkStep /\ UNCHANGED <<serverVars, agentVars, dropped>>
  BY <1>1 DEF serverVars, agentVars
<1>2. ASSUME NEW e \in Dials, Resolve(e) PROVE UNCHANGED Abstract!abstractVars
  BY <1>2 DEF Resolve, agentVars
<1>3. ASSUME NEW r \in Requests, Offline(r) PROVE Abstract!TurnAway(r)
  BY <1>3 DEF Offline, Answer, agentVars, Abstract!TurnAway, IInv, TypeOK, JobsMatch
<1>4. ASSUME NEW r \in Requests, Ask(r) PROVE Abstract!Ask(r)
  BY <1>4 DEF Ask, agentVars, Abstract!Ask, IInv, TypeOK
<1>5. ASSUME NEW r \in Requests, Send(r) PROVE UNCHANGED Abstract!abstractVars
  BY <1>5 DEF Send, IInv, TypeOK
<1>6. ASSUME NEW r \in Requests, SendFails(r) PROVE Abstract!TurnAway(r)
  BY <1>6 DEF SendFails, Answer, agentVars, Abstract!TurnAway, IInv, TypeOK, JobsMatch
<1>7. ASSUME NEW r \in Requests, Timeout(r) PROVE Abstract!AnswerTimeout(r)
  BY <1>7 DEF Timeout, Answer, agentVars, Abstract!AnswerTimeout, Abstract!Tell,
     IInv, TypeOK
<1>8. ASSUME NEW r \in Requests, Handle(r) \/ SendChunk(r)
      PROVE  UNCHANGED Abstract!abstractVars
  BY <1>8 DEF Handle, SendChunk, serverVars
<1>9. ASSUME NEW r \in Requests, CarryOut(r) \/ ReadFile(r) \/ ReadFileFails(r)
      PROVE  Abstract!CarryOut(r)
  BY <1>9 DEF CarryOut, ReadFile, ReadFileFails, serverVars, Abstract!CarryOut,
     IInv, TypeOK, JobsMatch
<1>10. CASE UNCHANGED vars
  BY <1>10 DEF vars, serverVars, agentVars
<1> QED
  BY <1>1, <1>2, <1>3, <1>4, <1>5, <1>6, <1>7, <1>8, <1>9, <1>10, ReceiveReplyTrue,
     ReceiveChunkTrue DEF Next, ServerStep, AgentStep, Abstract!Next

(* The file API implements RequestReply: its answers are true, at most one *)
(* is given, and no operation is carried out twice or after the request    *)
(* was turned away (files.go:40-217, ws_client.go:256-324).                *)
THEOREM Refinement == Spec => AnswersAreTrue
<1>1. Init => Abstract!Init
  BY AbstractInit
<1>2. IInv /\ [Next]_vars => [Abstract!Next]_(Abstract!abstractVars)
  BY AbstractStep
<1> QED  BY <1>1, <1>2, Invariance, PTL DEF Spec, AnswersAreTrue, Abstract!Spec
===============================================================================
