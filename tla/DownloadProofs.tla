---------------------------- MODULE DownloadProofs ----------------------------
(***************************************************************************)
(* A download over a connection that holds is intact, for every number of  *)
(* chunks, requests and connections and every capacity of the channels:    *)
(* FileRequests' DInv is inductive, given IInv.                            *)
(*                                                                         *)
(* The argument: what has been sent of a file is in the buffer, the        *)
(* response channel, the connection and sendCh, in this order, and each of *)
(* them carries its part without a gap; a step moves one chunk from the    *)
(* head of one to the end of the next, or its request counts as dropped.   *)
(***************************************************************************)
EXTENDS FileRequestsProofs

(* Whatever is sent to the server. *)
AnyMessage == Messages \cup {Register}

(* What the proofs use of the elements of a queue. *)
LEMMA Elements ==
  ASSUME NEW m \in AnyMessage, NEW r
  PROVE  IsChunk(m, r) => m.index \in Nat
BY ChunksAssumption DEF AnyMessage, IsChunk, Messages

(* The first chunk a queue carries is the lowest, and its rest carries the *)
(* rest.                                                                   *)
LEMMA CarriesTail ==
  ASSUME NEW q \in Seq(AnyMessage), q # <<>>, NEW r, NEW lo \in Nat, NEW hi \in Nat,
         Carries(q, r, lo, hi)
  PROVE  /\ IsChunk(Head(q), r) => /\ Head(q).index = lo /\ lo < hi
                                   /\ Carries(Tail(q), r, lo + 1, hi)
         /\ ~IsChunk(Head(q), r) => Carries(Tail(q), r, lo, hi)
<1>1. /\ Len(q) \in Nat /\ Len(q) >= 1 /\ DOMAIN q = 1 .. Len(q)
      /\ Head(q) = q[1] /\ DOMAIN Tail(q) = 1 .. Len(q) - 1
      /\ \A i \in 1 .. Len(q) - 1 : Tail(q)[i] = q[i + 1]
  BY TailFacts
<1>2. \A i \in 1 .. Len(q) : q[i] \in AnyMessage /\ (IsChunk(q[i], r) => q[i].index \in Nat)
  BY Elements
<1>3. \A i \in 1 .. Len(q) : IsChunk(q[i], r) => q[i].index \in lo .. hi - 1
  BY <1>1 DEF Carries
<1>4. \A i, j \in 1 .. Len(q) :
         i < j /\ IsChunk(q[i], r) /\ IsChunk(q[j], r) => q[i].index < q[j].index
  BY <1>1 DEF Carries
<1>5. \A n \in lo .. hi - 1 : \E i \in 1 .. Len(q) : IsChunk(q[i], r) /\ q[i].index = n
  BY <1>1 DEF Carries
<1>6. \A i, j \in 1 .. Len(q) - 1 :
         i < j /\ IsChunk(Tail(q)[i], r) /\ IsChunk(Tail(q)[j], r)
            => Tail(q)[i].index < Tail(q)[j].index
  <2>1. ASSUME NEW i \in 1 .. Len(q) - 1, NEW j \in 1 .. Len(q) - 1, i < j,
               IsChunk(q[i + 1], r), IsChunk(q[j + 1], r)
        PROVE  q[i + 1].index < q[j + 1].index
    <3>1. i + 1 \in 1 .. Len(q) /\ j + 1 \in 1 .. Len(q) /\ i + 1 < j + 1
      BY <1>1, <2>1
    <3> QED  BY <1>4, <2>1, <3>1
  <2> QED  BY <1>1, <2>1
<1>7. CASE IsChunk(q[1], r)
  <2>1. q[1].index \in lo .. hi - 1
    BY <1>1, <1>3, <1>7
  <2>2. q[1].index = lo
    <3>1. PICK i \in 1 .. Len(q) : IsChunk(q[i], r) /\ q[i].index = lo
      BY <1>5, <2>1
    <3>2. CASE i = 1
      BY <3>1, <3>2
    <3>3. CASE i # 1
      <4>1. 1 \in 1 .. Len(q) /\ 1 < i
        BY <1>1, <3>3
      <4>2. q[1].index < q[i].index
        BY <1>4, <1>7, <3>1, <4>1
      <4> QED  BY <2>1, <3>1, <4>2
    <3> QED  BY <3>2, <3>3
  <2>3. \A i \in 1 .. Len(q) - 1 : IsChunk(Tail(q)[i], r) => Tail(q)[i].index \in lo + 1 .. hi - 1
    <3>1. ASSUME NEW i \in 1 .. Len(q) - 1, IsChunk(q[i + 1], r)
          PROVE  q[i + 1].index \in lo + 1 .. hi - 1
      <4>1. i + 1 \in 1 .. Len(q) /\ 1 \in 1 .. Len(q) /\ 1 < i + 1
        BY <1>1
      <4>2. q[1].index < q[i + 1].index /\ q[i + 1].index \in lo .. hi - 1
        BY <1>3, <1>4, <1>7, <3>1, <4>1
      <4> QED  BY <2>2, <4>2
    <3> QED  BY <1>1, <3>1
  <2>4. \A n \in lo + 1 .. hi - 1 :
           \E i \in 1 .. Len(q) - 1 : IsChunk(Tail(q)[i], r) /\ Tail(q)[i].index = n
    <3>1. ASSUME NEW n \in lo + 1 .. hi - 1
          PROVE  \E i \in 1 .. Len(q) - 1 : IsChunk(Tail(q)[i], r) /\ Tail(q)[i].index = n
      <4>0. n \in lo .. hi - 1 /\ n # lo
        OBVIOUS
      <4>1. PICK i \in 1 .. Len(q) : IsChunk(q[i], r) /\ q[i].index = n
        BY <1>5, <4>0
      <4>2. i # 1
        BY <2>2, <4>0, <4>1
      <4>3. i - 1 \in 1 .. Len(q) - 1 /\ (i - 1) + 1 = i
        BY <1>1, <4>2
      <4>4. Tail(q)[i - 1] = q[i]
        BY <1>1, <4>3
      <4> QED  BY <4>1, <4>3, <4>4
    <3> QED  BY <3>1
  <2>5. Carries(Tail(q), r, lo + 1, hi)
    BY <1>1, <1>6, <2>3, <2>4 DEF Carries
  <2>6. lo < hi
    BY <2>1
  <2> QED  BY <1>1, <1>7, <2>2, <2>5, <2>6
<1>8. CASE ~IsChunk(q[1], r)
  <2>1. \A i \in 1 .. Len(q) - 1 : IsChunk(Tail(q)[i], r) => Tail(q)[i].index \in lo .. hi - 1
    <3>1. ASSUME NEW i \in 1 .. Len(q) - 1, IsChunk(q[i + 1], r)
          PROVE  q[i + 1].index \in lo .. hi - 1
      <4>1. i + 1 \in 1 .. Len(q)
        BY <1>1
      <4> QED  BY <1>3, <3>1, <4>1
    <3> QED  BY <1>1, <3>1
  <2>2. \A n \in lo .. hi - 1 :
           \E i \in 1 .. Len(q) - 1 : IsChunk(Tail(q)[i], r) /\ Tail(q)[i].index = n
    <3>1. ASSUME NEW n \in lo .. hi - 1
          PROVE  \E i \in 1 .. Len(q) - 1 : IsChunk(Tail(q)[i], r) /\ Tail(q)[i].index = n
      <4>1. PICK i \in 1 .. Len(q) : IsChunk(q[i], r) /\ q[i].index = n
        BY <1>5
      <4>2. i # 1
        BY <1>8, <4>1
      <4>3. i - 1 \in 1 .. Len(q) - 1 /\ (i - 1) + 1 = i
        BY <1>1, <4>2
      <4>4. Tail(q)[i - 1] = q[i]
        BY <1>1, <4>3
      <4> QED  BY <4>1, <4>3, <4>4
    <3> QED  BY <3>1
  <2> QED  BY <1>1, <1>6, <1>8, <2>1, <2>2 DEF Carries
<1> QED  BY <1>7, <1>8

(* A message at the end of a queue is the next chunk, or none of r. *)
LEMMA CarriesAppend ==
  ASSUME NEW q \in Seq(AnyMessage), NEW r, NEW lo \in Nat, NEW hi \in Nat, lo <= hi,
         Carries(q, r, lo, hi), NEW m \in AnyMessage
  PROVE  /\ IsChunk(m, r) /\ m.index = hi => Carries(Append(q, m), r, lo, hi + 1)
         /\ ~IsChunk(m, r) => Carries(Append(q, m), r, lo, hi)
<1> DEFINE p == Append(q, m)
<1>1. /\ Len(q) \in Nat /\ DOMAIN q = 1 .. Len(q) /\ DOMAIN p = 1 .. Len(q) + 1
      /\ p[Len(q) + 1] = m /\ \A i \in 1 .. Len(q) : p[i] = q[i]
  OBVIOUS
<1> HIDE DEF p
<1>2. \A i \in 1 .. Len(q) : IsChunk(q[i], r) => q[i].index \in lo .. hi - 1
  BY <1>1 DEF Carries
<1>3. \A i, j \in 1 .. Len(q) :
         i < j /\ IsChunk(q[i], r) /\ IsChunk(q[j], r) => q[i].index < q[j].index
  BY <1>1 DEF Carries
<1>4. \A n \in lo .. hi - 1 : \E i \in 1 .. Len(q) : IsChunk(q[i], r) /\ q[i].index = n
  BY <1>1 DEF Carries
<1>5. ASSUME IsChunk(m, r), m.index = hi PROVE Carries(p, r, lo, hi + 1)
  <2>1. \A i \in 1 .. Len(q) + 1 : IsChunk(p[i], r) => p[i].index \in lo .. (hi + 1) - 1
    BY <1>1, <1>2, <1>5
  <2>2. \A i, j \in 1 .. Len(q) + 1 :
           i < j /\ IsChunk(p[i], r) /\ IsChunk(p[j], r) => p[i].index < p[j].index
    <3>1. ASSUME NEW i \in 1 .. Len(q) + 1, NEW j \in 1 .. Len(q) + 1, i < j,
                 IsChunk(p[i], r), IsChunk(p[j], r)
          PROVE  p[i].index < p[j].index
      <4>1. i \in 1 .. Len(q) /\ p[i] = q[i]
        BY <1>1, <3>1
      <4>2. CASE j = Len(q) + 1
        BY <1>1, <1>2, <1>5, <3>1, <4>1, <4>2
      <4>3. CASE j # Len(q) + 1
        <5>1. j \in 1 .. Len(q) /\ p[j] = q[j]
          BY <1>1, <4>3
        <5> QED  BY <1>3, <3>1, <4>1, <5>1
      <4> QED  BY <4>2, <4>3
    <3> QED  BY <3>1
  <2>3. \A n \in lo .. (hi + 1) - 1 :
           \E i \in 1 .. Len(q) + 1 : IsChunk(p[i], r) /\ p[i].index = n
    <3>1. ASSUME NEW n \in lo .. (hi + 1) - 1
          PROVE  \E i \in 1 .. Len(q) + 1 : IsChunk(p[i], r) /\ p[i].index = n
      <4>1. CASE n = hi
        BY <1>1, <1>5, <4>1
      <4>2. CASE n # hi
        <5>1. PICK i \in 1 .. Len(q) : IsChunk(q[i], r) /\ q[i].index = n
          BY <1>4, <4>2
        <5> QED  BY <1>1, <5>1
      <4> QED  BY <4>1, <4>2
    <3> QED  BY <3>1
  <2> QED  BY <1>1, <2>1, <2>2, <2>3 DEF Carries
<1>6. ASSUME ~IsChunk(m, r) PROVE Carries(p, r, lo, hi)
  <2>1. \A i \in 1 .. Len(q) + 1 : IsChunk(p[i], r) => i \in 1 .. Len(q) /\ p[i] = q[i]
    BY <1>1, <1>6
  <2>2. \A n \in lo .. hi - 1 : \E i \in 1 .. Len(q) + 1 : IsChunk(p[i], r) /\ p[i].index = n
    <3>1. ASSUME NEW n \in lo .. hi - 1
          PROVE  \E i \in 1 .. Len(q) + 1 : IsChunk(p[i], r) /\ p[i].index = n
      <4>1. PICK i \in 1 .. Len(q) : IsChunk(q[i], r) /\ q[i].index = n
        BY <1>4
      <4> QED  BY <1>1, <4>1
    <3> QED  BY <3>1
  <2> QED  BY <1>1, <1>2, <1>3, <2>1, <2>2 DEF Carries
<1> QED  BY <1>5, <1>6 DEF p

(* A queue without chunks of r carries none. *)
LEMMA CarriesNone ==
  ASSUME NEW q, NEW r, \A i \in DOMAIN q : ~IsChunk(q[i], r), NEW n \in Nat
  PROVE  Carries(q, r, n, n)
BY DEF Carries

------------------------------------------------------------------------------
(* The types of the queues, and where the chunks of r are not.             *)
LEMMA QueueFacts ==
  ASSUME IInv
  PROVE  /\ sendCh \in Seq(AnyMessage)
         /\ wire \in [Dials -> Seq(AnyMessage)]
         /\ \A r \in Requests : chan[r] \in Seq(AnyMessage)
         /\ chan \in [Requests -> Seq(Messages)]
         /\ conn \in 0 .. MaxDials
         /\ sent \in [Requests -> 0 .. Chunks]
         /\ got \in [Requests -> Seq(0 .. Chunks)]
         /\ captured \in [Requests -> 0 .. MaxDials]
         /\ \A r \in Requests : captured[r] # 0 => captured[r] \in Dials
<1>1. Messages \subseteq AnyMessage
  BY DEF AnyMessage
<1>2. \A r \in Requests : chan[r] \in Seq(AnyMessage)
  BY <1>1, SeqGrows DEF IInv, TypeOK
<1> QED  BY <1>2 DEF IInv, TypeOK, LinkTypeOK, AnyMessage, Dials

(* A request without an outcome has no message anywhere. *)
LEMMA NoMessages ==
  ASSUME IInv, NEW r \in Requests, outcome[r] = "none"
  PROVE  /\ \A i \in DOMAIN sendCh : sendCh[i] # Register => sendCh[i].req # r
         /\ \A e \in Dials : \A i \in DOMAIN wire[e] : wire[e][i] # Register => wire[e][i].req # r
         /\ chan[r] = <<>>
<1>1. \A m \in TrueMessages : m.req # r
  BY DEF TrueMessages, Tells
<1>2. /\ sendCh \in Seq(TrueMessages \cup {Register})
      /\ wire \in [Dials -> Seq(TrueMessages \cup {Register})]
      /\ chan[r] \in Seq({m \in TrueMessages : m.req = r})
  BY DEF IInv, PipelineTrue
<1>3. {m \in TrueMessages : m.req = r} = {}
  BY <1>1
<1>4. \A i \in DOMAIN sendCh : sendCh[i] \in TrueMessages \cup {Register}
  BY <1>2
<1>5. ASSUME NEW e \in Dials, NEW i \in DOMAIN wire[e]
      PROVE  wire[e][i] \in TrueMessages \cup {Register}
  <2>1. wire[e] \in Seq(TrueMessages \cup {Register})
    BY <1>2
  <2> QED  BY <2>1
<1>6. chan[r] = <<>>
  BY <1>2, <1>3
<1> QED  BY <1>1, <1>4, <1>5, <1>6

(* A stream goes on when no queue changes what it carries of it. *)
LEMMA GaplessKept ==
  ASSUME NEW r, Gapless(r), sent'[r] = sent[r], got'[r] = got[r],
         \A lo, hi \in Nat : lo <= hi /\ Carries(chan[r], r, lo, hi) => Carries(chan'[r], r, lo, hi),
         \A lo, hi \in Nat : lo <= hi /\ Carries(wire[captured[r]], r, lo, hi)
                                => Carries(wire'[captured'[r]], r, lo, hi),
         \A lo, hi \in Nat : lo <= hi /\ Carries(sendCh, r, lo, hi) => Carries(sendCh', r, lo, hi),
         sent[r] \in Nat, Len(got[r]) \in Nat
  PROVE  Gapless(r)'
<1>1. PICK b \in 0 .. sent[r], d \in 0 .. sent[r] :
        /\ Len(got[r]) <= b /\ b <= d
        /\ Carries(chan[r], r, Len(got[r]), b)
        /\ Carries(wire[captured[r]], r, b, d)
        /\ Carries(sendCh, r, d, sent[r])
  BY DEF Gapless
<1>2. /\ Carries(chan'[r], r, Len(got[r]), b)
      /\ Carries(wire'[captured'[r]], r, b, d)
      /\ Carries(sendCh', r, d, sent[r])
  BY <1>1
<1> QED  BY <1>1, <1>2 DEF Gapless

(* The connection that carried the request of a stream that is intact is   *)
(* the agent's last one.                                                   *)
LEMMA IntactIsLast ==
  ASSUME IInv, DInv, NEW r \in Requests, Intact(r)
  PROVE  captured[r] \in Dials /\ captured[r] = conn
BY QueueFacts DEF DInv, ConnectionsOrdered, Intact

(* Steps of the link that leave the queues alone, or concern connections   *)
(* of which no stream is intact.                                           *)
LEMMA LinkDInv ==
  ASSUME IInv, DInv, LinkStep, UNCHANGED <<serverVars, agentVars, dropped>>
  PROVE  DInv'
<1> USE DEF serverVars, agentVars
<1>1. PendingUntilAnswered'
  BY DEF DInv, PendingUntilAnswered
<1>2. /\ \A e \in Dials : link[e] = "up" => e = conn /\ agent # "away"
      /\ \A e \in Dials : phase[e] # "none" \/ wire[e] # <<>> => e <= conn
      /\ \A r \in Requests : captured[r] <= conn
      /\ \A e \in Dials : \A i \in DOMAIN wire[e] :
            wire[e][i] # Register => captured[wire[e][i].req] <= e
  BY DEF DInv, ConnectionsOrdered
<1>3. /\ link \in [Dials -> {"none", "up", "down"}] /\ conn \in 0 .. MaxDials
      /\ phase \in [Dials -> {"none", "handshake", "refused", "serving", "ended"}]
      /\ wire \in [Dials -> Seq(AnyMessage)] /\ sendCh \in Seq(AnyMessage)
  BY QueueFacts DEF IInv, TypeOK, LinkTypeOK
<1>4. ASSUME ConnectionsOrdered',
             \A e \in Dials : e <= conn /\ link'[e] = "up" => link[e] = "up",
             \A r \in Downloads : Intact(r) /\ Intact(r)' /\ http[r] = "waiting" /\ Gapless(r)
                                     => Gapless(r)'
      PROVE  DInv'
  <2>1. ASSUME NEW r \in Requests, Intact(r)' PROVE Intact(r)
    <3>1. captured[r] \in Dials /\ captured[r] <= conn
      BY <1>2, <2>1, QueueFacts DEF Intact
    <3> QED  BY <1>4, <2>1, <3>1 DEF Intact
  <2>2. StreamsGapless'
    BY <1>4, <2>1 DEF DInv, StreamsGapless, Requests
  <2>3. DownloadIntact'
    BY <2>1 DEF DInv, DownloadIntact, Intact, Requests
  <2> QED  BY <1>1, <1>4, <2>2, <2>3 DEF DInv
<1>5. ASSUME NEW r \in Downloads, Gapless(r), wire'[captured[r]] = wire[captured[r]],
             \A lo, hi \in Nat :
                lo <= hi /\ Carries(sendCh, r, lo, hi) => Carries(sendCh', r, lo, hi)
      PROVE  Gapless(r)'
  <2>1. sent[r] \in Nat /\ Len(got[r]) \in Nat
    BY QueueFacts, ChunksAssumption DEF Requests
  <2> QED  BY <1>5, <2>1, GaplessKept
<1>6. CASE Dial
  <2>1. /\ agent = "away" /\ conn < MaxDials /\ conn' = conn + 1 /\ agent' = "registering"
        /\ link' = [link EXCEPT ![conn + 1] = "up"]
        /\ phase' = [phase EXCEPT ![conn + 1] = "handshake"]
        /\ UNCHANGED <<sendCh, wire>>
    BY <1>6 DEF Dial
  <2>2. ConnectionsOrdered'
    <3>1. \A e \in Dials : link'[e] = "up" => e = conn' /\ agent' # "away"
      BY <1>2, <1>3, <2>1
    <3>2. \A e \in Dials : phase'[e] # "none" \/ wire'[e] # <<>> => e <= conn'
      BY <1>2, <1>3, <2>1 DEF Dials
    <3>3. \A r \in Requests : captured'[r] <= conn'
      BY <1>2, <1>3, <2>1, QueueFacts
    <3> QED  BY <1>2, <2>1, <3>1, <3>2, <3>3 DEF ConnectionsOrdered
  <2>3. \A e \in Dials : e <= conn /\ link'[e] = "up" => link[e] = "up"
    BY <1>3, <2>1 DEF Dials
  <2>4. \A r \in Downloads : Gapless(r) => Gapless(r)'
    BY <1>5, <2>1
  <2> QED  BY <1>4, <2>2, <2>3, <2>4
<1>7. CASE SendRegister
  <2>1. /\ agent' = "looping" /\ Enqueue(Register) /\ UNCHANGED <<conn, writer, link, wire, phase>>
    BY <1>7 DEF SendRegister
  <2>2. ConnectionsOrdered'
    BY <1>2, <2>1 DEF ConnectionsOrdered
  <2>3. ASSUME NEW r \in Downloads PROVE Gapless(r) => Gapless(r)'
    <3>1. \A lo, hi \in Nat :
             lo <= hi /\ Carries(sendCh, r, lo, hi) => Carries(sendCh', r, lo, hi)
      <4>1. Register \in AnyMessage /\ ~IsChunk(Register, r)
        BY DEF AnyMessage, IsChunk
      <4> QED  BY <1>3, <2>1, <4>1, CarriesAppend DEF Enqueue
    <3> QED  BY <1>5, <2>1, <3>1
  <2> QED  BY <1>4, <2>1, <2>2, <2>3
<1>8. CASE WriterSends
  <2> DEFINE m == Head(sendCh)
  <2>1. /\ sendCh # <<>> /\ link[conn] = "up"
        /\ wire' = [wire EXCEPT ![conn] = Append(@, m)] /\ sendCh' = Tail(sendCh)
        /\ UNCHANGED <<agent, conn, writer, link, phase>>
    BY <1>8 DEF WriterSends
  <2>2. m \in AnyMessage
    BY <1>3, <2>1, SeqFacts
  <2>3. m # Register => m.req \in Requests
    BY <2>2 DEF AnyMessage, Messages
  <2> HIDE DEF m
  <2>4. CASE conn \notin Dials
    <3>1. wire' = wire
      BY <1>3, <2>1, <2>4
    <3>2. ConnectionsOrdered'
      BY <1>2, <2>1, <3>1 DEF ConnectionsOrdered
    <3>3. \A r \in Downloads : ~Intact(r)
      BY <2>4, IntactIsLast DEF Requests
    <3> QED  BY <1>4, <2>1, <3>2, <3>3
  <2>5. CASE conn \in Dials
    <3>1. /\ wire[conn] \in Seq(AnyMessage) /\ wire'[conn] = Append(wire[conn], m)
          /\ \A e \in Dials : e # conn => wire'[e] = wire[e]
      BY <1>3, <2>1, <2>5
    <3>2. ConnectionsOrdered'
      <4>1. ASSUME NEW e \in Dials, NEW i \in DOMAIN wire'[e], wire'[e][i] # Register
            PROVE  captured[wire'[e][i].req] <= e
        <5>1. CASE e # conn
          BY <1>2, <3>1, <4>1, <5>1
        <5>2. CASE e = conn
          <6>1. /\ DOMAIN wire[conn] = 1 .. Len(wire[conn]) /\ Len(wire[conn]) \in Nat
                /\ DOMAIN wire'[conn] = 1 .. Len(wire[conn]) + 1
                /\ wire'[conn][Len(wire[conn]) + 1] = m
                /\ \A j \in 1 .. Len(wire[conn]) : wire'[conn][j] = wire[conn][j]
            BY <3>1
          <6>2. CASE i = Len(wire[conn]) + 1
            BY <1>2, <2>3, <4>1, <5>2, <6>1, <6>2
          <6>3. CASE i # Len(wire[conn]) + 1
            <7>1. i \in DOMAIN wire[conn] /\ wire'[conn][i] = wire[conn][i]
              BY <4>1, <5>2, <6>1, <6>3
            <7> QED  BY <1>2, <2>5, <4>1, <5>2, <7>1
          <6> QED  BY <6>2, <6>3
        <5> QED  BY <5>1, <5>2
      <4>2. \A e \in Dials : phase'[e] # "none" \/ wire'[e] # <<>> => e <= conn'
        BY <1>2, <1>3, <2>1, <3>1
      <4> QED  BY <1>2, <2>1, <4>1, <4>2 DEF ConnectionsOrdered
    <3>3. ASSUME NEW r \in Downloads, Intact(r), Gapless(r) PROVE Gapless(r)'
      <4>1. captured[r] = conn /\ captured'[r] = conn
        BY <3>3, IntactIsLast DEF Requests
      <4>2. PICK b \in 0 .. sent[r], d \in 0 .. sent[r] :
              /\ Len(got[r]) <= b /\ b <= d
              /\ Carries(chan[r], r, Len(got[r]), b)
              /\ Carries(wire[conn], r, b, d)
              /\ Carries(sendCh, r, d, sent[r])
        BY <3>3, <4>1 DEF Gapless
      <4>3. sent[r] \in Nat /\ b \in Nat /\ d \in Nat /\ d <= sent[r]
        BY QueueFacts, ChunksAssumption DEF Requests
      <4>4. /\ IsChunk(m, r) => m.index = d /\ d < sent[r] /\ Carries(sendCh', r, d + 1, sent[r])
            /\ ~IsChunk(m, r) => Carries(sendCh', r, d, sent[r])
        BY <1>3, <2>1, <4>2, <4>3, CarriesTail DEF m
      <4>5. /\ IsChunk(m, r) => Carries(wire'[conn], r, b, d + 1)
            /\ ~IsChunk(m, r) => Carries(wire'[conn], r, b, d)
        BY <2>2, <3>1, <4>2, <4>3, <4>4, CarriesAppend
      <4>6. UNCHANGED <<got, chan, sent>>
        OBVIOUS
      <4>7. CASE IsChunk(m, r)
        <5>1. d + 1 \in 0 .. sent[r] /\ b <= d + 1
          BY <4>2, <4>3, <4>4, <4>7
        <5> QED  BY <4>1, <4>2, <4>4, <4>5, <4>6, <4>7, <5>1 DEF Gapless
      <4>8. CASE ~IsChunk(m, r)
        BY <4>1, <4>2, <4>4, <4>5, <4>6, <4>8 DEF Gapless
      <4> QED  BY <4>7, <4>8
    <3> QED  BY <1>4, <2>1, <3>2, <3>3
  <2> QED  BY <2>4, <2>5
<1>9. CASE WriterLoses
  <2>1. /\ link[conn] = "down" /\ UNCHANGED <<agent, conn, link, wire, phase>>
    BY <1>9 DEF WriterLoses
  <2>2. ConnectionsOrdered'
    BY <1>2, <2>1 DEF ConnectionsOrdered
  <2>3. \A r \in Downloads : ~Intact(r)
    BY <2>1, IntactIsLast DEF Intact, Requests
  <2> QED  BY <1>4, <2>1, <2>2, <2>3
<1>10. CASE ConnectReturns \/ WriterStops
  <2>1. UNCHANGED <<sendCh, conn, link, wire, phase>>
    BY <1>10 DEF ConnectReturns, WriterStops
  <2>2. ConnectionsOrdered'
    BY <1>2, <1>10, <2>1 DEF ConnectionsOrdered, ConnectReturns, WriterStops
  <2> QED  BY <1>4, <1>5, <2>1, <2>2
<1>11. ASSUME NEW e \in Dials, LinkBreaks(e) PROVE DInv'
  <2>1. PICK n \in 0 .. Len(wire[e]) :
          /\ link' = [link EXCEPT ![e] = "down"]
          /\ wire' = [wire EXCEPT ![e] = SubSeq(@, 1, n)]
          /\ UNCHANGED <<sendCh, agent, conn, writer, phase>>
    BY <1>11 DEF LinkBreaks
  <2>2. /\ wire[e] \in Seq(AnyMessage) /\ wire'[e] = SubSeq(wire[e], 1, n)
        /\ \A f \in Dials : f # e => wire'[f] = wire[f]
    BY <1>3, <2>1
  <2>3. /\ DOMAIN wire'[e] = 1 .. n /\ n \in 0 .. Len(wire[e]) /\ Len(wire[e]) \in Nat
        /\ \A i \in 1 .. n : wire'[e][i] = wire[e][i]
        /\ DOMAIN wire[e] = 1 .. Len(wire[e])
        /\ wire[e] = <<>> => wire'[e] = <<>>
    BY <2>2
  <2>4. ConnectionsOrdered'
    <3>1. \A f \in Dials : \A i \in DOMAIN wire'[f] :
             wire'[f][i] # Register => captured[wire'[f][i].req] <= f
      BY <1>2, <2>2, <2>3
    <3>2. \A f \in Dials : phase'[f] # "none" \/ wire'[f] # <<>> => f <= conn'
      BY <1>2, <2>1, <2>2, <2>3
    <3>3. \A f \in Dials : link'[f] = "up" => f = conn' /\ agent' # "away"
      BY <1>2, <1>3, <2>1
    <3> QED  BY <1>2, <2>1, <3>1, <3>2, <3>3 DEF ConnectionsOrdered
  <2>5. ASSUME NEW r \in Downloads, Intact(r)', Intact(r), Gapless(r) PROVE Gapless(r)'
    <3>1. captured[r] # e /\ captured[r] \in Dials
      BY <1>3, <2>1, <2>5, IntactIsLast DEF Intact, Requests
    <3> QED  BY <1>5, <2>1, <2>2, <2>5, <3>1
  <2> QED  BY <1>3, <1>4, <2>1, <2>4, <2>5
<1>12. ASSUME NEW e \in Dials, Accept(e) PROVE DInv'
  <2>1. /\ phase[e] = "handshake" /\ wire[e] # <<>> /\ Head(wire[e]) = Register
        /\ wire' = [wire EXCEPT ![e] = Tail(@)] /\ phase' = [phase EXCEPT ![e] = "serving"]
        /\ UNCHANGED <<sendCh, agent, conn, writer, link>>
    BY <1>12 DEF Accept
  <2>2. /\ wire[e] \in Seq(AnyMessage) /\ wire'[e] = Tail(wire[e])
        /\ \A f \in Dials : f # e => wire'[f] = wire[f]
    BY <1>3, <2>1
  <2>3. /\ DOMAIN wire[e] = 1 .. Len(wire[e]) /\ Len(wire[e]) \in Nat
        /\ DOMAIN wire'[e] = 1 .. Len(wire[e]) - 1
        /\ \A i \in 1 .. Len(wire[e]) - 1 : wire'[e][i] = wire[e][i + 1]
    BY <2>1, <2>2, TailFacts
  <2>4. ConnectionsOrdered'
    <3>1. ASSUME NEW f \in Dials, NEW i \in DOMAIN wire'[f], wire'[f][i] # Register
          PROVE  captured[wire'[f][i].req] <= f
      <4>1. CASE f # e
        BY <1>2, <2>2, <3>1, <4>1
      <4>2. CASE f = e
        <5>1. i + 1 \in DOMAIN wire[e] /\ wire'[e][i] = wire[e][i + 1]
          BY <2>3, <3>1, <4>2
        <5> QED  BY <1>2, <3>1, <4>2, <5>1
      <4> QED  BY <4>1, <4>2
    <3>2. \A f \in Dials : phase'[f] # "none" \/ wire'[f] # <<>> => f <= conn'
      BY <1>2, <1>3, <2>1, <2>2
    <3> QED  BY <1>2, <2>1, <3>1, <3>2 DEF ConnectionsOrdered
  <2>5. ASSUME NEW r \in Downloads, Intact(r), Gapless(r) PROVE Gapless(r)'
    <3>0. captured[r] \in Dials
      BY <2>5, IntactIsLast DEF Requests
    <3>1. CASE captured[r] # e
      BY <1>5, <2>1, <2>2, <2>5, <3>0, <3>1
    <3>2. CASE captured[r] = e
      <4>1. ~IsChunk(Head(wire[e]), r)
        BY <2>1 DEF IsChunk
      <4>2. \A lo, hi \in Nat :
               lo <= hi /\ Carries(wire[e], r, lo, hi) => Carries(wire'[e], r, lo, hi)
        BY <2>1, <2>2, <4>1, CarriesTail
      <4>3. sent[r] \in Nat /\ Len(got[r]) \in Nat
        BY QueueFacts, ChunksAssumption DEF Requests
      <4> QED  BY <2>1, <2>5, <3>2, <4>2, <4>3, GaplessKept
    <3> QED  BY <3>1, <3>2
  <2> QED  BY <1>4, <2>1, <2>4, <2>5
<1>13. ASSUME NEW e \in Dials, Refuse(e) PROVE DInv'
  <2>1. /\ phase[e] = "handshake" /\ phase' = [phase EXCEPT ![e] = "refused"]
        /\ link' = [link EXCEPT ![e] = "down"] /\ wire' = [wire EXCEPT ![e] = <<>>]
        /\ UNCHANGED <<sendCh, agent, conn, writer>>
    BY <1>13 DEF Refuse
  <2>2. \A f \in Dials : wire'[f] = IF f = e THEN <<>> ELSE wire[f]
    BY <1>3, <2>1
  <2>3. ConnectionsOrdered'
    <3>1. \A f \in Dials : \A i \in DOMAIN wire'[f] :
             wire'[f][i] # Register => captured[wire'[f][i].req] <= f
      BY <1>2, <2>2
    <3>2. \A f \in Dials : phase'[f] # "none" \/ wire'[f] # <<>> => f <= conn'
      BY <1>2, <1>3, <2>1, <2>2
    <3>3. \A f \in Dials : link'[f] = "up" => f = conn' /\ agent' # "away"
      BY <1>2, <1>3, <2>1
    <3> QED  BY <1>2, <2>1, <3>1, <3>2, <3>3 DEF ConnectionsOrdered
  <2>4. ASSUME NEW r \in Downloads, Intact(r)', Intact(r), Gapless(r) PROVE Gapless(r)'
    <3>1. captured[r] # e /\ captured[r] \in Dials
      BY <1>3, <2>1, <2>4, IntactIsLast DEF Intact, Requests
    <3> QED  BY <1>5, <2>1, <2>2, <2>4, <3>1
  <2> QED  BY <1>3, <1>4, <2>1, <2>3, <2>4
<1>14. ASSUME NEW e \in Dials, ServerReadFails(e) PROVE DInv'
  <2>1. /\ phase[e] = "serving" /\ phase' = [phase EXCEPT ![e] = "ended"]
        /\ UNCHANGED <<sendCh, agent, conn, writer, link, wire>>
    BY <1>14 DEF ServerReadFails
  <2>2. ConnectionsOrdered'
    BY <1>2, <1>3, <2>1 DEF ConnectionsOrdered
  <2> QED  BY <1>4, <1>5, <2>1, <2>2
<1> QED  BY <1>6, <1>7, <1>8, <1>9, <1>10, <1>11, <1>12, <1>13, <1>14 DEF LinkStep, Relink

------------------------------------------------------------------------------
(* ResolveRequest moves a chunk from the connection to the channel of its  *)
(* request, or drops it and says so.                                       *)
LEMMA ResolveDInv ==
  ASSUME IInv, DInv, NEW e \in Dials, Resolve(e)
  PROVE  DInv'
<1> DEFINE m == Head(wire[e])
<1>1. /\ wire[e] # <<>> /\ wire' = [wire EXCEPT ![e] = Tail(@)]
      /\ UNCHANGED <<sendCh, agent, conn, writer, link, phase>>
      /\ UNCHANGED <<http, captured, reply, got, pending, job, outcome, sent>>
      /\ IF m = Register \/ m.req \notin pending
         THEN UNCHANGED <<chan, dropped>>
         ELSE IF Len(chan[m.req]) < ChanCap
              THEN chan' = [chan EXCEPT ![m.req] = Append(@, m)] /\ UNCHANGED dropped
              ELSE dropped' = dropped \cup {m.req} /\ UNCHANGED chan
  BY DEF Resolve, ServerReads, agentVars
<1>2. /\ wire \in [Dials -> Seq(AnyMessage)] /\ chan \in [Requests -> Seq(Messages)]
      /\ \A r \in Requests : chan[r] \in Seq(AnyMessage)
  BY QueueFacts
<1>3. /\ wire[e] \in Seq(AnyMessage) /\ wire'[e] = Tail(wire[e])
      /\ \A f \in Dials : f # e => wire'[f] = wire[f]
  BY <1>1, <1>2
<1>4. m \in AnyMessage /\ (m # Register => m.req \in Requests)
  BY <1>1, <1>3, SeqFacts DEF AnyMessage, Messages
<1>5. /\ DOMAIN wire[e] = 1 .. Len(wire[e]) /\ Len(wire[e]) \in Nat /\ Len(wire[e]) >= 1
      /\ DOMAIN wire'[e] = 1 .. Len(wire[e]) - 1 /\ m = wire[e][1]
      /\ \A i \in 1 .. Len(wire[e]) - 1 : wire'[e][i] = wire[e][i + 1]
  BY <1>1, <1>3, TailFacts
<1> HIDE DEF m
<1>6. /\ \A f \in Dials : phase[f] # "none" \/ wire[f] # <<>> => f <= conn
      /\ \A f \in Dials : \A i \in DOMAIN wire[f] :
            wire[f][i] # Register => captured[wire[f][i].req] <= f
  BY DEF DInv, ConnectionsOrdered
<1>7. ConnectionsOrdered'
  <2>1. ASSUME NEW f \in Dials, NEW i \in DOMAIN wire'[f], wire'[f][i] # Register
        PROVE  captured[wire'[f][i].req] <= f
    <3>1. CASE f # e
      BY <1>3, <1>6, <2>1, <3>1
    <3>2. CASE f = e
      <4>1. i + 1 \in DOMAIN wire[e] /\ wire'[e][i] = wire[e][i + 1]
        BY <1>5, <2>1, <3>2
      <4> QED  BY <1>6, <2>1, <3>2, <4>1
    <3> QED  BY <3>1, <3>2
  <2>2. \A f \in Dials : phase'[f] # "none" \/ wire'[f] # <<>> => f <= conn'
    BY <1>1, <1>3, <1>6
  <2> QED  BY <1>1, <2>1, <2>2 DEF DInv, ConnectionsOrdered
<1>8. PendingUntilAnswered'
  BY <1>1 DEF DInv, PendingUntilAnswered
<1>9. dropped \subseteq dropped'
  BY <1>1
<1>10. DownloadIntact'
  BY <1>1, <1>9 DEF DInv, DownloadIntact
<1>11. ASSUME NEW r \in Downloads, Intact(r)', http[r] = "waiting" PROVE Gapless(r)'
  <2>1. Intact(r) /\ r \in Requests
    BY <1>1, <1>9, <1>11 DEF Intact, Requests
  <2>2. Gapless(r) /\ captured[r] = conn /\ captured[r] \in Dials /\ r \in pending
    BY <1>11, <2>1, IntactIsLast DEF DInv, StreamsGapless, PendingUntilAnswered
  <2>3. sent[r] \in Nat /\ Len(got[r]) \in Nat
    BY <2>1, QueueFacts, ChunksAssumption
  <2>4. CASE ~IsChunk(m, r)
    <3>1. \A lo, hi \in Nat :
             lo <= hi /\ Carries(chan[r], r, lo, hi) => Carries(chan'[r], r, lo, hi)
      <4>1. chan'[r] = chan[r] \/ chan'[r] = Append(chan[r], m)
        BY <1>1, <1>2, <1>4, <2>1
      <4> QED  BY <1>2, <1>4, <2>1, <2>4, <4>1, CarriesAppend
    <3>2. \A lo, hi \in Nat :
             lo <= hi /\ Carries(wire[captured[r]], r, lo, hi)
                => Carries(wire'[captured'[r]], r, lo, hi)
      BY <1>1, <1>3, <2>2, <2>4, CarriesTail DEF m
    <3> QED  BY <1>1, <2>2, <2>3, <3>1, <3>2, GaplessKept
  <2>5. CASE IsChunk(m, r)
    <3>1. m # Register /\ m.req = r
      BY <2>5 DEF IsChunk
    <3>2. e = captured[r]
      <4>1. captured[r] <= e
        BY <1>5, <1>6, <3>1
      <4>2. e <= conn
        BY <1>1, <1>6
      <4> QED  BY <2>2, <4>1, <4>2 DEF Dials
    <3>3. r \notin dropped'
      BY <1>11 DEF Intact
    <3>4. chan'[r] = Append(chan[r], m)
      BY <1>1, <1>2, <2>1, <2>2, <3>1, <3>3
    <3>5. PICK b \in 0 .. sent[r], d \in 0 .. sent[r] :
            /\ Len(got[r]) <= b /\ b <= d
            /\ Carries(chan[r], r, Len(got[r]), b)
            /\ Carries(wire[e], r, b, d)
            /\ Carries(sendCh, r, d, sent[r])
      BY <2>2, <3>2 DEF Gapless
    <3>6. b \in Nat /\ d \in Nat
      BY <2>3
    <3>7. m.index = b /\ b < d /\ Carries(wire'[e], r, b + 1, d)
      BY <1>1, <1>3, <2>5, <3>5, <3>6, CarriesTail DEF m
    <3>8. Carries(chan'[r], r, Len(got[r]), b + 1)
      BY <1>2, <1>4, <2>1, <2>3, <2>5, <3>4, <3>5, <3>6, <3>7, CarriesAppend
    <3>9. b + 1 \in 0 .. sent[r] /\ Len(got[r]) <= b + 1 /\ b + 1 <= d
      BY <2>3, <3>5, <3>6, <3>7
    <3> QED  BY <1>1, <3>2, <3>5, <3>7, <3>8, <3>9 DEF Gapless
  <2> QED  BY <2>4, <2>5
<1>12. StreamsGapless'
  BY <1>1, <1>11 DEF StreamsGapless
<1> QED  BY <1>7, <1>8, <1>10, <1>12 DEF DInv

(* The steps of the HTTP handlers, but for those that touch a stream. *)
LEMMA AnswerDInv ==
  ASSUME IInv, DInv, NEW r \in Requests, NEW a \in Answers,
         http' = [http EXCEPT ![r] = "answered"], pending' = pending \ {r},
         reply' = [reply EXCEPT ![r] = a], chan' = [chan EXCEPT ![r] = <<>>],
         UNCHANGED <<linkVars, captured, agentVars, dropped>>,
         \A q \in Requests : q # r => got'[q] = got[q],
         r \in Downloads /\ Intact(r) =>
            /\ \A i \in 1 .. Len(got'[r]) : got'[r][i] = i - 1
            /\ a = "ok" => Len(got'[r]) = Chunks
  PROVE  DInv'
<1>1. UNCHANGED <<sendCh, agent, conn, link, wire, phase, captured, sent, outcome, dropped>>
  BY DEF linkVars, agentVars
<1>2. http \in [Requests -> {"idle", "sending", "waiting", "answered"}]
      /\ reply \in [Requests -> {"none"} \cup Answers] /\ chan \in [Requests -> Seq(Messages)]
  BY DEF IInv, TypeOK
<1>3. ConnectionsOrdered'
  BY <1>1 DEF DInv, ConnectionsOrdered
<1>4. PendingUntilAnswered'
  BY <1>2 DEF DInv, PendingUntilAnswered
<1>5. DownloadIntact'
  <2>1. ASSUME NEW q \in Downloads, Intact(q)
        PROVE  /\ \A i \in 1 .. Len(got'[q]) : got'[q][i] = i - 1
               /\ reply'[q] = "ok" => Len(got'[q]) = Chunks
    BY <1>2, <2>1 DEF DInv, DownloadIntact, Intact, Requests
  <2> QED  BY <1>1, <2>1 DEF DownloadIntact, Intact
<1>6. StreamsGapless'
  <2>1. ASSUME NEW q \in Downloads, Intact(q)', http'[q] = "waiting" PROVE Gapless(q)'
    <3>1. q # r /\ q \in Requests /\ Intact(q) /\ http[q] = "waiting"
      BY <1>1, <1>2, <2>1 DEF Intact, Requests
    <3>2. Gapless(q) /\ got'[q] = got[q] /\ chan'[q] = chan[q]
      BY <1>2, <2>1, <3>1 DEF DInv, StreamsGapless
    <3> QED  BY <1>1, <3>2 DEF Gapless
  <2> QED  BY <2>1 DEF StreamsGapless
<1> QED  BY <1>3, <1>4, <1>5, <1>6 DEF DInv

(* Every step of a handler. *)
LEMMA ServerDInv ==
  ASSUME IInv, DInv, NEW r \in Requests, ServerStep(r)
  PROVE  DInv'
<1>0. /\ http \in [Requests -> {"idle", "sending", "waiting", "answered"}]
      /\ captured \in [Requests -> 0 .. MaxDials]
      /\ got \in [Requests -> Seq(0 .. Chunks)] /\ chan \in [Requests -> Seq(Messages)]
      /\ reply \in [Requests -> {"none"} \cup Answers]
  BY DEF IInv, TypeOK
<1>1. r \in Downloads /\ Intact(r) => \A i \in 1 .. Len(got[r]) : got[r][i] = i - 1
  BY DEF DInv, DownloadIntact, Intact
<1>2. CASE Offline(r) \/ SendFails(r) \/ Timeout(r)
  <2>1. PICK a \in Answers : Answer(r, a) /\ a # "ok"
    BY <1>2 DEF Offline, SendFails, Timeout, Answers
  <2>2. UNCHANGED <<linkVars, captured, agentVars, dropped>> /\ got' = got
    BY <1>2 DEF Offline, SendFails, Timeout
  <2> QED  BY <1>1, <2>1, <2>2, AnswerDInv DEF Answer
<1>3. CASE ReceiveReply(r)
  <2>1. PICK a \in Answers : Answer(r, a)
    BY <1>3 DEF ReceiveReply, Answers
  <2>2. r \notin Downloads /\ UNCHANGED <<linkVars, captured, agentVars, dropped>> /\ got' = got
    BY <1>3 DEF ReceiveReply
  <2> QED  BY <2>1, <2>2, AnswerDInv DEF Answer
<1>4. CASE Ask(r)
  <2>1. PICK e \in Dials : phase[e] \in {"serving", "ended"} /\ captured' = [captured EXCEPT ![r] = e]
    BY <1>4 DEF Ask
  <2>2. /\ http[r] = "idle" /\ pending' = pending \cup {r}
        /\ http' = [http EXCEPT ![r] = "sending"]
        /\ UNCHANGED <<sendCh, agent, conn, link, wire, phase, reply, got, chan, outcome, sent, dropped>>
    BY <1>4 DEF Ask, linkVars, agentVars
  <2>3. outcome[r] = "none" /\ reply[r] = "none"
    BY <2>2 DEF IInv, JobsMatch
  <2>4. e <= conn
    BY <2>1 DEF DInv, ConnectionsOrdered
  <2>5. ConnectionsOrdered'
    <3>1. ASSUME NEW f \in Dials, NEW i \in DOMAIN wire[f], wire[f][i] # Register
          PROVE  captured'[wire[f][i].req] <= f
      <4>1. wire[f][i].req # r
        BY <2>3, <3>1, NoMessages
      <4>2. wire[f] \in Seq(AnyMessage)
        BY QueueFacts
      <4>3. wire[f][i] \in AnyMessage
        BY <4>2
      <4>4. wire[f][i].req \in Requests
        BY <3>1, <4>3 DEF AnyMessage, Messages
      <4> QED  BY <1>0, <2>1, <3>1, <4>1, <4>4 DEF DInv, ConnectionsOrdered
    <3>2. \A q \in Requests : captured'[q] <= conn
      BY <1>0, <2>1, <2>4 DEF DInv, ConnectionsOrdered
    <3> QED  BY <2>2, <3>1, <3>2 DEF DInv, ConnectionsOrdered
  <2>6. PendingUntilAnswered'
    BY <1>0, <2>2 DEF DInv, PendingUntilAnswered
  <2>7. DownloadIntact'
    <3>1. r \in Downloads => got[r] = <<>>
      BY <2>3 DEF IInv, UnreadableNeverServed
    <3>2. ASSUME NEW q \in Downloads, q # r, Intact(q)' PROVE Intact(q)
      BY <1>0, <2>1, <2>2, <3>2 DEF Intact, Requests
    <3> QED  BY <2>2, <2>3, <3>1, <3>2 DEF DInv, DownloadIntact, Intact
  <2>8. StreamsGapless'
    <3>1. ASSUME NEW q \in Downloads, Intact(q)', http'[q] = "waiting" PROVE Gapless(q)'
      <4>1. q # r /\ http[q] = "waiting" /\ captured'[q] = captured[q]
        BY <1>0, <2>1, <2>2, <3>1 DEF Requests
      <4>2. Gapless(q)
        BY <2>2, <3>1, <4>1 DEF DInv, StreamsGapless, Intact
      <4> QED  BY <2>2, <4>1, <4>2 DEF Gapless
    <3> QED  BY <3>1 DEF StreamsGapless
  <2> QED  BY <2>5, <2>6, <2>7, <2>8 DEF DInv
<1>5. CASE Send(r)
  <2>1. /\ http[r] = "sending" /\ http' = [http EXCEPT ![r] = "waiting"]
        /\ UNCHANGED <<sendCh, agent, conn, link, wire, phase, captured, reply, got, pending, chan,
                       outcome, sent, dropped>>
    BY <1>5 DEF Send, linkVars
  <2>2. outcome[r] = "none" /\ sent[r] = 0
    BY <2>1 DEF IInv, JobsMatch
  <2>3. ConnectionsOrdered' /\ PendingUntilAnswered' /\ DownloadIntact'
    BY <1>0, <2>1 DEF DInv, ConnectionsOrdered, PendingUntilAnswered, DownloadIntact
  <2>4. StreamsGapless'
    <3>1. ASSUME NEW q \in Downloads, Intact(q)', http'[q] = "waiting" PROVE Gapless(q)'
      <4>1. CASE q = r
        <5>1. got[r] = <<>> /\ Len(got[r]) = 0
          BY <2>2, <3>1, <4>1 DEF IInv, UnreadableNeverServed
        <5>2. captured[r] \in Dials
          BY <2>1, <3>1, <4>1, QueueFacts DEF Intact
        <5>3. Carries(chan[r], r, 0, 0) /\ Carries(sendCh, r, 0, 0) /\ Carries(wire[captured[r]], r, 0, 0)
          BY <2>2, <5>2, NoMessages, CarriesNone DEF IsChunk
        <5>4. \E b, d \in 0 .. sent[r] : b = 0 /\ d = 0
          BY <2>2
        <5> QED  BY <2>1, <2>2, <4>1, <5>1, <5>3, <5>4 DEF Gapless
      <4>2. CASE q # r
        <5>1. http[q] = "waiting" /\ Intact(q)
          BY <1>0, <2>1, <3>1, <4>2 DEF Intact, Requests
        <5>2. Gapless(q)
          BY <5>1 DEF DInv, StreamsGapless
        <5> QED  BY <2>1, <5>2 DEF Gapless
      <4> QED  BY <4>1, <4>2
    <3> QED  BY <3>1 DEF StreamsGapless
  <2> QED  BY <2>3, <2>4 DEF DInv
<1>6. CASE ReceiveChunk(r)
  <2> DEFINE m == Head(chan[r])
  <2>1. /\ http[r] = "waiting" /\ chan[r] # <<>> /\ r \in Downloads
        /\ got' = IF m.kind = "chunk" THEN [got EXCEPT ![r] = Append(@, m.index)] ELSE got
        /\ IF m.index + 1 = m.total
           THEN Answer(r, "ok")
           ELSE chan' = [chan EXCEPT ![r] = Tail(@)] /\ UNCHANGED <<http, reply, pending>>
        /\ UNCHANGED <<linkVars, captured, agentVars, dropped>>
    BY <1>6 DEF ReceiveChunk
  <2>2. m \in Messages /\ Tells(m) /\ m.req = r
    BY <2>1, HeadTells
  <2>3. m # Register /\ (IsChunk(m, r) <=> m.kind = "chunk") /\ m.index \in Nat
    BY <2>2, RegisterAssumption DEF IsChunk, Messages
  <2>4. m.index + 1 = m.total => m.kind = "chunk"
    <3>1. m.kind \in {"ack", "chunk"}
      BY <2>1, <2>2, KindsDisjoint DEF Tells
    <3> QED  BY <2>2, <2>3, <3>1 DEF Tells
  <2>5. m.kind = "chunk" => m.total = Chunks
    BY <2>2 DEF Tells
  <2>6. chan[r] \in Seq(AnyMessage) /\ got[r] \in Seq(0 .. Chunks) /\ Len(got[r]) \in Nat
    BY <1>0, QueueFacts
  <2>7. ASSUME Intact(r)
        PROVE  /\ m.kind = "chunk" => m.index = Len(got[r])
               /\ \E b, d \in 0 .. sent[r] :
                     /\ Len(got'[r]) <= b /\ b <= d
                     /\ Carries(Tail(chan[r]), r, Len(got'[r]), b)
                     /\ Carries(wire[captured[r]], r, b, d)
                     /\ Carries(sendCh, r, d, sent[r])
    <3>1. Gapless(r)
      BY <2>1, <2>7 DEF DInv, StreamsGapless
    <3>2. PICK b \in 0 .. sent[r], d \in 0 .. sent[r] :
            /\ Len(got[r]) <= b /\ b <= d
            /\ Carries(chan[r], r, Len(got[r]), b)
            /\ Carries(wire[captured[r]], r, b, d)
            /\ Carries(sendCh, r, d, sent[r])
      BY <3>1 DEF Gapless
    <3>3. b \in Nat
      BY QueueFacts, ChunksAssumption
    <3>4. CASE m.kind = "chunk"
      <4>1. m.index = Len(got[r]) /\ Len(got[r]) < b /\ Carries(Tail(chan[r]), r, Len(got[r]) + 1, b)
        BY <2>1, <2>3, <2>6, <3>2, <3>3, <3>4, CarriesTail
      <4>2. got'[r] = Append(got[r], m.index) /\ Len(got'[r]) = Len(got[r]) + 1
        BY <1>0, <2>1, <2>6, <3>4
      <4>3. Len(got'[r]) <= b
        BY <2>6, <3>3, <4>1, <4>2
      <4> QED  BY <3>2, <4>1, <4>2, <4>3
    <3>5. CASE m.kind # "chunk"
      <4>1. Carries(Tail(chan[r]), r, Len(got[r]), b)
        BY <2>1, <2>3, <2>6, <3>2, <3>3, <3>5, CarriesTail
      <4> QED  BY <2>1, <3>2, <3>5, <4>1
    <3> QED  BY <3>4, <3>5
  <2>8. ASSUME Intact(r)
        PROVE  \A i \in 1 .. Len(got'[r]) : got'[r][i] = i - 1
    <3>1. CASE m.kind = "chunk"
      <4>1. got'[r] = Append(got[r], Len(got[r]))
        BY <1>0, <2>1, <2>7, <2>8, <3>1
      <4>2. Len(got[r]) \in Nat /\ \A i \in 1 .. Len(got[r]) : got[r][i] = i - 1
        BY <1>1, <2>1, <2>6, <2>8
      <4>3. /\ Len(got'[r]) = Len(got[r]) + 1 /\ got'[r][Len(got[r]) + 1] = Len(got[r])
            /\ \A i \in 1 .. Len(got[r]) : got'[r][i] = got[r][i]
        BY <2>6, <4>1
      <4> QED  BY <4>2, <4>3
    <3>2. CASE m.kind # "chunk"
      BY <1>1, <2>1, <2>8, <3>2
    <3> QED  BY <3>1, <3>2
  <2>9. \A q \in Requests : q # r => got'[q] = got[q]
    BY <1>0, <2>1
  <2>10. CASE m.index + 1 = m.total
    <3>1. Intact(r) => Len(got'[r]) = Chunks
      <4>1. ASSUME Intact(r) PROVE Len(got'[r]) = Chunks
        <5>1. m.kind = "chunk" /\ m.index = Len(got[r]) /\ m.total = Chunks
          BY <2>4, <2>5, <2>7, <2>10, <4>1
        <5>2. got'[r] = Append(got[r], m.index)
          BY <1>0, <2>1, <5>1
        <5>3. Len(got'[r]) = Len(got[r]) + 1
          BY <2>6, <2>7, <4>1, <5>2
        <5> QED  BY <2>10, <5>1, <5>3
      <4> QED  BY <4>1
    <3>2. Answer(r, "ok") /\ "ok" \in Answers
      BY <2>1, <2>10 DEF Answers
    <3> QED  BY <2>1, <2>8, <2>9, <3>1, <3>2, AnswerDInv DEF Answer
  <2>11. CASE m.index + 1 # m.total
    <3>1. chan' = [chan EXCEPT ![r] = Tail(@)] /\ UNCHANGED <<http, reply, pending>>
      BY <2>1, <2>11
    <3>2. UNCHANGED <<sendCh, agent, conn, link, wire, phase, captured, sent, dropped>>
      BY <2>1 DEF linkVars, agentVars
    <3>3. ConnectionsOrdered' /\ PendingUntilAnswered'
      BY <3>1, <3>2 DEF DInv, ConnectionsOrdered, PendingUntilAnswered
    <3>4. DownloadIntact'
      <4>1. reply[r] = "none"
        BY <2>1 DEF IInv, JobsMatch
      <4>2. ASSUME NEW q \in Downloads, Intact(q)
            PROVE  /\ \A i \in 1 .. Len(got'[q]) : got'[q][i] = i - 1
                   /\ reply[q] = "ok" => Len(got'[q]) = Chunks
        <5>1. CASE q = r
          BY <2>8, <4>1, <4>2, <5>1
        <5>2. CASE q # r
          BY <2>9, <4>2, <5>2 DEF DInv, DownloadIntact, Intact, Requests
        <5> QED  BY <5>1, <5>2
      <4> QED  BY <3>1, <3>2, <4>2 DEF DownloadIntact, Intact
    <3>5. StreamsGapless'
      <4>1. ASSUME NEW q \in Downloads, Intact(q), http[q] = "waiting" PROVE Gapless(q)'
        <5>1. CASE q = r
          <6>1. chan'[r] = Tail(chan[r])
            BY <1>0, <3>1
          <6> QED  BY <2>7, <3>2, <4>1, <5>1, <6>1 DEF Gapless
        <5>2. CASE q # r
          <6>1. chan'[q] = chan[q] /\ got'[q] = got[q]
            BY <1>0, <2>9, <3>1, <5>2 DEF Requests
          <6> QED  BY <3>2, <4>1, <6>1 DEF DInv, StreamsGapless, Gapless
        <5> QED  BY <5>1, <5>2
      <4> QED  BY <3>1, <3>2, <4>1 DEF StreamsGapless, Intact
    <3> QED  BY <3>3, <3>4, <3>5 DEF DInv
  <2> QED  BY <2>10, <2>11
<1> QED  BY <1>2, <1>3, <1>4, <1>5, <1>6 DEF ServerStep

(* A goroutine of the agent posts a message: the next chunk of its file,   *)
(* or one that is no chunk.                                                *)
LEMMA PostDInv ==
  ASSUME IInv, DInv, NEW r \in Requests, NEW m \in Messages, Post(r, m), m.req = r,
         UNCHANGED serverVars,
         \A q \in Requests : q # r => sent'[q] = sent[q],
         IsChunk(m, r) => m.index = sent[r] /\ sent'[r] = sent[r] + 1,
         ~IsChunk(m, r) => sent'[r] = sent[r]
  PROVE  DInv'
<1>1. /\ UNCHANGED <<agent, conn, writer, link, wire, phase>>
      /\ UNCHANGED <<http, captured, reply, got, pending, chan>>
      /\ dropped' = IF sendCh' = sendCh THEN dropped \cup {r} ELSE dropped
      /\ sendCh' = Append(sendCh, m) \/ sendCh' = sendCh
  BY DEF Post, Enqueue, serverVars
<1>2. ConnectionsOrdered' /\ PendingUntilAnswered'
  BY <1>1 DEF DInv, ConnectionsOrdered, PendingUntilAnswered
<1>3. \A q \in Requests : Intact(q)' => Intact(q)
  BY <1>1 DEF Intact
<1>4. DownloadIntact'
  BY <1>1 DEF DInv, DownloadIntact
<1>5. m \in AnyMessage /\ sendCh \in Seq(AnyMessage)
  BY QueueFacts DEF AnyMessage
<1>6. ASSUME NEW q \in Downloads, Intact(q)', http[q] = "waiting" PROVE Gapless(q)'
  <2>1. Gapless(q) /\ q \in Requests
    BY <1>3, <1>6 DEF DInv, StreamsGapless, Requests
  <2>2. sent[q] \in Nat /\ Len(got[q]) \in Nat
    BY <2>1, QueueFacts, ChunksAssumption
  <2>3. CASE q = r /\ IsChunk(m, r)
    <3>1. sendCh' = Append(sendCh, m) /\ m.index = sent[r] /\ sent'[r] = sent[r] + 1
      BY <1>1, <1>6, <2>3 DEF Intact
    <3>2. PICK b \in 0 .. sent[q], d \in 0 .. sent[q] :
            /\ Len(got[q]) <= b /\ b <= d
            /\ Carries(chan[q], q, Len(got[q]), b)
            /\ Carries(wire[captured[q]], q, b, d)
            /\ Carries(sendCh, q, d, sent[q])
      BY <2>1 DEF Gapless
    <3>3. Carries(sendCh', q, d, sent[q] + 1)
      BY <1>5, <2>2, <2>3, <3>1, <3>2, CarriesAppend
    <3>4. b \in 0 .. sent'[q] /\ d \in 0 .. sent'[q]
      BY <2>2, <2>3, <3>1
    <3> QED  BY <1>1, <2>3, <3>1, <3>2, <3>3, <3>4 DEF Gapless
  <2>4. CASE ~(q = r /\ IsChunk(m, r))
    <3>1. sent'[q] = sent[q] /\ ~IsChunk(m, q)
      BY <2>1, <2>4 DEF IsChunk
    <3>2. \A lo, hi \in Nat :
             lo <= hi /\ Carries(sendCh, q, lo, hi) => Carries(sendCh', q, lo, hi)
      BY <1>1, <1>5, <3>1, CarriesAppend
    <3> QED  BY <1>1, <2>1, <2>2, <3>1, <3>2, GaplessKept
  <2> QED  BY <2>3, <2>4
<1>7. StreamsGapless'
  BY <1>1, <1>6 DEF StreamsGapless
<1> QED  BY <1>2, <1>4, <1>7 DEF DInv

(* Every step of the agent. *)
LEMMA AgentDInv ==
  ASSUME IInv, DInv, NEW r \in Requests, AgentStep(r)
  PROVE  DInv'
<1>0. sent \in [Requests -> 0 .. Chunks]
  BY QueueFacts
<1>1. CASE Handle(r) \/ ReadFile(r)
  <2>1. UNCHANGED <<sendCh, agent, conn, writer, link, wire, phase, http, captured, reply, got,
                    pending, chan, sent, dropped>>
    BY <1>1 DEF Handle, ReadFile, linkVars, serverVars
  <2>2. ConnectionsOrdered' /\ PendingUntilAnswered' /\ DownloadIntact'
    BY <2>1 DEF DInv, ConnectionsOrdered, PendingUntilAnswered, DownloadIntact
  <2>3. StreamsGapless'
    BY <2>1 DEF DInv, StreamsGapless, Gapless, Intact
  <2> QED  BY <2>2, <2>3 DEF DInv
<1>2. CASE CarryOut(r) \/ ReadFileFails(r)
  <2>1. /\ UNCHANGED serverVars /\ sent' = sent
        /\ \/ Post(r, ListMsg(r))
           \/ \E o \in BOOLEAN : Post(r, AckMsg(r, o))
    BY <1>2 DEF CarryOut, ReadFileFails
  <2>2. CASE Post(r, ListMsg(r))
    <3>1. ListMsg(r) \in Messages /\ ListMsg(r).req = r /\ ~IsChunk(ListMsg(r), r)
      BY ChunksAssumption DEF Messages, ListMsg, IsChunk
    <3> QED  BY <2>1, <2>2, <3>1, PostDInv
  <2>3. ASSUME NEW o \in BOOLEAN, Post(r, AckMsg(r, o)) PROVE DInv'
    <3>1. AckMsg(r, o) \in Messages /\ AckMsg(r, o).req = r /\ ~IsChunk(AckMsg(r, o), r)
      BY ChunksAssumption DEF Messages, AckMsg, IsChunk
    <3> QED  BY <2>1, <2>3, <3>1, PostDInv
  <2> QED  BY <2>1, <2>2, <2>3
<1>3. CASE SendChunk(r)
  <2> DEFINE m == ChunkMsg(r, sent[r])
  <2>1. Post(r, m) /\ UNCHANGED serverVars /\ sent' = [sent EXCEPT ![r] = @ + 1]
    BY <1>3 DEF SendChunk
  <2>2. m \in Messages /\ m.req = r /\ m.kind = "chunk" /\ m.index = sent[r]
    BY <1>0, ChunksAssumption DEF Messages, ChunkMsg
  <2>3. IsChunk(m, r)
    BY <2>2, RegisterAssumption DEF IsChunk
  <2> HIDE DEF m
  <2>4. sent'[r] = sent[r] + 1 /\ \A q \in Requests : q # r => sent'[q] = sent[q]
    BY <1>0, <2>1
  <2> QED  BY <2>1, <2>2, <2>3, <2>4, PostDInv
<1> QED  BY <1>1, <1>2, <1>3 DEF AgentStep

(* Every step keeps DInv. *)
LEMMA DStepInv == IInv /\ DInv /\ [Next]_vars => DInv'
<1> SUFFICES ASSUME IInv, DInv, [Next]_vars PROVE DInv'
  OBVIOUS
<1>1. CASE UNCHANGED vars
  <2>1. ConnectionsOrdered' /\ PendingUntilAnswered' /\ DownloadIntact'
    BY <1>1 DEF vars, linkVars, serverVars, agentVars, DInv, ConnectionsOrdered,
       PendingUntilAnswered, DownloadIntact
  <2>2. StreamsGapless'
    BY <1>1 DEF vars, linkVars, serverVars, agentVars, DInv, StreamsGapless, Gapless, Intact
  <2> QED  BY <2>1, <2>2 DEF DInv
<1> QED  BY <1>1, LinkDInv, ResolveDInv, ServerDInv, AgentDInv DEF Next

(* The first state. *)
LEMMA DInitInv == Init => DInv
<1> SUFFICES ASSUME Init PROVE DInv
  OBVIOUS
<1>1. ConnectionsOrdered
  BY DEF Init, LinkInit, ConnectionsOrdered
<1>2. PendingUntilAnswered /\ DownloadIntact /\ StreamsGapless
  BY DEF Init, LinkInit, PendingUntilAnswered, DownloadIntact, StreamsGapless, Requests
<1> QED  BY <1>1, <1>2 DEF DInv

(* What is on its way of a download over a connection that holds has no    *)
(* gap anywhere between the agent and the HTTP handler.                    *)
THEOREM NoGaps == Spec => []DInv
<1>1. Init => DInv
  BY DInitInv
<1>2. IInv /\ DInv /\ [Next]_vars => DInv'
  BY DStepInv
<1> QED  BY <1>1, <1>2, Invariance, PTL DEF Spec

(* So such a download is a gapless beginning of the file until it is       *)
(* answered, and the file then (files.go:101-117).                         *)
THEOREM DownloadsIntact == Spec => []DownloadIntact
<1>1. DInv => DownloadIntact
  BY DEF DInv
<1> QED  BY <1>1, NoGaps, PTL
===============================================================================
