--------------------------- MODULE AgentLinkProofs ---------------------------
(***************************************************************************)
(* Facts about queues, and the types of the link between agent and server  *)
(* whatever the messages are: for the proofs of the modules that send over *)
(* it.                                                                     *)
(***************************************************************************)
EXTENDS AgentLink, SequenceTheorems, TLAPS

USE QueueCapAssumption, MaxDialsAssumption

(* What the sequence operators of the model return, from the library       *)
(* theorems.                                                               *)
LEMMA SeqFacts ==
  ASSUME NEW S, NEW q \in Seq(S)
  PROVE  /\ Len(q) \in Nat
         /\ \A m \in S : Append(q, m) \in Seq(S) /\ Len(Append(q, m)) = Len(q) + 1
         /\ q # <<>> => /\ Head(q) \in S
                        /\ Tail(q) \in Seq(S)
                        /\ Len(Tail(q)) = Len(q) - 1
         /\ \A n \in 0 .. Len(q) : SubSeq(q, 1, n) \in Seq(S)
         /\ <<>> \in Seq(S) /\ Len(<<>>) = 0
<1>1. Len(q) \in Nat /\ (\A m \in S : Append(q, m) \in Seq(S) /\ Len(Append(q, m)) = Len(q) + 1)
  BY LenProperties, AppendProperties
<1>2. q # <<>> => Head(q) \in S /\ Tail(q) \in Seq(S) /\ Len(Tail(q)) = Len(q) - 1
  BY HeadTailProperties
<1>3. \A n \in 0 .. Len(q) : SubSeq(q, 1, n) \in Seq(S)
  BY SubSeqProperties
<1> QED  BY <1>1, <1>2, <1>3, EmptySeq

(* A sequence over a set is one over every larger set. *)
LEMMA SeqGrows ==
  ASSUME NEW S, NEW T, S \subseteq T, NEW q \in Seq(S)
  PROVE  q \in Seq(T)
BY SeqMonotonic

(* Every step of the link keeps its types, whatever the messages are:      *)
(* FileRequestsProofs uses it with all messages for TypeOK and with the    *)
(* true ones for PipelineTrue.                                             *)
LEMMA LinkTypeStep ==
  ASSUME NEW M, LinkTypeOK(M), LinkStep
  PROVE  LinkTypeOK(M)'
<1> DEFINE S == M \cup {Register}
<1> USE DEF LinkTypeOK, Dials
<1>1. CASE Dial
  BY <1>1 DEF Dial
<1>2. CASE SendRegister
  <2>1. CASE sendCh' = sendCh
    BY <1>2, <2>1 DEF SendRegister
  <2>2. CASE Len(sendCh) < QueueCap /\ sendCh' = Append(sendCh, Register)
    <3>1. /\ Append(sendCh, Register) \in Seq(S)
          /\ Len(Append(sendCh, Register)) = Len(sendCh) + 1 /\ Len(sendCh) \in Nat
      BY SeqFacts
    <3> QED  BY <1>2, <2>2, <3>1 DEF SendRegister
  <2> QED  BY <1>2, <2>1, <2>2 DEF SendRegister, Enqueue
<1>3. CASE WriterSends
  <2>1. conn \in Dials => wire[conn] \in Seq(S)
    OBVIOUS
  <2>2. Head(sendCh) \in S /\ Tail(sendCh) \in Seq(S) /\ Len(Tail(sendCh)) <= QueueCap
    BY <1>3, SeqFacts DEF WriterSends
  <2>3. wire' \in [Dials -> Seq(S)]
    BY <1>3, <2>1, <2>2, SeqFacts DEF WriterSends
  <2> QED  BY <1>3, <2>2, <2>3 DEF WriterSends
<1>4. CASE WriterLoses
  BY <1>4, SeqFacts DEF WriterLoses
<1>5. CASE ConnectReturns \/ WriterStops
  BY <1>5 DEF ConnectReturns, WriterStops
<1>6. ASSUME NEW e \in Dials, LinkBreaks(e) PROVE LinkTypeOK(M)'
  <2>1. PICK n \in 0 .. Len(wire[e]) : wire' = [wire EXCEPT ![e] = SubSeq(@, 1, n)]
    BY <1>6 DEF LinkBreaks
  <2>2. SubSeq(wire[e], 1, n) \in Seq(S)
    BY <2>1, SeqFacts
  <2> QED  BY <1>6, <2>1, <2>2 DEF LinkBreaks
<1>7. ASSUME NEW e \in Dials, Accept(e) PROVE LinkTypeOK(M)'
  BY <1>7, SeqFacts DEF Accept
<1>8. ASSUME NEW e \in Dials, Refuse(e) PROVE LinkTypeOK(M)'
  BY <1>8, SeqFacts DEF Refuse
<1>9. ASSUME NEW e \in Dials, ServerReadFails(e) PROVE LinkTypeOK(M)'
  BY <1>9 DEF ServerReadFails
<1> QED  BY <1>1, <1>2, <1>3, <1>4, <1>5, <1>6, <1>7, <1>8, <1>9 DEF LinkStep, Relink

(* The elements of the rest of a queue. *)
LEMMA TailFacts ==
  ASSUME NEW S, NEW q \in Seq(S), q # <<>>
  PROVE  /\ Len(q) \in Nat /\ Len(q) >= 1 /\ DOMAIN q = 1 .. Len(q)
         /\ Head(q) = q[1] /\ DOMAIN Tail(q) = 1 .. Len(q) - 1
         /\ \A i \in 1 .. Len(q) - 1 : Tail(q)[i] = q[i + 1]
OBVIOUS

(* The elements of a queue with one more. *)
LEMMA AppendFacts ==
  ASSUME NEW S, NEW q \in Seq(S), NEW m
  PROVE  /\ Len(q) \in Nat /\ DOMAIN q = 1 .. Len(q) /\ DOMAIN Append(q, m) = 1 .. Len(q) + 1
         /\ Append(q, m)[Len(q) + 1] = m
         /\ \A i \in 1 .. Len(q) : Append(q, m)[i] = q[i]
OBVIOUS
==============================================================================
