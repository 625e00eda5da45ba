--------------------------- MODULE ShellRelayProofs ---------------------------
(***************************************************************************)
(* The invariant of ShellRelay is inductive, for every number of           *)
(* terminals, connections and pieces of output and every capacity of       *)
(* sendCh and of Frontend; the types and the order of the output follow.   *)
(* The second part shows that nothing is ever in two queues, and from it   *)
(* the refinement of LossyStream and that nothing is shown twice.          *)
(*                                                                         *)
(* The argument: the messages of a terminal are in sendCh, the connection, *)
(* the Frontend channel and what was shown, the later ones always in the   *)
(* queue before; a step takes one from the head of a queue and drops it or *)
(* puts it at the end of the next.                                         *)
(***************************************************************************)
EXTENDS ShellRelay, AgentLinkProofs

USE QueueCapAssumption, MaxDialsAssumption, FrontCapAssumption, MaxOutputAssumption

(* Whatever is sent to the server. *)
AnyMessage == Messages \cup {Register}

(* What the proofs use of a message of a terminal. *)
LEMMA OwnMessage ==
  ASSUME NEW m \in AnyMessage, NEW s, Of(m, s)
  PROVE  m \in Messages /\ m.term = s /\ m.index \in Nat
BY DEF AnyMessage, Of, Messages

(* The rest of a queue, and its head, are within the queue's range, and    *)
(* the rest comes after the head.                                          *)
LEMMA WithinTail ==
  ASSUME NEW q \in Seq(AnyMessage), q # <<>>, NEW s, NEW lo \in Nat, NEW hi \in Nat,
         Within(q, s, lo, hi)
  PROVE  /\ Within(Tail(q), s, lo, hi)
         /\ Of(Head(q), s) => /\ Head(q).index \in Nat
                              /\ lo <= Head(q).index /\ Head(q).index < hi
                              /\ Within(Tail(q), s, Head(q).index + 1, hi)
<1>1. /\ Len(q) \in Nat /\ Len(q) >= 1 /\ DOMAIN q = 1 .. Len(q)
      /\ Head(q) = q[1] /\ DOMAIN Tail(q) = 1 .. Len(q) - 1
      /\ \A i \in 1 .. Len(q) - 1 : Tail(q)[i] = q[i + 1]
  BY TailFacts
<1>2. \A i \in 1 .. Len(q) : q[i] \in AnyMessage /\ (Of(q[i], s) => q[i].index \in Nat)
  BY OwnMessage
<1>3. \A i \in 1 .. Len(q) : Of(q[i], s) => lo <= q[i].index /\ q[i].index < hi
  BY <1>1 DEF Within
<1>4. \A i, j \in 1 .. Len(q) :
         i < j /\ Of(q[i], s) /\ Of(q[j], s) => q[i].index < q[j].index
  BY <1>1 DEF Within
<1>5. \A i, j \in 1 .. Len(q) - 1 :
         i < j /\ Of(Tail(q)[i], s) /\ Of(Tail(q)[j], s) => Tail(q)[i].index < Tail(q)[j].index
  <2>1. ASSUME NEW i \in 1 .. Len(q) - 1, NEW j \in 1 .. Len(q) - 1, i < j,
               Of(q[i + 1], s), Of(q[j + 1], s)
        PROVE  q[i + 1].index < q[j + 1].index
    <3>1. i + 1 \in 1 .. Len(q) /\ j + 1 \in 1 .. Len(q) /\ i + 1 < j + 1
      BY <1>1, <2>1
    <3> QED  BY <1>4, <2>1, <3>1
  <2> QED  BY <1>1, <2>1
<1>6. \A i \in 1 .. Len(q) - 1 : i + 1 \in 1 .. Len(q) /\ 1 \in 1 .. Len(q) /\ 1 < i + 1
  BY <1>1
<1>7. \A i \in 1 .. Len(q) - 1 : Of(Tail(q)[i], s) => lo <= Tail(q)[i].index /\ Tail(q)[i].index < hi
  BY <1>1, <1>3, <1>6
<1>8. ASSUME Of(Head(q), s)
      PROVE  /\ Head(q).index \in Nat /\ lo <= Head(q).index /\ Head(q).index < hi
             /\ \A i \in 1 .. Len(q) - 1 : Of(Tail(q)[i], s) => Head(q).index + 1 <= Tail(q)[i].index
  <2>1. 1 \in 1 .. Len(q)
    BY <1>1
  <2>2. Head(q).index \in Nat /\ lo <= Head(q).index /\ Head(q).index < hi
    BY <1>1, <1>2, <1>3, <1>8, <2>1
  <2>3. ASSUME NEW i \in 1 .. Len(q) - 1, Of(q[i + 1], s)
        PROVE  q[1].index + 1 <= q[i + 1].index
    <3>1. q[1].index < q[i + 1].index /\ q[i + 1].index \in Nat
      BY <1>1, <1>2, <1>4, <1>6, <1>8, <2>3
    <3> QED  BY <1>1, <2>2, <3>1
  <2> QED  BY <1>1, <2>2, <2>3
<1> QED  BY <1>1, <1>5, <1>7, <1>8 DEF Within

(* A message at the end of a queue comes after what is in it, or is of     *)
(* another terminal.                                                       *)
LEMMA WithinAppend ==
  ASSUME NEW q \in Seq(AnyMessage), NEW s, NEW lo \in Nat, NEW hi \in Nat, lo <= hi,
         Within(q, s, lo, hi), NEW m \in AnyMessage
  PROVE  /\ ~Of(m, s) => Within(Append(q, m), s, lo, hi)
         /\ Of(m, s) /\ hi <= m.index => Within(Append(q, m), s, lo, m.index + 1)
<1> DEFINE p == Append(q, m)
<1>1. /\ Len(q) \in Nat /\ DOMAIN q = 1 .. Len(q) /\ DOMAIN p = 1 .. Len(q) + 1
      /\ p[Len(q) + 1] = m /\ \A i \in 1 .. Len(q) : p[i] = q[i]
  BY AppendFacts
<1> HIDE DEF p
<1>2. \A i \in 1 .. Len(q) : Of(q[i], s) => /\ q[i].index \in Nat
                                            /\ lo <= q[i].index /\ q[i].index < hi
  BY <1>1, OwnMessage DEF Within
<1>3. \A i, j \in 1 .. Len(q) :
         i < j /\ Of(q[i], s) /\ Of(q[j], s) => q[i].index < q[j].index
  BY <1>1 DEF Within
<1>4. \A i \in 1 .. Len(q) + 1 : i \in 1 .. Len(q) \/ i = Len(q) + 1
  BY <1>1
<1>5. ASSUME ~Of(m, s) PROVE Within(p, s, lo, hi)
  <2>1. \A i \in 1 .. Len(q) + 1 : Of(p[i], s) => i \in 1 .. Len(q) /\ p[i] = q[i]
    BY <1>1, <1>4, <1>5
  <2> QED  BY <1>1, <1>2, <1>3, <2>1 DEF Within
<1>6. ASSUME Of(m, s), hi <= m.index PROVE Within(p, s, lo, m.index + 1)
  <2>1. m.index \in Nat
    BY <1>6, OwnMessage
  <2>2. \A i \in 1 .. Len(q) + 1 : Of(p[i], s) => lo <= p[i].index /\ p[i].index < m.index + 1
    BY <1>1, <1>2, <1>4, <1>6, <2>1
  <2>3. ASSUME NEW i \in 1 .. Len(q) + 1, NEW j \in 1 .. Len(q) + 1, i < j,
               Of(p[i], s), Of(p[j], s)
        PROVE  p[i].index < p[j].index
    <3>1. i \in 1 .. Len(q) /\ p[i] = q[i]
      BY <1>1, <2>3
    <3>2. CASE j = Len(q) + 1
      BY <1>1, <1>2, <1>6, <2>1, <2>3, <3>1, <3>2
    <3>3. CASE j \in 1 .. Len(q)
      BY <1>1, <1>3, <2>3, <3>1, <3>3
    <3> QED  BY <1>4, <3>2, <3>3
  <2> QED  BY <1>1, <2>2, <2>3 DEF Within
<1> QED  BY <1>5, <1>6 DEF p

(* A queue without a message of s fits every range. *)
LEMMA WithinAbsent ==
  ASSUME NEW q, NEW s, NEW lo, NEW hi, Absent(q, s)
  PROVE  Within(q, s, lo, hi)
BY DEF Within, Absent

(* Absence is kept by the changes of a queue. *)
LEMMA AbsentKept ==
  ASSUME NEW q \in Seq(AnyMessage), NEW s, Absent(q, s)
  PROVE  /\ \A m \in AnyMessage : ~Of(m, s) => Absent(Append(q, m), s)
         /\ q # <<>> => Absent(Tail(q), s) /\ ~Of(Head(q), s)
         /\ \A n \in 0 .. Len(q) : Absent(SubSeq(q, 1, n), s)
<1>1. ASSUME NEW m \in AnyMessage, ~Of(m, s) PROVE Absent(Append(q, m), s)
  BY <1>1, AppendFacts DEF Absent
<1>2. ASSUME q # <<>> PROVE Absent(Tail(q), s) /\ ~Of(Head(q), s)
  <2>1. /\ Len(q) \in Nat /\ Len(q) >= 1 /\ DOMAIN q = 1 .. Len(q)
        /\ Head(q) = q[1] /\ DOMAIN Tail(q) = 1 .. Len(q) - 1
        /\ \A i \in 1 .. Len(q) - 1 : Tail(q)[i] = q[i + 1]
    BY <1>2, TailFacts
  <2>2. \A i \in 1 .. Len(q) - 1 : i + 1 \in DOMAIN q
    BY <2>1
  <2>3. 1 \in DOMAIN q
    BY <2>1
  <2> QED  BY <2>1, <2>2, <2>3 DEF Absent
<1>3. ASSUME NEW n \in 0 .. Len(q) PROVE Absent(SubSeq(q, 1, n), s)
  <2>1. /\ Len(q) \in Nat /\ DOMAIN q = 1 .. Len(q) /\ DOMAIN SubSeq(q, 1, n) = 1 .. n
        /\ \A i \in 1 .. n : SubSeq(q, 1, n)[i] = q[i]
    OBVIOUS
  <2> QED  BY <1>3, <2>1 DEF Absent
<1> QED  BY <1>1, <1>2, <1>3

------------------------------------------------------------------------------
(* The types of the queues. *)
LEMMA QueueFacts ==
  ASSUME TypeOK
  PROVE  /\ sendCh \in Seq(AnyMessage) /\ wire \in [Dials -> Seq(AnyMessage)]
         /\ \A s \in Terms : front[s] \in Seq(AnyMessage) /\ shown[s] \in Seq(AnyMessage)
         /\ front \in [Terms -> Seq(Messages)] /\ shown \in [Terms -> Seq(Messages)]
         /\ posted \in [Terms -> Nat] /\ captured \in [Terms -> {0} \cup Dials]
         /\ conn \in 0 .. MaxDials /\ link \in [Dials -> {"none", "up", "down"}]
         /\ phase \in [Dials -> {"none", "handshake", "refused", "serving", "ended"}]
<1>1. Messages \subseteq AnyMessage
  BY DEF AnyMessage
<1>2. \A s \in Terms : front[s] \in Seq(AnyMessage) /\ shown[s] \in Seq(AnyMessage)
  BY <1>1, SeqGrows DEF TypeOK
<1> QED  BY <1>2 DEF TypeOK, LinkTypeOK, AnyMessage

(* The connection of a terminal whose connection holds is the last one. *)
LEMMA HoldsIsLast ==
  ASSUME TypeOK, ConnectionsOrdered, NEW s \in Terms, Holds(s)
  PROVE  captured[s] \in Dials /\ captured[s] = conn /\ agent # "away"
BY QueueFacts DEF Holds, ConnectionsOrdered

(* A terminal's messages stay in order when every queue keeps its range. *)
LEMMA InOrderKept ==
  ASSUME NEW s, InOrder(s), posted[s] \in Nat, posted'[s] = posted[s],
         captured'[s] = captured[s],
         \A lo, hi \in Nat : Within(shown[s], s, lo, hi) => Within(shown'[s], s, lo, hi),
         \A lo, hi \in Nat : Within(front[s], s, lo, hi) => Within(front'[s], s, lo, hi),
         \A lo, hi \in Nat : lo <= hi /\ Within(wire[captured[s]], s, lo, hi)
                                => Within(wire'[captured[s]], s, lo, hi),
         \A lo, hi \in Nat : lo <= hi /\ Within(sendCh, s, lo, hi) => Within(sendCh', s, lo, hi)
  PROVE  InOrder(s)'
<1>1. PICK a, b, c \in 0 .. posted[s] :
        /\ a <= b /\ b <= c
        /\ Within(shown[s], s, 0, a) /\ Within(front[s], s, a, b)
        /\ Within(wire[captured[s]], s, b, c) /\ Within(sendCh, s, c, posted[s])
  BY DEF InOrder
<1>2. /\ Within(shown'[s], s, 0, a) /\ Within(front'[s], s, a, b)
      /\ Within(wire'[captured'[s]], s, b, c) /\ Within(sendCh', s, c, posted'[s])
  BY <1>1
<1> QED  BY <1>1, <1>2 DEF InOrder

(* Nothing changes for the terminals when their queues and connections do  *)
(* not.                                                                    *)
LEMMA QueuesKept ==
  ASSUME IInv, UNCHANGED <<sendCh, wire, front, shown, captured, posted, link>>
  PROVE  /\ StreamsInOrder' /\ OwnOutput'
         /\ (\A s \in Terms : shell'[s] = "none" => shell[s] = "none") => Unborn'
BY DEF IInv, StreamsInOrder, Holds, InOrder, OwnOutput, Unborn

(* The initial states satisfy the invariant. *)
LEMMA InitInv == Init => IInv
<1> SUFFICES ASSUME Init PROVE IInv
  OBVIOUS
<1> USE DEF Init, LinkInit
<1>1. TypeOK
  BY EmptySeq DEF TypeOK, LinkTypeOK, Dials, Listed, InMap
<1>2. ConnectionsOrdered /\ Started
  BY DEF ConnectionsOrdered, Started
<1>3. Unborn /\ OwnOutput /\ StreamsInOrder
  BY DEF Unborn, Absent, OwnOutput, StreamsInOrder, Holds
<1> QED  BY <1>1, <1>2, <1>3 DEF IInv

(* The link forwards messages in order, and only its last connection holds *)
(* (Relink).                                                               *)
LEMMA RelinkInv ==
  ASSUME IInv, Relink, UNCHANGED <<termVars, shellVars>>
  PROVE  IInv'
<1> USE DEF termVars, shellVars
<1>1. TypeOK'
  BY LinkTypeStep DEF IInv, TypeOK, LinkStep
<1>2. Started' /\ OwnOutput'
  BY DEF IInv, Started, OwnOutput
<1>3. /\ sendCh \in Seq(AnyMessage) /\ wire \in [Dials -> Seq(AnyMessage)]
      /\ posted \in [Terms -> Nat] /\ captured \in [Terms -> {0} \cup Dials]
      /\ conn \in 0 .. MaxDials /\ link \in [Dials -> {"none", "up", "down"}]
      /\ phase \in [Dials -> {"none", "handshake", "refused", "serving", "ended"}]
  BY QueueFacts DEF IInv
<1>4. /\ \A e \in Dials : link[e] = "up" => e = conn /\ agent # "away"
      /\ \A e \in Dials : phase[e] # "none" => e <= conn
      /\ \A s \in Terms : captured[s] <= conn
  BY DEF IInv, ConnectionsOrdered
<1>5. \A s \in Terms : Holds(s) =>
         /\ captured[s] \in Dials /\ captured[s] = conn /\ agent # "away"
         /\ InOrder(s) /\ \A e \in Dials : e # captured[s] => Absent(wire[e], s)
  BY HoldsIsLast DEF IInv, StreamsInOrder
<1>6. \A s \in Terms : shell[s] = "none" =>
         /\ Absent(sendCh, s) /\ Absent(front[s], s) /\ Absent(shown[s], s)
         /\ \A e \in Dials : Absent(wire[e], s)
  BY DEF IInv, Unborn
<1>7. ASSUME ConnectionsOrdered',
             \A s \in Terms : Absent(sendCh, s) /\ (\A e \in Dials : Absent(wire[e], s))
                => Absent(sendCh', s) /\ (\A e \in Dials : Absent(wire'[e], s)),
             \A s \in Terms : Holds(s)' => Holds(s),
             \A s \in Terms : Holds(s) /\ Holds(s)' =>
                /\ InOrder(s)' /\ \A e \in Dials : e # captured[s] => Absent(wire'[e], s)
      PROVE  IInv'
  <2>1. Unborn'
    BY <1>6, <1>7 DEF Unborn
  <2>2. StreamsInOrder'
    BY <1>7 DEF StreamsInOrder
  <2> QED  BY <1>1, <1>2, <1>7, <2>1, <2>2 DEF IInv
<1>8. ASSUME NEW s \in Terms, Holds(s), wire'[captured[s]] = wire[captured[s]],
             \A lo, hi \in Nat :
                lo <= hi /\ Within(sendCh, s, lo, hi) => Within(sendCh', s, lo, hi)
      PROVE  InOrder(s)'
  <2>1. InOrder(s) /\ posted[s] \in Nat
    BY <1>3, <1>5, <1>8
  <2> QED  BY <1>8, <2>1, InOrderKept
<1>9. CASE Dial
  <2>1. /\ agent = "away" /\ conn < MaxDials /\ conn' = conn + 1 /\ agent' = "registering"
        /\ link' = [link EXCEPT ![conn + 1] = "up"]
        /\ phase' = [phase EXCEPT ![conn + 1] = "handshake"]
        /\ UNCHANGED <<sendCh, wire>>
    BY <1>9 DEF Dial
  <2>2. ConnectionsOrdered'
    <3>1. \A e \in Dials : link'[e] = "up" => e = conn' /\ agent' # "away"
      BY <1>3, <1>4, <2>1
    <3>2. \A e \in Dials : phase'[e] # "none" => e <= conn'
      BY <1>3, <1>4, <2>1 DEF Dials
    <3>3. \A s \in Terms : captured'[s] <= conn'
      BY <1>3, <1>4, <2>1 DEF Dials
    <3> QED  BY <3>1, <3>2, <3>3 DEF ConnectionsOrdered
  <2>3. ASSUME NEW s \in Terms, Holds(s)' PROVE FALSE
    <3>1. captured[s] \in Dials /\ link'[captured[s]] = "up"
      BY <1>3, <2>3 DEF Holds
    <3>2. captured[s] # conn + 1
      BY <1>3, <1>4, <3>1 DEF Dials
    <3>3. link[captured[s]] = "up"
      BY <1>3, <2>1, <3>1, <3>2
    <3> QED  BY <1>4, <2>1, <3>1, <3>3
  <2> QED  BY <1>7, <2>1, <2>2, <2>3
<1>10. CASE SendRegister
  <2>1. /\ agent' = "looping" /\ Enqueue(Register) /\ UNCHANGED <<conn, writer, link, wire, phase>>
    BY <1>10 DEF SendRegister
  <2>2. ConnectionsOrdered'
    BY <1>4, <2>1 DEF ConnectionsOrdered
  <2>3. \A s \in Terms : ~Of(Register, s) /\ Register \in AnyMessage
    BY DEF Of, AnyMessage
  <2>0. sendCh' = sendCh \/ sendCh' = Append(sendCh, Register)
    BY <2>1 DEF Enqueue
  <2>4. \A s \in Terms : Absent(sendCh, s) => Absent(sendCh', s)
    <3>1. \A s \in Terms : Absent(sendCh, s) => Absent(Append(sendCh, Register), s)
      BY <1>3, <2>3, AbsentKept
    <3> QED  BY <2>0, <3>1
  <2>5. \A s \in Terms : \A lo, hi \in Nat :
           lo <= hi /\ Within(sendCh, s, lo, hi) => Within(sendCh', s, lo, hi)
    <3>1. \A s \in Terms : \A lo, hi \in Nat : lo <= hi /\ Within(sendCh, s, lo, hi)
             => Within(Append(sendCh, Register), s, lo, hi)
      BY <1>3, <2>3, WithinAppend
    <3> QED  BY <2>0, <3>1
  <2>6. \A s \in Terms : Holds(s)' => Holds(s)
    BY <2>1 DEF Holds
  <2>7. \A s \in Terms : Holds(s) => InOrder(s)'
    BY <1>8, <2>1, <2>5
  <2> QED  BY <1>5, <1>7, <2>1, <2>2, <2>4, <2>6, <2>7
<1>11. CASE WriterSends
  <2> DEFINE m == Head(sendCh)
  <2>1. /\ sendCh # <<>> /\ link[conn] = "up"
        /\ wire' = [wire EXCEPT ![conn] = Append(@, m)] /\ sendCh' = Tail(sendCh)
        /\ UNCHANGED <<agent, conn, writer, link, phase>>
    BY <1>11 DEF WriterSends
  <2>2. m \in AnyMessage
    BY <1>3, <2>1, SeqFacts
  <2>3. ConnectionsOrdered' /\ \A s \in Terms : Holds(s)' => Holds(s)
    BY <1>4, <2>1 DEF ConnectionsOrdered, Holds
  <2>4. \A e \in Dials : wire'[e] = IF e = conn THEN Append(wire[conn], m) ELSE wire[e]
    BY <1>3, <2>1
  <2>5. ASSUME NEW s \in Terms, Absent(sendCh, s), \A e \in Dials : Absent(wire[e], s)
        PROVE  Absent(sendCh', s) /\ (\A e \in Dials : Absent(wire'[e], s))
    <3>1. Absent(sendCh', s) /\ ~Of(m, s)
      BY <1>3, <2>1, <2>5, AbsentKept
    <3>2. \A e \in Dials : Absent(Append(wire[e], m), s)
      BY <1>3, <2>2, <2>5, <3>1, AbsentKept
    <3> QED  BY <2>4, <2>5, <3>1, <3>2
  <2>6. ASSUME NEW s \in Terms, Holds(s) PROVE InOrder(s)'
    <3>1. /\ conn \in Dials /\ captured[s] = conn /\ captured'[s] = conn
          /\ wire[conn] \in Seq(AnyMessage) /\ wire'[conn] = Append(wire[conn], m)
      BY <1>3, <1>5, <2>4, <2>6
    <3>2. PICK a, b, c \in 0 .. posted[s] :
            /\ a <= b /\ b <= c
            /\ Within(shown[s], s, 0, a) /\ Within(front[s], s, a, b)
            /\ Within(wire[conn], s, b, c) /\ Within(sendCh, s, c, posted[s])
      BY <1>5, <2>6, <3>1 DEF InOrder
    <3>3. posted[s] \in Nat /\ a \in Nat /\ b \in Nat /\ c \in Nat /\ c <= posted[s]
      BY <1>3
    <3>4. /\ Within(sendCh', s, c, posted[s])
          /\ Of(m, s) => /\ m.index \in Nat /\ c <= m.index /\ m.index < posted[s]
                         /\ Within(sendCh', s, m.index + 1, posted[s])
      BY <1>3, <2>1, <3>2, <3>3, WithinTail
    <3> HIDE DEF m
    <3>5. /\ ~Of(m, s) => Within(wire'[conn], s, b, c)
          /\ Of(m, s) => Within(wire'[conn], s, b, m.index + 1)
      BY <2>2, <3>1, <3>2, <3>3, <3>4, WithinAppend
    <3>6. CASE Of(m, s)
      <4>1. m.index + 1 \in 0 .. posted[s] /\ b <= m.index + 1
        BY <3>2, <3>3, <3>4, <3>6
      <4> QED  BY <3>1, <3>2, <3>4, <3>5, <3>6, <4>1 DEF InOrder
    <3>7. CASE ~Of(m, s)
      BY <3>1, <3>2, <3>4, <3>5, <3>7 DEF InOrder
    <3> QED  BY <3>6, <3>7
  <2>7. \A s \in Terms : Holds(s) => \A e \in Dials : e # captured[s] => Absent(wire'[e], s)
    BY <1>5, <2>4
  <2> QED  BY <1>7, <2>3, <2>5, <2>6, <2>7
<1>12. CASE WriterLoses
  <2>1. /\ sendCh # <<>> /\ link[conn] = "down" /\ sendCh' = Tail(sendCh)
        /\ UNCHANGED <<agent, conn, link, wire, phase>>
    BY <1>12 DEF WriterLoses
  <2>2. ConnectionsOrdered'
    BY <1>4, <2>1 DEF ConnectionsOrdered
  <2>3. \A s \in Terms : ~Holds(s)'
    BY <1>5, <2>1 DEF Holds
  <2>4. \A s \in Terms : Absent(sendCh, s) => Absent(sendCh', s)
    BY <1>3, <2>1, AbsentKept
  <2> QED  BY <1>7, <2>1, <2>2, <2>3, <2>4
<1>13. CASE ConnectReturns \/ WriterStops
  <2>1. UNCHANGED <<sendCh, conn, link, wire, phase>>
    BY <1>13 DEF ConnectReturns, WriterStops
  <2>2. ConnectionsOrdered'
    BY <1>4, <1>13, <2>1 DEF ConnectionsOrdered, ConnectReturns, WriterStops
  <2>3. \A s \in Terms : Holds(s)' => Holds(s)
    BY <2>1 DEF Holds
  <2>4. \A s \in Terms : Holds(s) => InOrder(s)'
    BY <1>8, <2>1
  <2> QED  BY <1>5, <1>7, <2>1, <2>2, <2>3, <2>4
<1>14. ASSUME NEW e \in Dials, LinkBreaks(e) PROVE IInv'
  <2>1. PICK n \in 0 .. Len(wire[e]) :
          /\ link' = [link EXCEPT ![e] = "down"]
          /\ wire' = [wire EXCEPT ![e] = SubSeq(@, 1, n)]
          /\ UNCHANGED <<sendCh, agent, conn, writer, phase>>
    BY <1>14 DEF LinkBreaks
  <2>2. \A f \in Dials : wire'[f] = IF f = e THEN SubSeq(wire[e], 1, n) ELSE wire[f]
    BY <1>3, <2>1
  <2>3. ConnectionsOrdered'
    BY <1>3, <1>4, <2>1 DEF ConnectionsOrdered
  <2>4. \A s \in Terms : Holds(s)' => Holds(s) /\ captured[s] # e
    BY <1>3, <2>1 DEF Holds
  <2>5. \A s \in Terms : \A f \in Dials : Absent(wire[f], s) => Absent(wire'[f], s)
    <3>1. \A s \in Terms : Absent(wire[e], s) => Absent(SubSeq(wire[e], 1, n), s)
      BY <1>3, <2>1, AbsentKept
    <3> QED  BY <2>2, <3>1
  <2>6. ASSUME NEW s \in Terms, Holds(s), Holds(s)'
        PROVE  InOrder(s)' /\ \A f \in Dials : f # captured[s] => Absent(wire'[f], s)
    <3>1. captured[s] # e /\ captured[s] \in Dials
      BY <1>5, <2>4, <2>6
    <3>2. InOrder(s)'
      BY <1>8, <2>1, <2>2, <2>6, <3>1
    <3> QED  BY <1>5, <2>5, <2>6, <3>2
  <2> QED  BY <1>7, <2>1, <2>3, <2>4, <2>5, <2>6
<1>15. ASSUME NEW e \in Dials, Accept(e) PROVE IInv'
  <2>1. /\ phase[e] = "handshake" /\ wire[e] # <<>> /\ Head(wire[e]) = Register
        /\ wire' = [wire EXCEPT ![e] = Tail(@)] /\ phase' = [phase EXCEPT ![e] = "serving"]
        /\ UNCHANGED <<sendCh, agent, conn, writer, link>>
    BY <1>15 DEF Accept
  <2>2. \A f \in Dials : wire'[f] = IF f = e THEN Tail(wire[e]) ELSE wire[f]
    BY <1>3, <2>1
  <2>3. ConnectionsOrdered'
    BY <1>3, <1>4, <2>1 DEF ConnectionsOrdered
  <2>4. \A s \in Terms : Holds(s)' => Holds(s)
    BY <2>1 DEF Holds
  <2>5. \A s \in Terms : \A f \in Dials : Absent(wire[f], s) => Absent(wire'[f], s)
    BY <1>3, <2>1, <2>2, AbsentKept
  <2>6. ASSUME NEW s \in Terms, Holds(s) PROVE InOrder(s)'
    <3>1. captured[s] \in Dials /\ InOrder(s) /\ posted[s] \in Nat
      BY <1>3, <1>5, <2>6
    <3>2. \A lo, hi \in Nat : lo <= hi /\ Within(wire[captured[s]], s, lo, hi)
                                 => Within(wire'[captured[s]], s, lo, hi)
      BY <1>3, <2>1, <2>2, <3>1, WithinTail
    <3> QED  BY <2>1, <3>1, <3>2, InOrderKept
  <2> QED  BY <1>5, <1>7, <2>1, <2>3, <2>4, <2>5, <2>6
<1>16. ASSUME NEW e \in Dials, Refuse(e) PROVE IInv'
  <2>1. /\ phase[e] = "handshake" /\ phase' = [phase EXCEPT ![e] = "refused"]
        /\ link' = [link EXCEPT ![e] = "down"] /\ wire' = [wire EXCEPT ![e] = <<>>]
        /\ UNCHANGED <<sendCh, agent, conn, writer>>
    BY <1>16 DEF Refuse
  <2>2. \A f \in Dials : wire'[f] = IF f = e THEN <<>> ELSE wire[f]
    BY <1>3, <2>1
  <2>3. ConnectionsOrdered'
    BY <1>3, <1>4, <2>1 DEF ConnectionsOrdered
  <2>4. \A s \in Terms : Holds(s)' => Holds(s) /\ captured[s] # e
    BY <1>3, <2>1 DEF Holds
  <2>5. \A s \in Terms : \A f \in Dials : Absent(wire[f], s) => Absent(wire'[f], s)
    BY <2>2 DEF Absent
  <2>6. ASSUME NEW s \in Terms, Holds(s), Holds(s)' PROVE InOrder(s)'
    <3>1. captured[s] # e /\ captured[s] \in Dials
      BY <1>5, <2>4, <2>6
    <3> QED  BY <1>8, <2>1, <2>2, <2>6, <3>1
  <2> QED  BY <1>5, <1>7, <2>1, <2>3, <2>4, <2>5, <2>6
<1> QED  BY <1>9, <1>10, <1>11, <1>12, <1>13, <1>14, <1>15, <1>16 DEF Relink

------------------------------------------------------------------------------
(* The terminal's handler.  A terminal that opens has nothing under way,   *)
(* so it fits any connection.                                              *)
LEMMA OpenInv == ASSUME IInv, NEW s \in Terms, Open(s) PROVE IInv'
<1>1. PICK e \in Dials :
        /\ phase[e] \in {"serving", "ended"}
        /\ captured' = [captured EXCEPT ![s] = e]
        /\ shell' = IF link[e] = "up" THEN [shell EXCEPT ![s] = "asked"] ELSE shell
  BY DEF Open
<1>2. /\ term[s] = "idle" /\ term' = [term EXCEPT ![s] = "streaming"]
      /\ browser' = [browser EXCEPT ![s] = "open"]
      /\ UNCHANGED <<linkVars, done, front, shown, posted, lost>>
  BY DEF Open
<1>3. TypeOK'
  BY <1>1, <1>2 DEF IInv, TypeOK, LinkTypeOK, linkVars, Listed, InMap
<1>4. shell[s] = "none" /\ posted[s] = 0
  BY <1>2 DEF IInv, Started
<1>5. ConnectionsOrdered'
  BY <1>1, <1>2, QueueFacts DEF IInv, ConnectionsOrdered, linkVars
<1>6. Started'
  BY <1>1, <1>2, <1>4 DEF IInv, Started, TypeOK
<1>7. Unborn' /\ OwnOutput'
  BY <1>1, <1>2 DEF IInv, Unborn, OwnOutput, linkVars, TypeOK
<1>8. StreamsInOrder'
  <2>1. ASSUME NEW t \in Terms, t # s, Holds(t)'
        PROVE  InOrder(t)' /\ \A f \in Dials : f # captured'[t] => Absent(wire'[f], t)
    <3>1. captured'[t] = captured[t] /\ UNCHANGED <<link, wire, sendCh, front, shown, posted>>
      BY <1>1, <1>2, <2>1, QueueFacts DEF IInv, linkVars
    <3>2. Holds(t)
      BY <2>1, <3>1 DEF Holds
    <3>3. InOrder(t) /\ \A f \in Dials : f # captured[t] => Absent(wire[f], t)
      BY <3>2 DEF IInv, StreamsInOrder
    <3> QED  BY <3>1, <3>3 DEF InOrder
  <2>2. /\ InOrder(s)' /\ \A f \in Dials : Absent(wire'[f], s)
    <3>1. /\ Absent(sendCh, s) /\ Absent(front[s], s) /\ Absent(shown[s], s)
          /\ \A f \in Dials : Absent(wire[f], s)
      BY <1>4 DEF IInv, Unborn
    <3>2. captured'[s] = e /\ UNCHANGED <<wire, sendCh, front, shown, posted>>
      BY <1>1, <1>2, QueueFacts DEF IInv, linkVars
    <3>3. /\ Within(shown'[s], s, 0, 0) /\ Within(front'[s], s, 0, 0)
          /\ Within(wire'[captured'[s]], s, 0, 0) /\ Within(sendCh', s, 0, posted'[s])
      BY <3>1, <3>2, WithinAbsent
    <3>4. 0 \in 0 .. posted'[s]
      BY <1>4, <3>2
    <3> QED  BY <3>1, <3>2, <3>3, <3>4 DEF InOrder
  <2> QED  BY <2>1, <2>2 DEF StreamsInOrder
<1> QED  BY <1>3, <1>5, <1>6, <1>7, <1>8 DEF IInv

(* The head of Frontend becomes the last thing shown. *)
LEMMA TakeOutputInv == ASSUME IInv, NEW s \in Terms, TakeOutput(s) PROVE IInv'
<1> DEFINE m == Head(front[s])
<1>1. /\ front[s] # <<>>
      /\ shown' = [shown EXCEPT ![s] = Append(@, m)]
      /\ front' = [front EXCEPT ![s] = Tail(@)]
      /\ term[s] = "streaming" /\ term' = [term EXCEPT ![s] = "writing"]
      /\ UNCHANGED <<linkVars, captured, done, browser, shellVars>>
  BY DEF TakeOutput
<1>2. /\ front \in [Terms -> Seq(Messages)] /\ shown \in [Terms -> Seq(Messages)]
      /\ front[s] \in Seq(AnyMessage) /\ shown[s] \in Seq(AnyMessage)
      /\ posted \in [Terms -> Nat]
  BY QueueFacts DEF IInv
<1>3. /\ m \in Messages /\ m \in AnyMessage
      /\ Tail(front[s]) \in Seq(Messages) /\ Len(Tail(front[s])) = Len(front[s]) - 1
      /\ Append(shown[s], m) \in Seq(Messages) /\ Len(front[s]) \in Nat
  BY <1>1, <1>2, SeqFacts DEF AnyMessage
<1>4. /\ \A t \in Terms : front'[t] = IF t = s THEN Tail(front[s]) ELSE front[t]
      /\ \A t \in Terms : shown'[t] = IF t = s THEN Append(shown[s], m) ELSE shown[t]
  BY <1>1, <1>2
<1>5. TypeOK'
  <2>1. front' \in [Terms -> Seq(Messages)] /\ shown' \in [Terms -> Seq(Messages)]
    BY <1>1, <1>2, <1>3
  <2>2. \A t \in Terms : Len(front'[t]) <= FrontCap
    <3>1. \A t \in Terms : Len(front[t]) <= FrontCap
      BY DEF IInv, TypeOK
    <3>2. Len(Tail(front[s])) <= FrontCap
      BY <1>3, <3>1
    <3> QED  BY <1>4, <3>1, <3>2
  <2> QED  BY <1>1, <2>1, <2>2 DEF IInv, TypeOK, LinkTypeOK, linkVars, shellVars, Listed, InMap
<1>6. ConnectionsOrdered' /\ Started'
  BY <1>1 DEF IInv, ConnectionsOrdered, Started, TypeOK, linkVars, shellVars
<1>7. OwnOutput'
  <2>1. m.term = s /\ m.kind = "output"
    BY <1>1, <1>2, TailFacts DEF IInv, OwnOutput
  <2>2. \A i \in DOMAIN Tail(front[s]) :
           i + 1 \in DOMAIN front[s] /\ Tail(front[s])[i] = front[s][i + 1]
    BY <1>1, <1>2, TailFacts
  <2>3. \A i \in DOMAIN Append(shown[s], m) :
           Append(shown[s], m)[i] = m \/ (i \in DOMAIN shown[s] /\ Append(shown[s], m)[i] = shown[s][i])
    BY <1>2, AppendFacts
  <2> HIDE DEF m
  <2>4. \A t \in Terms :
           /\ \A i \in DOMAIN front[t] : front[t][i].term = t /\ front[t][i].kind = "output"
           /\ \A i \in DOMAIN shown[t] : shown[t][i].term = t /\ shown[t][i].kind = "output"
    BY DEF IInv, OwnOutput
  <2>5. ASSUME NEW t \in Terms
        PROVE  /\ \A i \in DOMAIN front'[t] :
                     front'[t][i].term = t /\ front'[t][i].kind = "output"
               /\ \A i \in DOMAIN shown'[t] :
                     shown'[t][i].term = t /\ shown'[t][i].kind = "output"
    <3>1. CASE t = s
      <4>1. front'[t] = Tail(front[s]) /\ shown'[t] = Append(shown[s], m)
        BY <1>4, <3>1
      <4>2. \A i \in DOMAIN Tail(front[s]) :
               Tail(front[s])[i].term = s /\ Tail(front[s])[i].kind = "output"
        BY <2>2, <2>4
      <4>3. \A i \in DOMAIN Append(shown[s], m) :
               Append(shown[s], m)[i].term = s /\ Append(shown[s], m)[i].kind = "output"
        BY <2>1, <2>3, <2>4
      <4> QED  BY <3>1, <4>1, <4>2, <4>3
    <3>2. CASE t # s
      BY <1>4, <2>4, <3>2
    <3> QED  BY <3>1, <3>2
  <2> QED  BY <2>5 DEF OwnOutput
<1>8. Unborn'
  <2>1. ASSUME NEW t \in Terms, shell[t] = "none", t = s
        PROVE  Absent(front'[t], t) /\ Absent(shown'[t], t)
    <3>1. Absent(front[s], s) /\ Absent(shown[s], s)
      BY <2>1 DEF IInv, Unborn
    <3>2. Absent(Tail(front[s]), s) /\ ~Of(m, s)
      BY <1>1, <1>2, <3>1, AbsentKept
    <3>3. Absent(Append(shown[s], m), s)
      BY <1>2, <1>3, <3>1, <3>2, AbsentKept
    <3> QED  BY <1>4, <2>1, <3>2, <3>3
  <2>2. ASSUME NEW t \in Terms, shell[t] = "none", t # s
        PROVE  Absent(front'[t], t) /\ Absent(shown'[t], t)
    <3>1. front'[t] = front[t] /\ shown'[t] = shown[t]
      BY <1>4, <2>2
    <3> QED  BY <2>2, <3>1 DEF IInv, Unborn
  <2>3. UNCHANGED <<wire, sendCh, shell>>
    BY <1>1 DEF linkVars, shellVars
  <2> QED  BY <2>1, <2>2, <2>3 DEF IInv, Unborn
<1>9. StreamsInOrder'
  <2>1. ASSUME NEW t \in Terms, Holds(t)
        PROVE  InOrder(t) /\ \A f \in Dials : f # captured[t] => Absent(wire[f], t)
    BY <2>1 DEF IInv, StreamsInOrder
  <2>2. UNCHANGED <<link, wire, sendCh, captured, posted>>
    BY <1>1 DEF linkVars, shellVars
  <2>3. ASSUME NEW t \in Terms, Holds(t) PROVE InOrder(t)'
    <3>1. CASE t # s
      <4>1. front'[t] = front[t] /\ shown'[t] = shown[t]
        BY <1>4, <3>1
      <4> QED  BY <2>1, <2>2, <2>3, <4>1 DEF InOrder
    <3>2. CASE t = s
      <4>1. PICK a, b, c \in 0 .. posted[s] :
              /\ a <= b /\ b <= c
              /\ Within(shown[s], s, 0, a) /\ Within(front[s], s, a, b)
              /\ Within(wire[captured[s]], s, b, c) /\ Within(sendCh, s, c, posted[s])
        BY <2>1, <2>3, <3>2 DEF InOrder
      <4>2. posted[s] \in Nat /\ a \in Nat /\ b \in Nat /\ c \in Nat /\ 0 <= a
        BY <1>2
      <4>3. /\ Within(front'[s], s, a, b)
            /\ Of(m, s) => /\ m.index \in Nat /\ a <= m.index /\ m.index < b
                           /\ Within(front'[s], s, m.index + 1, b)
        BY <1>1, <1>2, <1>4, <4>1, <4>2, WithinTail
      <4> HIDE DEF m
      <4>4. /\ ~Of(m, s) => Within(shown'[s], s, 0, a)
            /\ Of(m, s) => Within(shown'[s], s, 0, m.index + 1)
        BY <1>2, <1>3, <1>4, <4>1, <4>2, <4>3, WithinAppend
      <4>5. CASE Of(m, s)
        <5>1. m.index + 1 \in 0 .. posted[s] /\ m.index + 1 <= b
          BY <4>1, <4>2, <4>3, <4>5
        <5> QED  BY <2>2, <3>2, <4>1, <4>3, <4>4, <4>5, <5>1 DEF InOrder
      <4>6. CASE ~Of(m, s)
        BY <2>2, <3>2, <4>1, <4>3, <4>4, <4>6 DEF InOrder
      <4> QED  BY <4>5, <4>6
    <3> QED  BY <3>1, <3>2
  <2> QED  BY <2>1, <2>2, <2>3 DEF StreamsInOrder, Holds
<1> QED  BY <1>5, <1>6, <1>7, <1>8, <1>9 DEF IInv

(* Steps of a terminal that leave its output where it is. *)
LEMMA TermQuietInv ==
  ASSUME IInv, NEW s \in Terms,
         WriteReturns(s) \/ Ends(s) \/ BrowserLeaves(s) \/ ReaderCloses(s)
  PROVE  IInv'
<1> USE DEF WriteReturns, Ends, BrowserLeaves, ReaderCloses
<1>1. UNCHANGED <<linkVars, captured, front, shown, shellVars>>
  OBVIOUS
<1>2. TypeOK'
  <2>1. /\ term' \in [Terms -> {"idle", "gone"} \cup Listed] /\ done' \in [Terms -> BOOLEAN]
        /\ browser' \in [Terms -> {"none", "open", "closed"}]
    BY DEF IInv, TypeOK, Listed
  <2> QED  BY <1>1, <2>1 DEF IInv, TypeOK, LinkTypeOK, linkVars, shellVars
<1>3. \A t \in Terms : term'[t] = "idle" => term[t] = "idle"
  BY DEF IInv, TypeOK
<1>4. ConnectionsOrdered' /\ Started'
  BY <1>1, <1>3 DEF IInv, ConnectionsOrdered, Started, linkVars, shellVars
<1>5. StreamsInOrder' /\ OwnOutput' /\ Unborn'
  BY <1>1, QueuesKept DEF linkVars, shellVars
<1> QED  BY <1>2, <1>4, <1>5 DEF IInv

------------------------------------------------------------------------------
(* The server's read loop moves the head of the connection to the end of   *)
(* its terminal's Frontend, or drops it.                                   *)
LEMMA DeliverInv == ASSUME IInv, NEW e \in Dials, Deliver(e) PROVE IInv'
<1> DEFINE m == Head(wire[e])
<1>1. /\ wire[e] # <<>> /\ wire' = [wire EXCEPT ![e] = Tail(@)]
      /\ UNCHANGED <<sendCh, agent, conn, writer, link, phase>>
      /\ UNCHANGED <<captured, term, shown, browser, shellVars>>
  BY DEF Deliver, ServerReads
<1>2. /\ wire \in [Dials -> Seq(AnyMessage)] /\ wire[e] \in Seq(AnyMessage)
      /\ front \in [Terms -> Seq(Messages)] /\ posted \in [Terms -> Nat]
      /\ \A t \in Terms : front[t] \in Seq(AnyMessage)
      /\ captured \in [Terms -> {0} \cup Dials]
  BY QueueFacts DEF IInv
<1>3. m \in AnyMessage /\ Tail(wire[e]) \in Seq(AnyMessage)
  BY <1>1, <1>2, SeqFacts
<1>4. m # Register => m \in Messages /\ m.term \in Terms
  BY <1>3 DEF AnyMessage, Messages
<1>5. \A f \in Dials : wire'[f] = IF f = e THEN Tail(wire[e]) ELSE wire[f]
  BY <1>1, <1>2
<1>6. \/ front' = front
      \/ /\ m # Register /\ m.kind = "output" /\ Len(front[m.term]) < FrontCap
         /\ front' = [front EXCEPT ![m.term] = Append(@, m)]
  BY DEF Deliver, Relay
<1>7. done' \in [Terms -> BOOLEAN]
  BY <1>4 DEF Deliver, Tell, IInv, TypeOK
<1> HIDE DEF m
<1>8. \A t \in Terms : front'[t] # front[t] =>
         /\ Of(m, t) /\ m \in Messages /\ m.kind = "output" /\ Len(front[t]) < FrontCap
         /\ front'[t] = Append(front[t], m)
  BY <1>2, <1>4, <1>6 DEF Of
<1>9. front' \in [Terms -> Seq(Messages)] /\ \A t \in Terms : Len(front'[t]) <= FrontCap
  <2>1. \A t \in Terms : front[t] \in Seq(Messages) /\ Len(front[t]) <= FrontCap
    BY DEF IInv, TypeOK
  <2>2. ASSUME NEW t \in Terms, front'[t] # front[t]
        PROVE  front'[t] \in Seq(Messages) /\ Len(front'[t]) <= FrontCap
    <3>1. /\ Append(front[t], m) \in Seq(Messages) /\ Len(front[t]) \in Nat
          /\ Len(Append(front[t], m)) = Len(front[t]) + 1
      BY <1>8, <2>1, <2>2, SeqFacts
    <3>2. Len(front[t]) < FrontCap /\ front'[t] = Append(front[t], m)
      BY <1>8, <2>2
    <3>3. Len(front[t]) + 1 <= FrontCap
      BY <3>1, <3>2
    <3> QED  BY <3>1, <3>2, <3>3
  <2>3. DOMAIN front' = Terms /\ front' = [t \in DOMAIN front' |-> front'[t]]
    BY <1>2, <1>6
  <2> QED  BY <2>1, <2>2, <2>3
<1>10. TypeOK'
  <2>1. wire' \in [Dials -> Seq(Messages \cup {Register})]
    BY <1>1, <1>2, <1>3 DEF AnyMessage
  <2> QED  BY <1>1, <1>7, <1>9, <2>1 DEF IInv, TypeOK, LinkTypeOK, shellVars
<1>11. ConnectionsOrdered' /\ Started'
  BY <1>1 DEF IInv, ConnectionsOrdered, Started, shellVars
<1>12. OwnOutput'
  <2>1. \A t \in Terms :
           /\ \A i \in DOMAIN front[t] : front[t][i].term = t /\ front[t][i].kind = "output"
           /\ \A i \in DOMAIN shown[t] : shown[t][i].term = t /\ shown[t][i].kind = "output"
    BY DEF IInv, OwnOutput
  <2>2. ASSUME NEW t \in Terms, front'[t] # front[t]
        PROVE  \A i \in DOMAIN front'[t] : front'[t][i].term = t /\ front'[t][i].kind = "output"
    <3>1. \A i \in DOMAIN Append(front[t], m) :
             Append(front[t], m)[i] = m \/ (i \in DOMAIN front[t] /\ Append(front[t], m)[i] = front[t][i])
      BY <1>2, AppendFacts
    <3>2. m.term = t /\ m.kind = "output" /\ front'[t] = Append(front[t], m)
      BY <1>8, <2>2 DEF Of
    <3>3. \A i \in DOMAIN Append(front[t], m) :
             Append(front[t], m)[i].term = t /\ Append(front[t], m)[i].kind = "output"
      BY <2>1, <3>1, <3>2
    <3> QED  BY <3>2, <3>3
  <2> QED  BY <1>1, <2>1, <2>2 DEF OwnOutput
<1>13. \A t \in Terms : Absent(wire[e], t) => /\ \A f \in Dials : Absent(wire[f], t) => Absent(wire'[f], t)
                                             /\ front'[t] = front[t]
  <2>1. \A t \in Terms : Absent(wire[e], t) => Absent(Tail(wire[e]), t) /\ ~Of(m, t)
    BY <1>1, <1>2, AbsentKept DEF m
  <2> QED  BY <1>5, <1>8, <2>1
<1>14. Unborn'
  BY <1>1, <1>13 DEF IInv, Unborn, shellVars
<1>15. StreamsInOrder'
  <2>1. ASSUME NEW t \in Terms, Holds(t)
        PROVE  /\ InOrder(t) /\ \A f \in Dials : f # captured[t] => Absent(wire[f], t)
               /\ captured[t] \in Dials
    BY <1>2, <2>1 DEF IInv, StreamsInOrder, Holds
  <2>2. UNCHANGED <<link, sendCh, captured, posted, shown>>
    BY <1>1 DEF shellVars
  <2>3. ASSUME NEW t \in Terms, Holds(t), NEW f \in Dials, f # captured[t]
        PROVE  Absent(wire'[f], t)
    <3>1. CASE f = e
      <4>1. Absent(wire[e], t)
        BY <2>1, <2>3, <3>1
      <4> QED  BY <1>13, <3>1, <4>1
    <3>2. CASE f # e
      BY <1>5, <2>1, <2>3, <3>2
    <3> QED  BY <3>1, <3>2
  <2>4. ASSUME NEW t \in Terms, Holds(t), e # captured[t] PROVE InOrder(t)'
    <3>1. front'[t] = front[t] /\ wire'[captured[t]] = wire[captured[t]]
      BY <1>5, <1>13, <2>1, <2>4
    <3> QED  BY <2>1, <2>2, <2>4, <3>1 DEF InOrder
  <2>5. ASSUME NEW t \in Terms, Holds(t), e = captured[t] PROVE InOrder(t)'
    <3>1. PICK a, b, c \in 0 .. posted[t] :
            /\ a <= b /\ b <= c
            /\ Within(shown[t], t, 0, a) /\ Within(front[t], t, a, b)
            /\ Within(wire[e], t, b, c) /\ Within(sendCh, t, c, posted[t])
      BY <2>1, <2>5 DEF InOrder
    <3>2. posted[t] \in Nat /\ a \in Nat /\ b \in Nat /\ c \in Nat /\ c <= posted[t]
      BY <1>2
    <3>3. /\ Within(wire'[e], t, b, c)
          /\ Of(m, t) => /\ m.index \in Nat /\ b <= m.index /\ m.index < c
                         /\ Within(wire'[e], t, m.index + 1, c)
      BY <1>1, <1>2, <1>5, <3>1, <3>2, WithinTail DEF m
    <3>4. CASE front'[t] = front[t]
      BY <2>2, <2>5, <3>1, <3>3, <3>4 DEF InOrder
    <3>5. CASE front'[t] # front[t]
      <4>1. Of(m, t) /\ front'[t] = Append(front[t], m)
        BY <1>8, <3>5
      <4>2. Within(front'[t], t, a, m.index + 1)
        BY <1>2, <1>3, <3>1, <3>2, <3>3, <4>1, WithinAppend
      <4>3. m.index + 1 \in 0 .. posted[t] /\ a <= m.index + 1 /\ m.index + 1 <= c
        BY <3>1, <3>2, <3>3, <4>1
      <4> QED  BY <2>2, <2>5, <3>1, <3>3, <4>1, <4>2, <4>3 DEF InOrder
    <3> QED  BY <3>4, <3>5
  <2> QED  BY <2>2, <2>3, <2>4, <2>5 DEF StreamsInOrder, Holds
<1> QED  BY <1>10, <1>11, <1>12, <1>14, <1>15 DEF IInv

(* The end of the read loop moves no output. *)
LEMMA UnregisterInv == ASSUME IInv, NEW e \in Dials, Unregister(e) PROVE IInv'
<1>1. /\ phase[e] = "serving" /\ phase' = [phase EXCEPT ![e] = "ended"]
      /\ UNCHANGED <<sendCh, agent, conn, writer, link, wire>>
      /\ UNCHANGED <<captured, term, front, shown, browser, shellVars>>
      /\ done' \in [Terms -> BOOLEAN]
  BY DEF Unregister, ServerReadFails, IInv, TypeOK
<1>2. TypeOK'
  BY <1>1 DEF IInv, TypeOK, LinkTypeOK, shellVars
<1>3. ConnectionsOrdered' /\ Started'
  BY <1>1 DEF IInv, ConnectionsOrdered, Started, TypeOK, LinkTypeOK, shellVars
<1>4. StreamsInOrder' /\ OwnOutput' /\ Unborn'
  BY <1>1, QueuesKept DEF shellVars
<1> QED  BY <1>2, <1>3, <1>4 DEF IInv

------------------------------------------------------------------------------
(* The agent.  A message that is posted is the latest of its terminal.     *)
LEMMA PostInv ==
  ASSUME IInv, NEW s \in Terms, NEW m \in Messages, m.term = s, posted[s] <= m.index, Post(m),
         posted' = [posted EXCEPT ![s] = m.index + 1],
         shell[s] # "none", \A t \in Terms : shell'[t] = "none" => shell[t] = "none",
         UNCHANGED termVars
  PROVE  /\ LinkTypeOK(Messages)' /\ ConnectionsOrdered'
         /\ OwnOutput' /\ Unborn' /\ StreamsInOrder'
<1>1. UNCHANGED <<agent, conn, writer, link, wire, phase, captured, front, shown>>
  BY DEF Post, termVars
<1>2. sendCh' = sendCh \/ (Len(sendCh) < QueueCap /\ sendCh' = Append(sendCh, m))
  BY DEF Post, Enqueue
<1>3. /\ sendCh \in Seq(AnyMessage) /\ posted \in [Terms -> Nat] /\ m \in AnyMessage
      /\ m.index \in Nat /\ (\A t \in Terms : Of(m, t) => t = s)
  BY QueueFacts DEF IInv, AnyMessage, Messages, Of
<1>4. LinkTypeOK(Messages)'
  <2>1. /\ Append(sendCh, m) \in Seq(AnyMessage) /\ Len(sendCh) \in Nat
        /\ Len(Append(sendCh, m)) = Len(sendCh) + 1
    BY <1>3, SeqFacts
  <2>2. sendCh' \in Seq(AnyMessage) /\ Len(sendCh') <= QueueCap
    <3>1. CASE sendCh' = sendCh
      BY <1>3, <3>1 DEF IInv, TypeOK, LinkTypeOK
    <3>2. CASE Len(sendCh) < QueueCap /\ sendCh' = Append(sendCh, m)
      <4>1. Len(sendCh) + 1 <= QueueCap
        BY <2>1, <3>2
      <4> QED  BY <2>1, <3>2, <4>1
    <3> QED  BY <1>2, <3>1, <3>2
  <2> QED  BY <1>1, <2>2 DEF IInv, TypeOK, LinkTypeOK, AnyMessage
<1>5. ConnectionsOrdered' /\ OwnOutput'
  BY <1>1 DEF IInv, ConnectionsOrdered, OwnOutput
<1>6. Unborn'
  <2>1. \A t \in Terms : Absent(sendCh, t) /\ t # s => Absent(Append(sendCh, m), t)
    BY <1>3, AbsentKept
  <2>2. \A t \in Terms : Absent(sendCh, t) /\ t # s => Absent(sendCh', t)
    BY <1>2, <2>1
  <2> QED  BY <1>1, <2>2 DEF IInv, Unborn
<1>7. StreamsInOrder'
  <2>1. ASSUME NEW t \in Terms, Holds(t)
        PROVE  InOrder(t) /\ \A f \in Dials : f # captured[t] => Absent(wire[f], t)
    BY <2>1 DEF IInv, StreamsInOrder
  <2>2. ASSUME NEW t \in Terms, Holds(t) PROVE InOrder(t)'
    <3>1. PICK a, b, c \in 0 .. posted[t] :
            /\ a <= b /\ b <= c
            /\ Within(shown[t], t, 0, a) /\ Within(front[t], t, a, b)
            /\ Within(wire[captured[t]], t, b, c) /\ Within(sendCh, t, c, posted[t])
      BY <2>1, <2>2 DEF InOrder
    <3>2. posted[t] \in Nat /\ a \in Nat /\ b \in Nat /\ c \in Nat /\ c <= posted[t]
      BY <1>3
    <3>3. CASE t # s
      <4>1. Within(Append(sendCh, m), t, c, posted[t])
        BY <1>3, <3>1, <3>2, <3>3, WithinAppend
      <4>2. Within(sendCh', t, c, posted[t]) /\ posted'[t] = posted[t]
        BY <1>2, <1>3, <3>1, <3>3, <4>1
      <4> QED  BY <1>1, <3>1, <4>2 DEF InOrder
    <3>4. CASE t = s
      <4>1. posted'[t] = m.index + 1 /\ posted[t] <= m.index
        BY <1>3, <3>4
      <4>2. Within(Append(sendCh, m), t, c, m.index + 1)
        <5>1. Within(sendCh, t, c, m.index)
          BY <1>3, <3>1, <3>2, <4>1, OwnMessage DEF Within
        <5>2. c <= m.index /\ m.index <= m.index /\ m.index \in Nat
          BY <1>3, <3>2, <4>1
        <5>3. Of(m, t)
          BY <3>4, RegisterAssumption DEF Of
        <5> QED  BY <1>3, <3>2, <5>1, <5>2, <5>3, WithinAppend
      <4>3. Within(sendCh, t, c, m.index + 1)
        BY <1>3, <3>1, <3>2, <4>1, OwnMessage DEF Within
      <4>4. Within(sendCh', t, c, posted'[t])
        BY <1>2, <4>1, <4>2, <4>3
      <4>5. a \in 0 .. posted'[t] /\ b \in 0 .. posted'[t] /\ c \in 0 .. posted'[t]
        BY <1>3, <3>1, <3>2, <4>1
      <4> QED  BY <1>1, <3>1, <4>4, <4>5 DEF InOrder
    <3> QED  BY <3>3, <3>4
  <2> QED  BY <1>1, <2>1, <2>2 DEF StreamsInOrder, Holds
<1> QED  BY <1>4, <1>5, <1>6, <1>7

(* streamShell posts what it read, or the exit. *)
LEMMA StreamInv ==
  ASSUME IInv, NEW s \in Terms, StreamOutput(s) \/ StreamEnds(s)
  PROVE  IInv'
<1>1. shell[s] \in {"running", "exited"} /\ posted[s] <= MaxOutput[s] /\ posted[s] \in Nat
  BY QueueFacts DEF StreamOutput, StreamEnds, IInv, Started
<1>2. ASSUME NEW m \in Messages, m.term = s, posted[s] <= m.index, Post(m),
             posted' = [posted EXCEPT ![s] = m.index + 1], UNCHANGED termVars,
             \/ shell' = shell /\ m.index + 1 <= MaxOutput[s]
             \/ shell' = [shell EXCEPT ![s] = "deleting"],
             lost' \in SUBSET Terms
      PROVE  IInv'
  <2>1. \A t \in Terms : shell'[t] = "none" => shell[t] = "none"
    BY <1>1, <1>2 DEF IInv, TypeOK
  <2>2. /\ LinkTypeOK(Messages)' /\ ConnectionsOrdered'
        /\ OwnOutput' /\ Unborn' /\ StreamsInOrder'
    BY <1>1, <1>2, <2>1, PostInv
  <2>3. m.index \in Nat
    BY DEF Messages
  <2>4. TypeOK'
    BY <1>2, <2>2, <2>3 DEF IInv, TypeOK, termVars, InMap
  <2>5. Started'
    BY <1>1, <1>2 DEF IInv, Started, TypeOK, termVars
  <2> QED  BY <2>2, <2>4, <2>5 DEF IInv
<1>3. CASE StreamOutput(s)
  <2> DEFINE m == Out(s, posted[s])
  <2>1. m \in Messages /\ m.term = s /\ m.index = posted[s]
    BY <1>1 DEF Out, Messages
  <2>2. /\ Post(m) /\ posted' = [posted EXCEPT ![s] = posted[s] + 1]
        /\ posted[s] < MaxOutput[s] /\ shell' = shell /\ lost' = lost /\ UNCHANGED termVars
    BY <1>3 DEF StreamOutput
  <2>3. posted[s] + 1 <= MaxOutput[s] /\ lost' \in SUBSET Terms
    BY <1>1, <2>2 DEF IInv, TypeOK
  <2>4. posted' = [posted EXCEPT ![s] = m.index + 1] /\ m.index + 1 <= MaxOutput[s]
    BY <2>1, <2>2, <2>3
  <2>5. posted[s] <= m.index
    BY <1>1, <2>1
  <2> HIDE DEF m
  <2> QED  BY <1>2, <2>1, <2>2, <2>3, <2>4, <2>5
<1>4. CASE StreamEnds(s)
  <2> DEFINE m == Exit(s)
  <2>1. m \in Messages /\ m.term = s /\ m.index = MaxOutput[s]
    BY DEF Exit, Messages
  <2>2. /\ Post(m) /\ posted' = [posted EXCEPT ![s] = MaxOutput[s] + 1]
        /\ shell' = [shell EXCEPT ![s] = "deleting"] /\ UNCHANGED termVars
    BY <1>4 DEF StreamEnds
  <2>3. lost' \in SUBSET Terms
    BY <1>4 DEF StreamEnds, IInv, TypeOK
  <2> HIDE DEF m
  <2> QED  BY <1>1, <1>2, <2>1, <2>2, <2>3
<1> QED  BY <1>3, <1>4

(* Steps of a shell that post nothing. *)
LEMMA ShellQuietInv ==
  ASSUME IInv, NEW s \in Terms, HandleStart(s) \/ ShellEnds(s) \/ Deleted(s)
  PROVE  IInv'
<1>1. /\ UNCHANGED <<linkVars, termVars, posted, lost>>
      /\ \E v \in {"running", "exited", "gone"} :
            /\ shell' = [shell EXCEPT ![s] = v]
            /\ v = "running" => shell[s] = "asked"
            /\ v = "exited" => shell[s] = "running"
      /\ shell[s] # "none"
  BY DEF HandleStart, StartArrives, ShellEnds, Deleted
<1>2. TypeOK'
  BY <1>1 DEF IInv, TypeOK, LinkTypeOK, linkVars, termVars, InMap
<1>3. ConnectionsOrdered'
  BY <1>1 DEF IInv, ConnectionsOrdered, linkVars, termVars
<1>4. Started'
  BY <1>1 DEF IInv, Started, TypeOK, termVars
<1>5. \A t \in Terms : shell'[t] = "none" => shell[t] = "none"
  BY <1>1 DEF IInv, TypeOK
<1>6. StreamsInOrder' /\ OwnOutput' /\ Unborn'
  BY <1>1, <1>5, QueuesKept DEF linkVars, termVars
<1> QED  BY <1>2, <1>3, <1>4, <1>6 DEF IInv

(* When the agent dies its connection does not hold any more. *)
LEMMA RaceAbortsInv == ASSUME IInv, NEW s \in Terms, RaceAborts(s) PROVE IInv'
<1>1. /\ shell' = [t \in Terms |-> IF shell[t] = "none" THEN "none" ELSE "gone"]
      /\ sendCh' = <<>> /\ agent' = "away" /\ writer' = "stopped"
      /\ link' = [link EXCEPT ![conn] = "down"]
      /\ UNCHANGED <<conn, phase, termVars, posted, lost>>
  BY DEF RaceAborts
<1>2. PICK n \in 0 .. Len(wire[conn]) : wire' = [wire EXCEPT ![conn] = SubSeq(@, 1, n)]
  BY DEF RaceAborts
<1>3. /\ wire \in [Dials -> Seq(AnyMessage)] /\ captured \in [Terms -> {0} \cup Dials]
      /\ link \in [Dials -> {"none", "up", "down"}]
  BY QueueFacts DEF IInv
<1>4. /\ wire' \in [Dials -> Seq(AnyMessage)]
      /\ \A t \in Terms, e \in Dials : Absent(wire[e], t) => Absent(wire'[e], t)
  <2>1. CASE conn \in Dials
    <3>1. SubSeq(wire[conn], 1, n) \in Seq(AnyMessage)
      BY <1>2, <1>3, <2>1, SeqFacts
    <3>2. \A t \in Terms : Absent(wire[conn], t) => Absent(SubSeq(wire[conn], 1, n), t)
      BY <1>2, <1>3, <2>1, AbsentKept
    <3>3. \A e \in Dials : wire'[e] = IF e = conn THEN SubSeq(wire[conn], 1, n) ELSE wire[e]
      BY <1>2, <1>3
    <3> QED  BY <1>2, <1>3, <3>1, <3>2, <3>3
  <2>2. CASE conn \notin Dials
    <3>1. wire' = wire
      BY <1>2, <1>3, <2>2
    <3> QED  BY <1>3, <3>1
  <2> QED  BY <2>1, <2>2
<1>5. \A e \in Dials : link'[e] # "up"
  BY <1>1, <1>3 DEF IInv, ConnectionsOrdered
<1>6. TypeOK'
  <2>1. sendCh' \in Seq(AnyMessage) /\ Len(sendCh') <= QueueCap
    BY <1>1, EmptySeq
  <2> QED  BY <1>1, <1>4, <2>1 DEF IInv, TypeOK, LinkTypeOK, termVars, InMap, AnyMessage
<1>7. ConnectionsOrdered'
  BY <1>1, <1>5 DEF IInv, ConnectionsOrdered, termVars
<1>8. Started' /\ OwnOutput'
  BY <1>1 DEF IInv, Started, OwnOutput, termVars
<1>9. Unborn'
  <2>1. \A t \in Terms : Absent(sendCh', t)
    BY <1>1 DEF Absent
  <2> QED  BY <1>1, <1>4, <2>1 DEF IInv, Unborn, termVars
<1>10. StreamsInOrder'
  <2>1. \A t \in Terms : ~Holds(t)'
    BY <1>1, <1>3, <1>5 DEF Holds, termVars
  <2> QED  BY <2>1 DEF StreamsInOrder
<1> QED  BY <1>6, <1>7, <1>8, <1>9, <1>10 DEF IInv

------------------------------------------------------------------------------
(* Every step keeps the invariant. *)
LEMMA StepInv == IInv /\ [Next]_vars => IInv'
<1> SUFFICES ASSUME IInv, [Next]_vars PROVE IInv'
  OBVIOUS
<1>1. CASE Relink /\ UNCHANGED <<termVars, shellVars>>
  BY <1>1, RelinkInv
<1>2. ASSUME NEW e \in Dials, Deliver(e) \/ Unregister(e) PROVE IInv'
  BY <1>2, DeliverInv, UnregisterInv
<1>3. ASSUME NEW s \in Terms, TermStep(s) PROVE IInv'
  BY <1>3, OpenInv, TakeOutputInv, TermQuietInv DEF TermStep
<1>4. ASSUME NEW s \in Terms, ShellStep(s) PROVE IInv'
  BY <1>4, StreamInv, ShellQuietInv, RaceAbortsInv DEF ShellStep
<1>5. CASE UNCHANGED vars
  <2>1. UNCHANGED <<sendCh, agent, conn, writer, link, wire, phase, termVars, shellVars>>
    BY <1>5 DEF vars, linkVars
  <2>2. TypeOK' /\ ConnectionsOrdered' /\ Started'
    BY <2>1 DEF IInv, TypeOK, LinkTypeOK, ConnectionsOrdered, Started, termVars, shellVars
  <2>3. StreamsInOrder' /\ OwnOutput' /\ Unborn'
    BY <2>1, QueuesKept DEF termVars, shellVars
  <2> QED  BY <2>2, <2>3 DEF IInv
<1> QED  BY <1>1, <1>2, <1>3, <1>4, <1>5 DEF Next

(* Of the messages of a terminal whose connection holds, each queue on the *)
(* way has a later part than the one before it, in the order in which the  *)
(* shell wrote it (ws_client.go:200-211, agent_ws.go:102-117).             *)
THEOREM RelayInOrder == Spec => []IInv
<1>1. Init => IInv
  BY InitInv
<1>2. IInv /\ [Next]_vars => IInv'
  BY StepInv
<1> QED  BY <1>1, <1>2, PTL DEF Spec

(* The state of the agent's shells, the channels and the terminals' main   *)
(* loops is well typed, and no channel exceeds its capacity                *)
(* (agent_ws.go:114-117).                                                  *)
THEOREM RelayTypes == Spec => []TypeOK
<1>1. IInv => TypeOK
  BY DEF IInv
<1> QED  BY <1>1, RelayInOrder, PTL

(* A terminal shows its own shell's output only, and in order as long as   *)
(* its connection holds, whatever was dropped on the way                   *)
(* (terminal.go:98-107).                                                   *)
THEOREM ShownInOrder == Spec => []OutputInOrder
<1>1. ASSUME IInv PROVE OutputInOrder
  <2>1. ASSUME NEW s \in Terms, Holds(s), NEW i \in DOMAIN shown[s], NEW j \in DOMAIN shown[s], i < j
        PROVE  shown[s][i].index < shown[s][j].index
    <3>1. \E a \in 0 .. posted[s] : Within(shown[s], s, 0, a)
      BY <1>1, <2>1 DEF IInv, StreamsInOrder, InOrder
    <3>2. shown[s] \in Seq(Messages)
      BY <1>1, QueueFacts DEF IInv
    <3>3. shown[s][i] \in Messages /\ shown[s][j] \in Messages
      BY <2>1, <3>2
    <3>4. Of(shown[s][i], s) /\ Of(shown[s][j], s)
      BY <1>1, <3>3, RegisterAssumption DEF IInv, OwnOutput, Of
    <3> QED  BY <2>1, <3>1, <3>4 DEF Within
  <2>2. \A s \in Terms : \A i \in DOMAIN shown[s] :
           shown[s][i].term = s /\ shown[s][i].kind = "output"
    BY <1>1 DEF IInv, OwnOutput
  <2> QED  BY <2>1, <2>2 DEF OutputInOrder
<1> QED  BY <1>1, RelayInOrder, PTL

------------------------------------------------------------------------------
(* The refinement of LossyStream.  What a queue holds of a terminal when   *)
(* its head goes, ...                                                      *)
LEMMA IndicesTail ==
  ASSUME NEW q \in Seq(AnyMessage), q # <<>>, NEW s, Distinct(q, s)
  PROVE  /\ Distinct(Tail(q), s)
         /\ Indices(Tail(q), s) \subseteq Indices(q, s)
         /\ Of(Head(q), s) => /\ Head(q).index \in Indices(q, s)
                              /\ Indices(Tail(q), s) = Indices(q, s) \ {Head(q).index}
         /\ ~Of(Head(q), s) => Indices(Tail(q), s) = Indices(q, s)
<1>1. /\ Len(q) \in Nat /\ Len(q) >= 1 /\ DOMAIN q = 1 .. Len(q)
      /\ Head(q) = q[1] /\ DOMAIN Tail(q) = 1 .. Len(q) - 1
      /\ \A i \in 1 .. Len(q) - 1 : Tail(q)[i] = q[i + 1]
  BY TailFacts
<1>2. \A i \in 1 .. Len(q) - 1 : i + 1 \in 1 .. Len(q) /\ i + 1 # 1
  BY <1>1
<1>3. \A i \in 1 .. Len(q) : i = 1 \/ (i - 1 \in 1 .. Len(q) - 1 /\ (i - 1) + 1 = i)
  BY <1>1
<1>4. \A i, j \in 1 .. Len(q) : Of(q[i], s) /\ Of(q[j], s) /\ q[i].index = q[j].index => i = j
  BY <1>1 DEF Distinct
<1>5. Distinct(Tail(q), s)
  <2>1. ASSUME NEW i \in 1 .. Len(q) - 1, NEW j \in 1 .. Len(q) - 1,
               Of(q[i + 1], s), Of(q[j + 1], s), q[i + 1].index = q[j + 1].index
        PROVE  i = j
    <3>1. i + 1 = j + 1
      BY <1>2, <1>4, <2>1
    <3> QED  BY <1>1, <3>1
  <2> QED  BY <1>1, <2>1 DEF Distinct
<1>6. Indices(Tail(q), s) = {q[i].index : i \in {j \in 2 .. Len(q) : Of(q[j], s)}}
  <2>1. ASSUME NEW x \in Indices(Tail(q), s)
        PROVE  \E i \in 2 .. Len(q) : Of(q[i], s) /\ x = q[i].index
    <3>1. PICK i \in 1 .. Len(q) - 1 : Of(Tail(q)[i], s) /\ x = Tail(q)[i].index
      BY <1>1, <2>1 DEF Indices
    <3>2. i + 1 \in 2 .. Len(q)
      BY <1>1
    <3> QED  BY <1>1, <3>1, <3>2
  <2>2. ASSUME NEW i \in 2 .. Len(q), Of(q[i], s)
        PROVE  q[i].index \in Indices(Tail(q), s)
    <3>1. i - 1 \in 1 .. Len(q) - 1 /\ (i - 1) + 1 = i
      BY <1>1
    <3>2. Tail(q)[i - 1] = q[i]
      BY <1>1, <3>1
    <3> QED  BY <1>1, <2>2, <3>1, <3>2 DEF Indices
  <2> QED  BY <2>1, <2>2
<1>7. Indices(q, s) = {q[i].index : i \in {j \in 1 .. Len(q) : Of(q[j], s)}}
  BY <1>1 DEF Indices
<1>8. 1 \in 1 .. Len(q) /\ \A i \in 1 .. Len(q) : i = 1 \/ i \in 2 .. Len(q)
  BY <1>1
<1>9. \A i \in 2 .. Len(q) : i \in 1 .. Len(q) /\ i # 1
  BY <1>1
<1>10. Of(Head(q), s) => \A i \in 2 .. Len(q) : Of(q[i], s) => q[i].index # Head(q).index
  BY <1>1, <1>4, <1>8, <1>9
<1> QED  BY <1>1, <1>5, <1>6, <1>7, <1>8, <1>9, <1>10

(* when a message is put at its end, ...                                   *)
LEMMA IndicesAppend ==
  ASSUME NEW q \in Seq(AnyMessage), NEW m, NEW s
  PROVE  /\ Of(m, s) => Indices(Append(q, m), s) = Indices(q, s) \cup {m.index}
         /\ ~Of(m, s) => Indices(Append(q, m), s) = Indices(q, s)
         /\ Distinct(q, s) /\ (Of(m, s) => m.index \notin Indices(q, s))
               => Distinct(Append(q, m), s)
<1> DEFINE p == Append(q, m)
<1>1. /\ Len(q) \in Nat /\ DOMAIN q = 1 .. Len(q) /\ DOMAIN p = 1 .. Len(q) + 1
      /\ p[Len(q) + 1] = m /\ \A i \in 1 .. Len(q) : p[i] = q[i]
  BY AppendFacts
<1> HIDE DEF p
<1>2. /\ \A i \in 1 .. Len(q) + 1 : i \in 1 .. Len(q) \/ i = Len(q) + 1
      /\ \A i \in 1 .. Len(q) : i \in 1 .. Len(q) + 1
      /\ Len(q) + 1 \in 1 .. Len(q) + 1
  BY <1>1
<1>3. Indices(q, s) = {q[i].index : i \in {j \in 1 .. Len(q) : Of(q[j], s)}}
  BY <1>1 DEF Indices
<1>4. Indices(p, s) = {p[i].index : i \in {j \in 1 .. Len(q) + 1 : Of(p[j], s)}}
  BY <1>1 DEF Indices
<1>5. Of(m, s) => Indices(p, s) = Indices(q, s) \cup {m.index}
  BY <1>1, <1>2, <1>3, <1>4
<1>6. ~Of(m, s) => Indices(p, s) = Indices(q, s)
  BY <1>1, <1>2, <1>3, <1>4
<1>7. ASSUME Distinct(q, s), Of(m, s) => m.index \notin Indices(q, s)
      PROVE  Distinct(p, s)
  <2>1. ASSUME NEW i \in 1 .. Len(q) + 1, NEW j \in 1 .. Len(q) + 1,
               Of(p[i], s), Of(p[j], s), p[i].index = p[j].index
        PROVE  i = j
    <3>1. CASE i \in 1 .. Len(q) /\ j \in 1 .. Len(q)
      BY <1>1, <1>7, <2>1, <3>1 DEF Distinct
    <3>2. CASE i = Len(q) + 1 /\ j \in 1 .. Len(q)
      BY <1>1, <1>3, <1>7, <2>1, <3>2
    <3>3. CASE j = Len(q) + 1 /\ i \in 1 .. Len(q)
      BY <1>1, <1>3, <1>7, <2>1, <3>3
    <3> QED  BY <1>2, <3>1, <3>2, <3>3
  <2> QED  BY <1>1, <2>1 DEF Distinct
<1> QED  BY <1>5, <1>6, <1>7 DEF p

(* and when it loses its end.                                              *)
LEMMA IndicesSubSeq ==
  ASSUME NEW q \in Seq(AnyMessage), NEW n \in 0 .. Len(q), NEW s, Distinct(q, s)
  PROVE  /\ Distinct(SubSeq(q, 1, n), s)
         /\ Indices(SubSeq(q, 1, n), s) \subseteq Indices(q, s)
<1>1. /\ Len(q) \in Nat /\ DOMAIN q = 1 .. Len(q) /\ DOMAIN SubSeq(q, 1, n) = 1 .. n
      /\ \A i \in 1 .. n : SubSeq(q, 1, n)[i] = q[i]
  OBVIOUS
<1>2. \A i \in 1 .. n : i \in 1 .. Len(q)
  BY <1>1
<1> QED  BY <1>1, <1>2 DEF Distinct, Indices

(* The queues are those of the places.                                     *)
LEMMA PlaceFacts ==
  ASSUME TypeOK, NEW s \in Terms
  PROVE  /\ \A p \in Places : Queue(p, s) \in Seq(AnyMessage)
         /\ 0 \in Places /\ Queue(0, s) = front[s]
         /\ \A e \in Dials : e \in Places /\ e # 0 /\ e # MaxDials + 1 /\ Queue(e, s) = wire[e]
         /\ MaxDials + 1 \in Places /\ MaxDials + 1 # 0 /\ Queue(MaxDials + 1, s) = sendCh
         /\ \A p \in Places : p = 0 \/ p \in Dials \/ p = MaxDials + 1
<1>1. /\ sendCh \in Seq(AnyMessage) /\ wire \in [Dials -> Seq(AnyMessage)]
      /\ front[s] \in Seq(AnyMessage)
  BY QueueFacts
<1>2. \A p \in Places : p = 0 \/ p \in Dials \/ p = MaxDials + 1
  BY DEF Places, Dials
<1>3. \A e \in Dials : e \in Places /\ e # 0 /\ e # MaxDials + 1
  BY DEF Places, Dials
<1>4. 0 \in Places /\ MaxDials + 1 \in Places /\ MaxDials + 1 # 0 /\ MaxDials + 1 \notin Dials
      /\ 0 \notin Dials
  BY DEF Places, Dials
<1> QED  BY <1>1, <1>2, <1>3, <1>4 DEF Queue

(* A queue from which messages are lost, or that another terminal's        *)
(* message enters.                                                         *)
Shrunk(q, r, s) ==
    \/ r = q \/ r = <<>>
    \/ q # <<>> /\ r = Tail(q)
    \/ \E n \in 0 .. Len(q) : r = SubSeq(q, 1, n)
    \/ \E m : ~Of(m, s) /\ r = Append(q, m)

LEMMA ShrunkFacts ==
  ASSUME NEW q \in Seq(AnyMessage), NEW r, NEW s, Distinct(q, s), Shrunk(q, r, s)
  PROVE  Distinct(r, s) /\ Indices(r, s) \subseteq Indices(q, s)
<1>1. CASE r = <<>>
  <2>1. DOMAIN r = {}
    BY <1>1
  <2> QED  BY <2>1 DEF Distinct, Indices
<1>2. CASE q # <<>> /\ r = Tail(q)
  BY <1>2, IndicesTail
<1>3. CASE \E n \in 0 .. Len(q) : r = SubSeq(q, 1, n)
  BY <1>3, IndicesSubSeq
<1>4. CASE \E m : ~Of(m, s) /\ r = Append(q, m)
  BY <1>4, IndicesAppend
<1> QED  BY <1>1, <1>2, <1>3, <1>4 DEF Shrunk

(* A number that leaves the other places may enter one.                    *)
LEMMA SingleMoves ==
  ASSUME NEW s \in Terms, Single(s), NEW at \in Places, NEW new,
         posted[s] \in Nat, posted'[s] \in Nat, posted[s] <= posted'[s],
         new \subseteq 0 .. posted'[s] - 1,
         \A p \in Places : Distinct(Queue(p, s)', s),
         \A p \in Places : p # at => Indices(Queue(p, s)', s) \subseteq Indices(Queue(p, s), s) \ new,
         Indices(Queue(at, s)', s) \subseteq Indices(Queue(at, s), s) \cup new
  PROVE  Single(s)' /\ Way(s)' \subseteq Way(s) \cup new
<1>1. \A p \in Places : /\ Distinct(Queue(p, s), s)
                         /\ Indices(Queue(p, s), s) \subseteq 0 .. posted[s] - 1
  BY DEF Single
<1>2. \A p, r \in Places : p # r => Indices(Queue(p, s), s) \cap Indices(Queue(r, s), s) = {}
  BY DEF Single
<1>3. 0 .. posted[s] - 1 \subseteq 0 .. posted'[s] - 1
  OBVIOUS
<1>4. \A p \in Places : Indices(Queue(p, s)', s) \subseteq 0 .. posted'[s] - 1
  BY <1>1, <1>3
<1>5. \A p, r \in Places : p # r => Indices(Queue(p, s)', s) \cap Indices(Queue(r, s)', s) = {}
  <2>1. ASSUME NEW p \in Places, NEW r \in Places, p # r, NEW x,
               x \in Indices(Queue(p, s)', s), x \in Indices(Queue(r, s)', s)
        PROVE  FALSE
    <3>1. CASE p # at /\ r # at
      BY <1>2, <2>1, <3>1
    <3>2. CASE p = at /\ r # at
      BY <1>2, <2>1, <3>2
    <3>3. CASE p # at /\ r = at
      BY <1>2, <2>1, <3>3
    <3> QED  BY <2>1, <3>1, <3>2, <3>3
  <2> QED  BY <2>1
<1>6. Single(s)'
  BY <1>4, <1>5 DEF Single
<1>7. Way(s)' \subseteq Way(s) \cup new
  BY DEF Way
<1> QED  BY <1>6, <1>7

(* Nothing that a terminal has under way is doubled by a loss, ...         *)
LEMMA SingleShrinks ==
  ASSUME TypeOK, NEW s \in Terms, Single(s), posted'[s] = posted[s],
         \A p \in Places : Shrunk(Queue(p, s), Queue(p, s)', s)
  PROVE  Single(s)' /\ Way(s)' \subseteq Way(s)
<1>1. \A p \in Places : Queue(p, s) \in Seq(AnyMessage) /\ 0 \in Places
  BY PlaceFacts
<1>2. \A p \in Places : Distinct(Queue(p, s), s)
  BY DEF Single
<1>3. \A p \in Places : /\ Distinct(Queue(p, s)', s)
                         /\ Indices(Queue(p, s)', s) \subseteq Indices(Queue(p, s), s)
  BY <1>1, <1>2, ShrunkFacts
<1>4. \A p \in Places : Indices(Queue(p, s)', s) \subseteq 0 .. posted'[s] - 1
  BY <1>3 DEF Single
<1>5. \A p, r \in Places : p # r => Indices(Queue(p, s)', s) \cap Indices(Queue(r, s)', s) = {}
  BY <1>3 DEF Single
<1>6. Single(s)'
  BY <1>3, <1>4, <1>5 DEF Single
<1>7. Way(s)' \subseteq Way(s)
  BY <1>3 DEF Way
<1> QED  BY <1>6, <1>7

(* or by a message that goes from the head of one queue to the end of      *)
(* another.                                                                *)
LEMMA SingleForwards ==
  ASSUME TypeOK, NEW s \in Terms, Single(s), posted'[s] = posted[s],
         NEW from \in Places, NEW at \in Places, from # at,
         Queue(from, s) # <<>>, Queue(from, s)' = Tail(Queue(from, s)),
         \/ Queue(at, s)' = Queue(at, s)
         \/ Queue(at, s)' = Append(Queue(at, s), Head(Queue(from, s))),
         \A p \in Places \ {from, at} : Queue(p, s)' = Queue(p, s)
  PROVE  Single(s)' /\ Way(s)' \subseteq Way(s)
<1> DEFINE m == Head(Queue(from, s))
           new == IF Of(m, s) THEN {m.index} ELSE {}
<1>1. \A p \in Places : /\ Queue(p, s) \in Seq(AnyMessage)
                         /\ Distinct(Queue(p, s), s)
                         /\ Indices(Queue(p, s), s) \subseteq 0 .. posted[s] - 1
  BY PlaceFacts DEF Single
<1>2. \A p \in Places : p # from => Indices(Queue(p, s), s) \cap Indices(Queue(from, s), s) = {}
  BY DEF Single
<1>3. posted[s] \in Nat
  BY QueueFacts
<1>4. /\ Distinct(Tail(Queue(from, s)), s)
      /\ new \subseteq Indices(Queue(from, s), s)
      /\ Indices(Tail(Queue(from, s)), s) = Indices(Queue(from, s), s) \ new
  BY <1>1, IndicesTail
<1>5. /\ Distinct(Append(Queue(at, s), m), s)
      /\ Indices(Append(Queue(at, s), m), s) = Indices(Queue(at, s), s) \cup new
  <2>1. Of(m, s) => m.index \notin Indices(Queue(at, s), s)
    BY <1>2, <1>4
  <2> QED  BY <1>1, <2>1, IndicesAppend
<1> HIDE DEF m, new
<1>6. \A p \in Places : Distinct(Queue(p, s)', s)
  BY <1>1, <1>4, <1>5 DEF m
<1>7. \A p \in Places : p # at => Indices(Queue(p, s)', s) \subseteq Indices(Queue(p, s), s) \ new
  BY <1>2, <1>4
<1>8. Indices(Queue(at, s)', s) \subseteq Indices(Queue(at, s), s) \cup new
  BY <1>5 DEF m
<1>9. new \subseteq Way(s) /\ new \subseteq 0 .. posted'[s] - 1
  BY <1>1, <1>4 DEF Way
<1>10. posted'[s] \in Nat /\ posted[s] <= posted'[s]
  BY <1>3
<1>11. Single(s)' /\ Way(s)' \subseteq Way(s) \cup new
  BY <1>3, <1>6, <1>7, <1>8, <1>9, <1>10, SingleMoves
<1> QED  BY <1>9, <1>11

(* Nothing is under way that was not before when the queues are the same.  *)
LEMMA SingleKept ==
  ASSUME TypeOK, NEW s \in Terms, Single(s), UNCHANGED <<sendCh, wire>>,
         front'[s] = front[s], posted'[s] = posted[s]
  PROVE  Single(s)' /\ Way(s)' = Way(s)
<1>1. \A p \in Places : Queue(p, s)' = Queue(p, s)
  BY DEF Queue
<1>2. Way(s)' = Way(s)
  BY <1>1 DEF Way
<1>3. \A p \in Places : /\ Distinct(Queue(p, s)', s)
                         /\ Indices(Queue(p, s)', s) \subseteq 0 .. posted'[s] - 1
  BY <1>1 DEF Single
<1>4. \A p, r \in Places : p # r => Indices(Queue(p, s)', s) \cap Indices(Queue(r, s)', s) = {}
  BY <1>1 DEF Single
<1> QED  BY <1>2, <1>3, <1>4 DEF Single

(* What is under way of a terminal is numbered.                            *)
LEMMA WayIsNat ==
  ASSUME TypeOK, NEW s \in Terms, Single(s)
  PROVE  Way(s) \subseteq 0 .. posted[s] - 1 /\ Way(s) \subseteq Nat
<1>1. Way(s) \subseteq 0 .. posted[s] - 1
  BY DEF Single, Way
<1>2. 0 .. posted[s] - 1 \subseteq Nat
  BY QueueFacts
<1> QED  BY <1>1, <1>2

(* A step that shows nothing, opens and ends no terminal, puts nothing on  *)
(* the way and makes no connection hold again is one in which the stream   *)
(* loses, if anything.                                                     *)
LEMMA LoseStep ==
  ASSUME TypeOK, NoCopies, UNCHANGED <<posted, shown, captured>>,
         \A s \in Terms : Stage(s)' = Stage(s),
         \A s \in Terms : Single(s)' /\ Way(s)' \subseteq Way(s),
         \A s \in Terms : Holds(s)' => Holds(s)
  PROVE  NoCopies' /\ Stream!Lose
<1>1. NoCopies'
  BY DEF NoCopies
<1>2. \A s \in Terms : Way(s)' \subseteq Nat
  BY WayIsNat DEF NoCopies
<1> DEFINE T == {s \in Terms : Holds(s) /\ ~Holds(s)'}
<1>3. \A s \in T : Line(s) = "intact"
  BY DEF Holds, Line
<1>4. \A s \in Terms : Line(s)' = IF s \in T THEN "broken" ELSE Line(s)
  BY DEF Holds, Line
<1> QED  BY <1>1, <1>2, <1>3, <1>4 DEF Stream!Lose

(* The link loses messages and forwards them.                              *)
LEMMA RelinkOnce ==
  ASSUME OnceInv, Relink, UNCHANGED <<termVars, shellVars>>
  PROVE  NoCopies' /\ Stream!Lose
<1> USE DEF termVars, shellVars
<1>1. /\ TypeOK /\ NoCopies /\ \A s \in Terms : Single(s)
      /\ wire \in [Dials -> Seq(AnyMessage)] /\ sendCh \in Seq(AnyMessage)
      /\ captured \in [Terms -> {0} \cup Dials] /\ conn \in 0 .. MaxDials
      /\ link \in [Dials -> {"none", "up", "down"}]
  BY QueueFacts DEF OnceInv, IInv, NoCopies
<1>2. \A s \in Terms : captured[s] <= conn
  BY DEF OnceInv, IInv, ConnectionsOrdered
<1>3. \A s \in Terms : Stage(s)' = Stage(s)
  BY DEF Stage
<1>4. ASSUME NEW s \in Terms, NEW e \in Dials, UNCHANGED sendCh,
             wire' = [wire EXCEPT ![e] = wire'[e]], Shrunk(wire[e], wire'[e], s)
      PROVE  Single(s)' /\ Way(s)' \subseteq Way(s)
  <2>1. \A f \in Dials : wire'[f] = IF f = e THEN wire'[e] ELSE wire[f]
    BY <1>1, <1>4
  <2>2. \A p \in Places : Shrunk(Queue(p, s), Queue(p, s)', s)
    BY <1>4, <2>1 DEF Queue, Shrunk
  <2> QED  BY <1>1, <2>2, SingleShrinks
<1>5. ASSUME NEW s \in Terms, UNCHANGED wire, Shrunk(sendCh, sendCh', s)
      PROVE  Single(s)' /\ Way(s)' \subseteq Way(s)
  <2>1. \A p \in Places : Shrunk(Queue(p, s), Queue(p, s)', s)
    BY <1>5 DEF Queue, Shrunk
  <2> QED  BY <1>1, <2>1, SingleShrinks
<1>6. ASSUME \A s \in Terms : Single(s)' /\ Way(s)' \subseteq Way(s),
             \A s \in Terms : Holds(s)' => Holds(s)
      PROVE  NoCopies' /\ Stream!Lose
  BY <1>1, <1>3, <1>6, LoseStep
<1>7. CASE Dial
  <2>1. UNCHANGED <<sendCh, wire>> /\ link' = [link EXCEPT ![conn + 1] = "up"]
    BY <1>7 DEF Dial
  <2>2. \A s \in Terms : Holds(s)' => Holds(s)
    <3>1. \A s \in Terms : captured[s] # conn + 1
      BY <1>1, <1>2 DEF Dials
    <3> QED  BY <1>1, <2>1, <3>1 DEF Holds
  <2> QED  BY <1>1, <1>6, <2>1, <2>2, SingleKept
<1>8. CASE SendRegister
  <2>1. UNCHANGED <<wire, link>> /\ (sendCh' = sendCh \/ sendCh' = Append(sendCh, Register))
    BY <1>8 DEF SendRegister, Enqueue
  <2>2. \A s \in Terms : Shrunk(sendCh, sendCh', s)
    BY <2>1 DEF Shrunk, Of
  <2> QED  BY <1>5, <1>6, <2>1, <2>2 DEF Holds
<1>9. CASE WriterSends
  <2>1. /\ sendCh # <<>> /\ sendCh' = Tail(sendCh) /\ link' = link
        /\ wire' = [wire EXCEPT ![conn] = Append(@, Head(sendCh))]
    BY <1>9 DEF WriterSends
  <2>2. ASSUME NEW s \in Terms PROVE Single(s)' /\ Way(s)' \subseteq Way(s)
    <3>1. ASSUME NEW e \in Dials, e = conn PROVE Single(s)' /\ Way(s)' \subseteq Way(s)
      <4>1. \A f \in Dials :
               wire'[f] = IF f = e THEN Append(wire[e], Head(sendCh)) ELSE wire[f]
        BY <1>1, <2>1, <3>1
      <4>2. /\ e \in Places /\ MaxDials + 1 \in Places /\ e # MaxDials + 1
            /\ Queue(MaxDials + 1, s) = sendCh /\ Queue(e, s) = wire[e]
        BY <1>1, PlaceFacts
      <4>3. Queue(MaxDials + 1, s)' = sendCh' /\ Queue(e, s)' = wire'[e]
        <5>1. e # 0 /\ MaxDials + 1 # 0 /\ MaxDials + 1 \notin Dials
          BY DEF Dials
        <5> QED  BY <5>1 DEF Queue
      <4>4. \A p \in Places \ {MaxDials + 1, e} : Queue(p, s)' = Queue(p, s)
        BY <1>1, <4>1, PlaceFacts DEF Queue
      <4>5. /\ Queue(MaxDials + 1, s) # <<>>
            /\ Queue(MaxDials + 1, s)' = Tail(Queue(MaxDials + 1, s))
            /\ Queue(e, s)' = Append(Queue(e, s), Head(Queue(MaxDials + 1, s)))
        BY <2>1, <4>1, <4>2, <4>3
      <4>6. posted'[s] = posted[s] /\ Single(s) /\ TypeOK
        BY <1>1
      <4> QED  BY <4>2, <4>4, <4>5, <4>6, SingleForwards
    <3>2. CASE conn \notin Dials
      <4>1. wire' = wire
        BY <1>1, <2>1, <3>2
      <4> QED  BY <1>5, <2>1, <4>1 DEF Shrunk
    <3> QED  BY <3>1, <3>2
  <2> QED  BY <1>6, <2>1, <2>2 DEF Holds
<1>10. CASE WriterLoses
  <2>1. UNCHANGED <<wire, link>> /\ sendCh # <<>> /\ sendCh' = Tail(sendCh)
    BY <1>10 DEF WriterLoses
  <2> QED  BY <1>5, <1>6, <2>1 DEF Holds, Shrunk
<1>11. CASE ConnectReturns \/ WriterStops
  <2>1. UNCHANGED <<sendCh, wire, link>>
    BY <1>11 DEF ConnectReturns, WriterStops
  <2> QED  BY <1>1, <1>6, <2>1, SingleKept DEF Holds
<1>12. ASSUME NEW e \in Dials, LinkBreaks(e) PROVE NoCopies' /\ Stream!Lose
  <2>1. PICK n \in 0 .. Len(wire[e]) : wire' = [wire EXCEPT ![e] = SubSeq(@, 1, n)]
    BY <1>12 DEF LinkBreaks
  <2>2. UNCHANGED sendCh /\ link' = [link EXCEPT ![e] = "down"]
    BY <1>12 DEF LinkBreaks
  <2>3. \A s \in Terms : Shrunk(wire[e], wire'[e], s) /\ wire' = [wire EXCEPT ![e] = wire'[e]]
    BY <1>1, <2>1 DEF Shrunk
  <2>4. \A s \in Terms : Holds(s)' => Holds(s)
    BY <1>1, <2>2 DEF Holds
  <2> QED  BY <1>4, <1>6, <2>2, <2>3, <2>4
<1>13. ASSUME NEW e \in Dials, Accept(e) \/ Refuse(e) PROVE NoCopies' /\ Stream!Lose
  <2>1. /\ UNCHANGED sendCh
        /\ wire' = [wire EXCEPT ![e] = wire'[e]]
        /\ wire'[e] = <<>> \/ (wire[e] # <<>> /\ wire'[e] = Tail(wire[e]))
        /\ link' = link \/ link' = [link EXCEPT ![e] = "down"]
    BY <1>1, <1>13 DEF Accept, Refuse
  <2>2. \A s \in Terms : Shrunk(wire[e], wire'[e], s)
    BY <2>1 DEF Shrunk
  <2>3. \A s \in Terms : Holds(s)' => Holds(s)
    BY <1>1, <2>1 DEF Holds
  <2> QED  BY <1>4, <1>6, <2>1, <2>2, <2>3
<1> QED  BY <1>7, <1>8, <1>9, <1>10, <1>11, <1>12, <1>13 DEF Relink

(* Steps in which nothing of the terminals' output moves.                  *)
LEMMA QuietOnce ==
  ASSUME OnceInv,
         \/ \E s \in Terms :
              \/ WriteReturns(s) \/ BrowserLeaves(s) \/ ReaderCloses(s)
              \/ HandleStart(s) \/ ShellEnds(s) \/ Deleted(s)
         \/ \E e \in Dials : Unregister(e)
  PROVE  NoCopies' /\ Stream!Lose
<1> USE DEF WriteReturns, BrowserLeaves, ReaderCloses, HandleStart, ShellEnds, Deleted,
            Unregister, ServerReadFails, linkVars, termVars, shellVars
<1>1. UNCHANGED <<sendCh, wire, link, captured, front, shown, posted>>
  OBVIOUS
<1>2. \A t \in Terms : Stage(t)' = Stage(t)
  BY DEF Stage, OnceInv, IInv, TypeOK
<1>3. TypeOK /\ NoCopies /\ \A t \in Terms : Single(t)
  BY DEF OnceInv, IInv, NoCopies
<1>4. \A t \in Terms : Single(t)' /\ Way(t)' \subseteq Way(t)
  BY <1>1, <1>3, SingleKept
<1>5. \A t \in Terms : Holds(t)' => Holds(t)
  BY <1>1 DEF Holds
<1> QED  BY <1>1, <1>2, <1>3, <1>4, <1>5, LoseStep

(* The death of the agent loses all that the server has not received.      *)
LEMMA RaceAbortsOnce ==
  ASSUME OnceInv, NEW s \in Terms, RaceAborts(s)
  PROVE  NoCopies' /\ Stream!Lose
<1>1. /\ sendCh' = <<>> /\ link' = [link EXCEPT ![conn] = "down"]
      /\ UNCHANGED <<captured, term, front, shown, posted>>
  BY DEF RaceAborts, termVars
<1>2. PICK n \in 0 .. Len(wire[conn]) : wire' = [wire EXCEPT ![conn] = SubSeq(@, 1, n)]
  BY DEF RaceAborts
<1>3. /\ TypeOK /\ NoCopies /\ \A t \in Terms : Single(t)
      /\ wire \in [Dials -> Seq(AnyMessage)]
      /\ captured \in [Terms -> {0} \cup Dials] /\ link \in [Dials -> {"none", "up", "down"}]
  BY QueueFacts DEF OnceInv, IInv, NoCopies
<1>4. \A e \in Dials : wire'[e] = IF e = conn THEN SubSeq(wire[e], 1, n) ELSE wire[e]
  BY <1>2, <1>3
<1>5. \A t \in Terms : \A p \in Places : Shrunk(Queue(p, t), Queue(p, t)', t)
  BY <1>1, <1>2, <1>4 DEF Queue, Shrunk
<1>6. \A t \in Terms : Single(t)' /\ Way(t)' \subseteq Way(t)
  BY <1>1, <1>3, <1>5, SingleShrinks
<1>7. \A t \in Terms : Stage(t)' = Stage(t) /\ (Holds(t)' => Holds(t))
  BY <1>1, <1>3 DEF Stage, Holds
<1> QED  BY <1>1, <1>3, <1>6, <1>7, LoseStep

(* The read loop takes a message from a connection, and at most puts it    *)
(* into the Frontend of its terminal.                                      *)
LEMMA DeliverOnce ==
  ASSUME OnceInv, NEW e \in Dials, Deliver(e)
  PROVE  NoCopies' /\ Stream!Lose
<1>1. /\ wire[e] # <<>> /\ wire' = [wire EXCEPT ![e] = Tail(@)]
      /\ UNCHANGED <<sendCh, link, captured, term, shown, posted>>
  BY DEF Deliver, ServerReads, shellVars
<1>2. /\ TypeOK /\ NoCopies /\ \A t \in Terms : Single(t)
      /\ wire \in [Dials -> Seq(AnyMessage)] /\ front \in [Terms -> Seq(Messages)]
  BY QueueFacts DEF OnceInv, IInv, NoCopies
<1>3. \A t \in Terms : front'[t] = front[t] \/ front'[t] = Append(front[t], Head(wire[e]))
  <2> DEFINE m == Head(wire[e])
  <2>1. front' = front \/ front' = [front EXCEPT ![m.term] = Append(@, m)]
    BY DEF Deliver, Relay
  <2> HIDE DEF m
  <2>2. \A t \in Terms : front'[t] = front[t] \/ front'[t] = Append(front[t], m)
    BY <1>2, <2>1
  <2> QED  BY <2>2 DEF m
<1>4. \A f \in Dials : wire'[f] = IF f = e THEN Tail(wire[e]) ELSE wire[f]
  BY <1>1, <1>2
<1>5. ASSUME NEW t \in Terms PROVE Single(t)' /\ Way(t)' \subseteq Way(t)
  <2>1. /\ e \in Places /\ 0 \in Places /\ e # 0
        /\ Queue(0, t) = front[t] /\ Queue(e, t) = wire[e]
    BY <1>2, PlaceFacts
  <2>2. Queue(0, t)' = front'[t] /\ Queue(e, t)' = wire'[e]
    BY <2>1 DEF Queue
  <2>3. \A p \in Places \ {e, 0} : Queue(p, t)' = Queue(p, t)
    BY <1>1, <1>4 DEF Queue
  <2>4. /\ Queue(e, t) # <<>> /\ Queue(e, t)' = Tail(Queue(e, t))
        /\ \/ Queue(0, t)' = Queue(0, t)
           \/ Queue(0, t)' = Append(Queue(0, t), Head(Queue(e, t)))
    BY <1>1, <1>3, <1>4, <2>1, <2>2
  <2>5. posted'[t] = posted[t] /\ Single(t) /\ TypeOK
    BY <1>1, <1>2
  <2> QED  BY <2>1, <2>3, <2>4, <2>5, SingleForwards
<1>6. \A t \in Terms : Stage(t)' = Stage(t) /\ (Holds(t)' => Holds(t))
  BY <1>1 DEF Stage, Holds
<1> QED  BY <1>1, <1>2, <1>5, <1>6, LoseStep

(* A terminal that opens has a line from then on.                          *)
LEMMA OpenOnce ==
  ASSUME OnceInv, NEW s \in Terms, Open(s)
  PROVE  NoCopies' /\ Stream!Open(s)
<1>1. PICK e \in Dials : captured' = [captured EXCEPT ![s] = e]
  BY DEF Open
<1>2. /\ term[s] = "idle" /\ term' = [term EXCEPT ![s] = "streaming"]
      /\ UNCHANGED <<sendCh, wire, link, front, shown, posted>>
  BY DEF Open, linkVars
<1>3. /\ TypeOK /\ NoCopies /\ \A t \in Terms : Single(t)
      /\ captured \in [Terms -> {0} \cup Dials]
      /\ term \in [Terms -> {"idle", "gone"} \cup Listed]
  BY QueueFacts DEF OnceInv, IInv, NoCopies, TypeOK
<1>4. \A t \in Terms : Single(t)' /\ Way(t)' = Way(t)
  BY <1>2, <1>3, SingleKept
<1>5. Stage(s) = "new" /\ \A t \in Terms : Stage(t)' = IF t = s THEN "open" ELSE Stage(t)
  BY <1>2, <1>3 DEF Stage
<1>6. \A t \in Terms \ {s} : Line(t)' = Line(t)
  BY <1>1, <1>2, <1>3 DEF Line
<1>7. Line(s)' \in {"intact", "broken"}
  BY <1>1, <1>2, <1>3 DEF Line, Dials
<1>8. NoCopies'
  BY <1>4 DEF NoCopies
<1>9. [t \in Terms |-> Line(t)'] = [[t \in Terms |-> Line(t)] EXCEPT ![s] = Line(s)']
  BY <1>6
<1>10. [t \in Terms |-> Stage(t)'] = [[t \in Terms |-> Stage(t)] EXCEPT ![s] = "open"]
  BY <1>5
<1> QED  BY <1>2, <1>4, <1>5, <1>7, <1>8, <1>9, <1>10 DEF Stream!Open

(* The end of the handler.                                                 *)
LEMMA EndsOnce ==
  ASSUME OnceInv, NEW s \in Terms, Ends(s)
  PROVE  NoCopies' /\ Stream!Close(s)
<1>1. /\ term[s] \in Listed /\ term' = [term EXCEPT ![s] = "gone"]
      /\ UNCHANGED <<sendCh, wire, link, captured, front, shown, posted>>
  BY DEF Ends, Listed, linkVars, shellVars
<1>2. /\ TypeOK /\ NoCopies /\ \A t \in Terms : Single(t)
      /\ term \in [Terms -> {"idle", "gone"} \cup Listed]
  BY DEF OnceInv, IInv, NoCopies, TypeOK
<1>3. \A t \in Terms : Single(t)' /\ Way(t)' = Way(t)
  BY <1>1, <1>2, SingleKept
<1>4. Stage(s) = "open" /\ \A t \in Terms : Stage(t)' = IF t = s THEN "over" ELSE Stage(t)
  BY <1>1, <1>2 DEF Stage, Listed
<1>5. \A t \in Terms : Line(t)' = Line(t)
  BY <1>1 DEF Line
<1>6. NoCopies'
  BY <1>3 DEF NoCopies
<1> QED  BY <1>1, <1>3, <1>4, <1>5, <1>6 DEF Stream!Close

(* A message that is posted has a number that nothing on the way has.      *)
LEMMA PostOnce ==
  ASSUME OnceInv, NEW s \in Terms, NEW m \in Messages, m.term = s, posted[s] <= m.index, Post(m),
         posted' = [posted EXCEPT ![s] = m.index + 1], UNCHANGED termVars,
         shell[s] \in {"running", "exited"}
  PROVE  NoCopies' /\ Stream!Put(s, m.index)
<1>1. /\ TypeOK /\ NoCopies /\ \A t \in Terms : Single(t)
      /\ sendCh \in Seq(AnyMessage) /\ posted \in [Terms -> Nat] /\ m.index \in Nat
      /\ m \in AnyMessage /\ \A t \in Terms : Of(m, t) <=> t = s
  BY QueueFacts, RegisterAssumption DEF OnceInv, IInv, NoCopies, AnyMessage, Messages, Of
<1>2. /\ UNCHANGED <<wire, link, captured, term, front, shown>>
      /\ sendCh' = sendCh \/ sendCh' = Append(sendCh, m)
  BY DEF Post, Enqueue, termVars
<1>3. \A t \in Terms \ {s} : Single(t)' /\ Way(t)' = Way(t)
  <2>1. ASSUME NEW t \in Terms, t # s PROVE Single(t)' /\ Way(t)' = Way(t)
    <3>1. Shrunk(sendCh, sendCh', t) /\ posted'[t] = posted[t]
      BY <1>1, <1>2, <2>1 DEF Shrunk
    <3>2. \A p \in Places : Shrunk(Queue(p, t), Queue(p, t)', t)
      BY <1>2, <3>1 DEF Queue, Shrunk
    <3>3. Single(t)' /\ Way(t)' \subseteq Way(t)
      BY <1>1, <3>1, <3>2, SingleShrinks
    <3>4. Indices(sendCh, t) \subseteq Indices(sendCh', t)
      <4>1. Distinct(sendCh, t)
        BY <1>1, PlaceFacts DEF Single
      <4> QED  BY <1>1, <1>2, <2>1, <4>1, IndicesAppend
    <3>5. \A p \in Places : Indices(Queue(p, t), t) \subseteq Indices(Queue(p, t)', t)
      BY <1>2, <3>4 DEF Queue
    <3>6. Way(t) \subseteq Way(t)'
      BY <3>5 DEF Way
    <3> QED  BY <3>3, <3>6
  <2> QED  BY <2>1
<1>4. /\ Single(s)'
      /\ Way(s)' = Way(s) \/ Way(s)' = Way(s) \cup {m.index}
  <2> DEFINE at == MaxDials + 1
             new == Indices(sendCh', s) \ Indices(sendCh, s)
  <2>1. /\ at \in Places /\ at # 0 /\ at \notin Dials /\ Queue(at, s) = sendCh
        /\ \A p \in Places : Queue(p, s) \in Seq(AnyMessage)
    BY <1>1, PlaceFacts DEF Dials
  <2>2. Queue(at, s)' = sendCh' /\ \A p \in Places \ {at} : Queue(p, s)' = Queue(p, s)
    BY <1>2, <2>1, PlaceFacts, <1>1 DEF Queue
  <2> HIDE DEF at
  <2>3. \A p \in Places : m.index \notin Indices(Queue(p, s), s)
    BY <1>1 DEF Single
  <2>4. Distinct(sendCh, s) /\ m.index \notin Indices(sendCh, s)
    BY <1>1, <2>1, <2>3 DEF Single
  <2>5. /\ Distinct(sendCh', s)
        /\ Indices(sendCh', s) = Indices(sendCh, s) \/ Indices(sendCh', s) = Indices(sendCh, s) \cup {m.index}
    BY <1>1, <1>2, <2>4, IndicesAppend
  <2>6. /\ new = {} \/ new = {m.index}
        /\ Indices(sendCh', s) = Indices(sendCh, s) \cup new
    BY <2>4, <2>5
  <2> HIDE DEF new
  <2>7. /\ posted[s] \in Nat /\ posted'[s] \in Nat /\ posted[s] <= posted'[s]
        /\ new \subseteq 0 .. posted'[s] - 1
    BY <1>1, <2>6
  <2>8. \A p \in Places : Distinct(Queue(p, s)', s)
    BY <1>1, <2>2, <2>5 DEF Single
  <2>9. \A p \in Places : p # at => Indices(Queue(p, s)', s) \subseteq Indices(Queue(p, s), s) \ new
    BY <2>2, <2>3, <2>6
  <2>10. Indices(Queue(at, s)', s) = Indices(Queue(at, s), s) \cup new
    BY <2>1, <2>2, <2>6
  <2>11. Single(s)' /\ Way(s)' \subseteq Way(s) \cup new
    BY <1>1, <2>1, <2>7, <2>8, <2>9, <2>10, SingleMoves
  <2>12. Way(s) \cup new \subseteq Way(s)'
    <3>1. \A p \in Places : Indices(Queue(p, s), s) \subseteq Indices(Queue(p, s)', s)
      BY <2>2, <2>10
    <3> QED  BY <2>1, <2>10, <3>1 DEF Way
  <2> QED  BY <2>6, <2>11, <2>12
<1>5. NoCopies'
  BY <1>3, <1>4 DEF NoCopies
<1>6. Stage(s) # "new" /\ \A t \in Terms : Stage(t)' = Stage(t) /\ Line(t)' = Line(t)
  BY <1>2 DEF Stage, Line, OnceInv, IInv, Started
<1>7. \/ [t \in Terms |-> Way(t)'] = [t \in Terms |-> Way(t)]
      \/ [t \in Terms |-> Way(t)'] = [[t \in Terms |-> Way(t)] EXCEPT ![s] = @ \cup {m.index}]
  BY <1>3, <1>4
<1> QED  BY <1>2, <1>5, <1>6, <1>7 DEF Stream!Put

(* Output and the exit are posted under the next number and the last.      *)
LEMMA StreamOnce ==
  ASSUME OnceInv, NEW s \in Terms, StreamOutput(s) \/ StreamEnds(s)
  PROVE  NoCopies' /\ (Stream!Write(s) \/ Stream!Finish(s))
<1>1. shell[s] \in {"running", "exited"} /\ posted[s] <= MaxOutput[s] /\ posted[s] \in Nat
  BY QueueFacts DEF StreamOutput, StreamEnds, OnceInv, IInv, Started
<1>2. CASE StreamOutput(s)
  <2> DEFINE m == Out(s, posted[s])
  <2>1. m \in Messages /\ m.term = s /\ m.index = posted[s] /\ posted[s] <= m.index
    BY <1>1 DEF Out, Messages
  <2>2. /\ Post(m) /\ posted' = [posted EXCEPT ![s] = m.index + 1] /\ UNCHANGED termVars
        /\ posted[s] < MaxOutput[s]
    BY <1>2, <2>1 DEF StreamOutput
  <2> HIDE DEF m
  <2>3. NoCopies' /\ Stream!Put(s, posted[s])
    BY <1>1, <2>1, <2>2, PostOnce
  <2> QED  BY <2>2, <2>3 DEF Stream!Write
<1>3. CASE StreamEnds(s)
  <2> DEFINE m == Exit(s)
  <2>1. m \in Messages /\ m.term = s /\ m.index = MaxOutput[s]
    BY DEF Exit, Messages
  <2>2. Post(m) /\ posted' = [posted EXCEPT ![s] = m.index + 1] /\ UNCHANGED termVars
    BY <1>3, <2>1 DEF StreamEnds
  <2> HIDE DEF m
  <2>3. NoCopies' /\ Stream!Put(s, MaxOutput[s])
    BY <1>1, <2>1, <2>2, PostOnce
  <2> QED  BY <1>1, <2>3 DEF Stream!Finish
<1> QED  BY <1>2, <1>3

(* What a terminal shows next is the earliest piece on its way, as long as *)
(* its connection holds.                                                   *)
LEMMA FirstOfTheWay ==
  ASSUME OnceInv, NEW s \in Terms, Holds(s), front[s] # <<>>, Of(Head(front[s]), s),
         NEW k \in Way(s)
  PROVE  Head(front[s]).index <= k
<1> DEFINE m == Head(front[s])
<1>1. /\ TypeOK /\ front[s] \in Seq(AnyMessage) /\ posted[s] \in Nat
      /\ wire \in [Dials -> Seq(AnyMessage)] /\ sendCh \in Seq(AnyMessage)
      /\ captured[s] \in Dials
  BY QueueFacts DEF OnceInv, IInv, Holds
<1>2. InOrder(s) /\ \A e \in Dials : e # captured[s] => Absent(wire[e], s)
  BY DEF OnceInv, IInv, StreamsInOrder
<1>3. PICK a, b, c \in 0 .. posted[s] :
        /\ a <= b /\ b <= c
        /\ Within(front[s], s, a, b) /\ Within(wire[captured[s]], s, b, c)
        /\ Within(sendCh, s, c, posted[s])
  BY <1>2 DEF InOrder
<1>4. a \in Nat /\ b \in Nat /\ c \in Nat
  BY <1>1
<1>5. /\ m = front[s][1] /\ Len(front[s]) \in Nat /\ Len(front[s]) >= 1
      /\ DOMAIN front[s] = 1 .. Len(front[s]) /\ m \in AnyMessage
  BY <1>1, TailFacts, SeqFacts
<1>6. m.index \in Nat /\ m.index < b
  <2>1. 1 \in DOMAIN front[s]
    BY <1>5
  <2> QED  BY <1>3, <1>5, <2>1, OwnMessage DEF Within
<1>7. PICK p \in Places : k \in Indices(Queue(p, s), s)
  BY DEF Way
<1>8. PICK i \in DOMAIN Queue(p, s) : Of(Queue(p, s)[i], s) /\ k = Queue(p, s)[i].index
  BY <1>7 DEF Indices
<1>9. k \in Nat
  BY <1>1, <1>8, PlaceFacts, OwnMessage
<1>10. CASE p = 0
  <2>1. i \in DOMAIN front[s] /\ Of(front[s][i], s) /\ k = front[s][i].index
    BY <1>1, <1>8, <1>10, PlaceFacts
  <2>2. CASE i = 1
    BY <1>5, <1>6, <2>1, <2>2
  <2>3. CASE i # 1
    <3>1. 1 \in DOMAIN front[s] /\ 1 < i
      BY <1>5, <2>1, <2>3
    <3>2. front[s][1].index < front[s][i].index
      BY <1>3, <1>5, <2>1, <3>1 DEF Within
    <3> QED  BY <1>5, <1>6, <1>9, <2>1, <3>2
  <2> QED  BY <2>2, <2>3
<1>11. CASE p \in Dials
  <2>1. i \in DOMAIN wire[p] /\ Of(wire[p][i], s) /\ k = wire[p][i].index
    BY <1>1, <1>8, <1>11, PlaceFacts
  <2>2. p = captured[s]
    BY <1>2, <1>11, <2>1 DEF Absent
  <2>3. b <= k
    BY <1>3, <2>1, <2>2 DEF Within
  <2> QED  BY <1>4, <1>6, <1>9, <2>3
<1>12. CASE p = MaxDials + 1
  <2>1. i \in DOMAIN sendCh /\ Of(sendCh[i], s) /\ k = sendCh[i].index
    BY <1>1, <1>8, <1>12, PlaceFacts
  <2>2. c <= k
    BY <1>3, <2>1 DEF Within
  <2> QED  BY <1>3, <1>4, <1>6, <1>9, <2>2
<1> QED  BY <1>1, <1>10, <1>11, <1>12, PlaceFacts

(* The main loop shows it: it leaves Frontend, and is nowhere else.        *)
LEMMA TakeOutputOnce ==
  ASSUME OnceInv, NEW s \in Terms, TakeOutput(s)
  PROVE  NoCopies' /\ Stream!Show(s)
<1> DEFINE n == Head(front[s]).index
           Numbers(q) == [i \in DOMAIN q |-> q[i].index]
<1>1. /\ term[s] = "streaming" /\ front[s] # <<>>
      /\ shown' = [shown EXCEPT ![s] = Append(@, Head(front[s]))]
      /\ front' = [front EXCEPT ![s] = Tail(@)]
      /\ term' = [term EXCEPT ![s] = "writing"]
      /\ UNCHANGED <<sendCh, wire, link, captured, posted>>
  BY DEF TakeOutput, linkVars, shellVars
<1>2. /\ TypeOK /\ NoCopies /\ \A t \in Terms : Single(t)
      /\ front \in [Terms -> Seq(Messages)] /\ front[s] \in Seq(AnyMessage)
      /\ shown \in [Terms -> Seq(Messages)] /\ posted[s] \in Nat
      /\ term \in [Terms -> {"idle", "gone"} \cup Listed]
  BY QueueFacts DEF OnceInv, IInv, NoCopies, TypeOK
<1>3. Of(Head(front[s]), s)
  <2>1. /\ front[s] \in Seq(Messages) /\ 1 \in DOMAIN front[s]
        /\ Head(front[s]) = front[s][1] /\ Head(front[s]) \in Messages
    BY <1>1, <1>2, TailFacts, SeqFacts
  <2> QED  BY <2>1, RegisterAssumption DEF OnceInv, IInv, OwnOutput, Of
<1>4. \A t \in Terms \ {s} : Single(t)' /\ Way(t)' = Way(t)
  BY <1>1, <1>2, SingleKept
<1>5. /\ \A p \in Places : p # 0 => Queue(p, s)' = Queue(p, s)
      /\ 0 \in Places /\ Queue(0, s) = front[s] /\ Queue(0, s)' = Tail(front[s])
  BY <1>1, <1>2, PlaceFacts DEF Queue
<1>6. /\ Distinct(front[s], s)
      /\ \A p \in Places : p # 0 => Indices(Queue(p, s), s) \cap Indices(front[s], s) = {}
  BY <1>2, <1>5 DEF Single
<1>7. /\ Indices(Tail(front[s]), s) = Indices(front[s], s) \ {n} /\ n \in Indices(front[s], s)
      /\ Distinct(Tail(front[s]), s)
  BY <1>1, <1>2, <1>3, <1>6, IndicesTail
<1>8. Single(s)' /\ Way(s)' \subseteq Way(s)
  <2>1. \A p \in Places : Shrunk(Queue(p, s), Queue(p, s)', s)
    BY <1>1, <1>5 DEF Shrunk
  <2> QED  BY <1>1, <1>2, <2>1, SingleShrinks
<1>9. Way(s)' = Way(s) \ {n} /\ n \in Way(s)
  <2>1. n \notin Way(s)'
    BY <1>5, <1>6, <1>7 DEF Way
  <2>2. Way(s) \ {n} \subseteq Way(s)'
    BY <1>5, <1>7 DEF Way
  <2>3. n \in Way(s)
    BY <1>5, <1>7 DEF Way
  <2> QED  BY <1>8, <2>1, <2>2, <2>3
<1>10. Line(s) = "intact" => \A k \in Way(s) : n <= k
  BY <1>1, <1>3, FirstOfTheWay DEF Line, Holds
<1>11. Numbers(shown'[s]) = Append(Numbers(shown[s]), n)
  <2>1. shown[s] \in Seq(Messages) /\ shown'[s] = Append(shown[s], Head(front[s]))
    BY <1>1, <1>2
  <2>2. ASSUME NEW i \in DOMAIN shown[s] PROVE shown[s][i].index \in Nat
    <3>1. shown[s][i] \in Messages
      BY <2>1, <2>2
    <3> QED  BY <3>1 DEF Messages
  <2>3. Numbers(shown[s]) \in Seq(Nat) /\ Len(Numbers(shown[s])) = Len(shown[s])
    BY <2>1, <2>2
  <2> QED  BY <2>1, <2>3, AppendFacts
<1> HIDE DEF n, Numbers
<1>12. \A t \in Terms \ {s} : Numbers(shown'[t]) = Numbers(shown[t])
  BY <1>1, <1>2
<1>13. NoCopies'
  BY <1>4, <1>8 DEF NoCopies
<1>14. Stage(s) = "open" /\ \A t \in Terms : Stage(t)' = Stage(t) /\ Line(t)' = Line(t)
  BY <1>1, <1>2 DEF Stage, Line
<1>15. [t \in Terms |-> Way(t)'] = [[t \in Terms |-> Way(t)] EXCEPT ![s] = @ \ {n}]
  BY <1>4, <1>9
<1>16. [t \in Terms |-> Numbers(shown'[t])]
         = [[t \in Terms |-> Numbers(shown[t])] EXCEPT ![s] = Append(@, n)]
  BY <1>11, <1>12
<1> QED  BY <1>1, <1>9, <1>10, <1>13, <1>14, <1>15, <1>16 DEF Stream!Show, Numbers

(* Every step is one of the stream, and copies nothing.                    *)
LEMMA StreamStep ==
  OnceInv /\ [Next]_vars => OnceInv' /\ [Stream!Next]_(Stream!streamVars)
<1> SUFFICES ASSUME OnceInv, [Next]_vars
             PROVE  NoCopies' /\ (Stream!Next \/ UNCHANGED Stream!streamVars)
  BY StepInv DEF OnceInv
<1>1. CASE Relink /\ UNCHANGED <<termVars, shellVars>>
  BY <1>1, RelinkOnce DEF Stream!Next
<1>2. ASSUME NEW e \in Dials, Deliver(e) PROVE NoCopies' /\ Stream!Next
  BY <1>2, DeliverOnce DEF Stream!Next
<1>3. CASE \/ \E s \in Terms :
                \/ WriteReturns(s) \/ BrowserLeaves(s) \/ ReaderCloses(s)
                \/ HandleStart(s) \/ ShellEnds(s) \/ Deleted(s)
           \/ \E e \in Dials : Unregister(e)
  BY <1>3, QuietOnce DEF Stream!Next
<1>4. ASSUME NEW s \in Terms,
             Open(s) \/ Ends(s) \/ TakeOutput(s)
      PROVE  NoCopies' /\ Stream!Next
  BY <1>4, OpenOnce, EndsOnce, TakeOutputOnce DEF Stream!Next
<1>5. ASSUME NEW s \in Terms, StreamOutput(s) \/ StreamEnds(s) \/ RaceAborts(s)
      PROVE  NoCopies' /\ Stream!Next
  BY <1>5, StreamOnce, RaceAbortsOnce DEF Stream!Next
<1>6. CASE UNCHANGED vars
  <2>1. UNCHANGED <<sendCh, wire, link, captured, term, front, shown, posted>>
    BY <1>6 DEF vars, linkVars, termVars, shellVars
  <2>2. \A t \in Terms : Single(t)' /\ Way(t)' = Way(t)
    BY <2>1, SingleKept DEF OnceInv, IInv, NoCopies
  <2>3. NoCopies'
    BY <2>2 DEF NoCopies
  <2>4. \A t \in Terms : Stage(t)' = Stage(t) /\ Line(t)' = Line(t)
    BY <2>1 DEF Stage, Line
  <2> QED  BY <2>1, <2>2, <2>3, <2>4 DEF Stream!streamVars
<1> QED  BY <1>1, <1>2, <1>3, <1>4, <1>5, <1>6 DEF Next, TermStep, ShellStep

(* The initial states are those of the stream.                             *)
LEMMA StreamInit == Init => OnceInv /\ Stream!Init
<1> SUFFICES ASSUME Init PROVE OnceInv /\ Stream!Init
  OBVIOUS
<1> USE DEF Init, LinkInit
<1>1. \A s \in Terms : \A p \in Places : Queue(p, s) = <<>>
  BY DEF Queue
<1>2. \A s \in Terms : \A p \in Places : Indices(Queue(p, s), s) = {}
  BY <1>1 DEF Indices
<1>3. \A s \in Terms : Single(s)
  <2>1. \A s \in Terms : \A p \in Places : Distinct(Queue(p, s), s)
    BY <1>1 DEF Distinct
  <2> QED  BY <1>2, <2>1 DEF Single
<1>4. \A s \in Terms : Way(s) = {} /\ Stage(s) = "new" /\ Line(s) = "new"
  BY <1>2 DEF Way, Stage, Line
<1>5. \A s \in Terms : [i \in DOMAIN shown[s] |-> shown[s][i].index] = <<>>
  OBVIOUS
<1> QED  BY <1>3, <1>4, <1>5, InitInv DEF OnceInv, NoCopies, Stream!Init

(* Every message of a terminal is in one queue only, once: what is left in *)
(* sendCh when a connection breaks is not what the next one carries too    *)
(* (ws_client.go:89-101, 200-211).                                         *)
THEOREM NothingIsCopied == Spec => []OnceInv
<1>1. Init => OnceInv
  BY StreamInit
<1>2. OnceInv /\ [Next]_vars => OnceInv'
  BY StreamStep
<1> QED  BY <1>1, <1>2, PTL DEF Spec

(* sendCh, the connections one after the other, the read loops and the     *)
(* Frontend channels are for each terminal what LossyStream promises: its  *)
(* output may be lost, and never overtakes while its connection holds      *)
(* (ws_client.go:89-101, 200-211, agent_ws.go:102-117, terminal.go:98-107).*)
THEOREM StreamKept == Spec => OutputAsPromised
<1>1. Init => Stream!Init
  BY StreamInit
<1>2. OnceInv /\ [Next]_vars => [Stream!Next]_(Stream!streamVars)
  BY StreamStep
<1> QED  BY <1>1, <1>2, NothingIsCopied, PTL DEF Spec, OutputAsPromised, Stream!Spec

------------------------------------------------------------------------------
(* Nothing is shown twice.  It is argued of the stream: what is shown has  *)
(* left the way, w, and what is written has a number, p, that nothing had. *)
Settled(w, v, p) ==
    /\ v \in Seq(Nat) /\ p \in Nat /\ w \subseteq Nat
    /\ \A n \in w : n < p
    /\ \A i \in DOMAIN v : v[i] < p /\ v[i] \notin w
    /\ \A i, j \in DOMAIN v : v[i] = v[j] => i = j

(* What sets out is new, ...                                               *)
LEMMA SettledPut ==
  ASSUME NEW w, NEW v, NEW p, Settled(w, v, p), NEW n \in Nat, p <= n
  PROVE  Settled(w, v, n + 1) /\ Settled(w \cup {n}, v, n + 1)
BY DEF Settled

(* and what is shown does not come again.                                  *)
LEMMA SettledShow ==
  ASSUME NEW w, NEW v, NEW p, Settled(w, v, p), NEW n \in w
  PROVE  Settled(w \ {n}, Append(v, n), p)
<1> DEFINE a == Append(v, n)
<1>1. /\ v \in Seq(Nat) /\ p \in Nat /\ w \subseteq Nat /\ n \in Nat /\ n < p
      /\ \A k \in w : k < p
      /\ \A i \in DOMAIN v : v[i] < p /\ v[i] \notin w
      /\ \A i, j \in DOMAIN v : v[i] = v[j] => i = j
  BY DEF Settled
<1>2. /\ DOMAIN v = 1 .. Len(v) /\ Len(v) \in Nat
      /\ DOMAIN a = 1 .. Len(v) + 1 /\ a[Len(v) + 1] = n
      /\ \A i \in 1 .. Len(v) : a[i] = v[i]
      /\ a \in Seq(Nat)
  BY <1>1, AppendFacts
<1> HIDE DEF a
<1>3. \A i \in 1 .. Len(v) + 1 : i \in 1 .. Len(v) \/ i = Len(v) + 1
  BY <1>2
<1>4. \A i \in DOMAIN a : a[i] < p /\ a[i] \notin w \ {n}
  BY <1>1, <1>2, <1>3
<1>5. \A i \in 1 .. Len(v) : a[i] # n
  BY <1>1, <1>2
<1>6. \A i, j \in DOMAIN a : a[i] = a[j] => i = j
  BY <1>1, <1>2, <1>3, <1>5
<1> QED  BY <1>1, <1>2, <1>4, <1>6 DEF Settled, a

(* The numbers of what a terminal has shown.                               *)
Numbers(s) == [i \in DOMAIN shown[s] |-> shown[s][i].index]

(* Every step of the stream keeps it so.                                   *)
LEMMA SettledStep ==
  ASSUME TypeOK, TypeOK', [Stream!Next]_(Stream!streamVars),
         \A s \in Terms : Settled(Way(s), Numbers(s), posted[s])
  PROVE  \A s \in Terms : Settled(Way(s)', Numbers(s)', posted'[s])
<1>1. posted \in [Terms -> Nat] /\ posted' \in [Terms -> Nat]
  BY DEF TypeOK
<1>2. SUFFICES ASSUME NEW s \in Terms PROVE Settled(Way(s)', Numbers(s)', posted'[s])
  OBVIOUS
<1>3. CASE Numbers(s)' = Numbers(s) /\ posted'[s] = posted[s] /\ Way(s)' \subseteq Way(s)
  BY <1>3 DEF Settled
<1> DEFINE w == [t \in Terms |-> Way(t)]
           v == [t \in Terms |-> Numbers(t)]
<1>4. CASE Stream!Lose \/ (\E t \in Terms : Stream!Open(t) \/ Stream!Close(t)) \/ UNCHANGED Stream!streamVars
  <2>1. UNCHANGED posted /\ v' = v
    BY <1>4 DEF Stream!Lose, Stream!Open, Stream!Close, Stream!streamVars, Numbers
  <2>2. (w' = w \/ \A t \in Terms : w'[t] \subseteq w[t])
    BY <1>4 DEF Stream!Lose, Stream!Open, Stream!Close, Stream!streamVars
  <2>3. Numbers(s)' = Numbers(s)
    BY <2>1
  <2>4. Way(s)' \subseteq Way(s)
    BY <2>2
  <2> QED  BY <1>3, <2>1, <2>3, <2>4
<1>5. ASSUME NEW t \in Terms, NEW n \in Nat, posted[t] <= n, Stream!Put(t, n)
      PROVE  Settled(Way(s)', Numbers(s)', posted'[s])
  <2>1. posted' = [posted EXCEPT ![t] = n + 1] /\ v' = v
        /\ w' \in {w, [w EXCEPT ![t] = @ \cup {n}]}
    BY <1>5 DEF Stream!Put, Numbers
  <2>2. Numbers(s)' = Numbers(s)
    BY <2>1
  <2>3. w'[s] = w[s] \/ (s = t /\ w'[s] = w[s] \cup {n})
    BY <2>1
  <2>4. Way(s)' = Way(s) \/ (s = t /\ Way(s)' = Way(s) \cup {n})
    BY <2>3
  <2>5. CASE s = t
    <3>1. posted'[s] = n + 1 /\ Way(s)' \in {Way(s), Way(s) \cup {n}} /\ posted[s] <= n
      BY <1>1, <1>5, <2>1, <2>4, <2>5
    <3>2. Settled(Way(s), Numbers(s), posted[s])
      OBVIOUS
    <3>3. Settled(Way(s), Numbers(s), n + 1) /\ Settled(Way(s) \cup {n}, Numbers(s), n + 1)
      BY <3>1, <3>2, SettledPut
    <3> QED  BY <2>2, <3>1, <3>3
  <2>6. CASE s # t
    BY <1>1, <1>3, <2>1, <2>2, <2>4, <2>6
  <2> QED  BY <2>5, <2>6
<1>6. ASSUME NEW t \in Terms, Stream!Show(t)
      PROVE  Settled(Way(s)', Numbers(s)', posted'[s])
  <2>1. PICK n \in Way(t) : /\ v' = [v EXCEPT ![t] = Append(@, n)]
                            /\ w' = [w EXCEPT ![t] = @ \ {n}] /\ posted' = posted
    BY <1>6 DEF Stream!Show, Numbers
  <2>2. /\ v'[s] = IF s = t THEN Append(v[s], n) ELSE v[s]
        /\ w'[s] = IF s = t THEN w[s] \ {n} ELSE w[s]
    BY <2>1
  <2>3. /\ Numbers(s)' = IF s = t THEN Append(Numbers(s), n) ELSE Numbers(s)
        /\ Way(s)' = IF s = t THEN Way(s) \ {n} ELSE Way(s)
    BY <2>2
  <2> QED  BY <1>3, <2>1, <2>3, SettledShow
<1>7. ASSUME NEW t \in Terms, Stream!Write(t) \/ Stream!Finish(t)
      PROVE  Settled(Way(s)', Numbers(s)', posted'[s])
  <2>1. posted[t] \in Nat /\ MaxOutput[t] \in Nat
    BY <1>1
  <2> QED  BY <1>5, <1>7, <2>1 DEF Stream!Write, Stream!Finish
<1> QED  BY <1>4, <1>6, <1>7 DEF Stream!Next

(* No piece of output is shown twice, though sendCh carries what a broken  *)
(* connection left over to the next one, and two read loops may empty two  *)
(* connections at once (ws_client.go:89-101, agent_ws.go:77-117).          *)
THEOREM NothingShownTwice == Spec => []NoOutputTwice
<1> DEFINE AllSettled == \A s \in Terms : Settled(Way(s), Numbers(s), posted[s])
<1>1. Init => AllSettled
  <2> SUFFICES ASSUME Init, NEW s \in Terms PROVE Settled(Way(s), Numbers(s), posted[s])
    OBVIOUS
  <2>1. posted[s] = 0 /\ Numbers(s) = <<>>
    BY DEF Init, Numbers
  <2>2. Way(s) = {}
    <3>1. \A p \in Places : Queue(p, s) = <<>>
      BY DEF Init, LinkInit, Queue
    <3> QED  BY <3>1 DEF Way, Indices
  <2>3. <<>> \in Seq(Nat) /\ DOMAIN <<>> = {}
    BY EmptySeq
  <2> QED  BY <2>1, <2>2, <2>3 DEF Settled
<1>2. OnceInv /\ OnceInv' /\ [Next]_vars /\ AllSettled => AllSettled'
  <2> SUFFICES ASSUME OnceInv, OnceInv', [Next]_vars, AllSettled PROVE AllSettled'
    OBVIOUS
  <2>1. TypeOK /\ TypeOK' /\ [Stream!Next]_(Stream!streamVars)
    BY StreamStep DEF OnceInv, IInv
  <2> QED  BY <2>1, SettledStep
<1>3. AllSettled => NoOutputTwice
  BY DEF Settled, Numbers, NoOutputTwice
<1> QED  BY <1>1, <1>2, <1>3, NothingIsCopied, PTL DEF Spec
===============================================================================
