--------------------------- MODULE FilePanelProofs ---------------------------
(***************************************************************************)
(* Proofs about FilePanel, for any number of agents, directories, changes  *)
(* and fetches: IInv is inductive, and with it the panel lists what it     *)
(* names, shows the changes confirmed to it, and sends them where they     *)
(* were confirmed for.                                                     *)
(***************************************************************************)
EXTENDS FilePanel, TLAPS

(* What IInv says of one change, with the directories d. *)
OpOK(op, d) ==
    /\ op \in Op \cup {Over}
    /\ op.state = "paused" => op.waited
    /\ op.state \in {"sent", "carried", "settling"} => op.to # Nowhere
    /\ op.state \in {"carried", "settling"} => op.seen <= d[op.to]
    /\ op # Over /\ op.to # Nowhere =>
           /\ op.to = op.want \/ op.waited
           /\ op.kind = "delete" => op.to[2] = op.want[2]

(* What it says of all of them, and of the mounted panel's own. *)
OpsOK ==
    /\ ops \in Seq(Op \cup {Over}) /\ Len(ops) <= MaxOps
    /\ current \in [Kinds -> 0 .. Len(ops)]
    /\ \A o \in DOMAIN ops : OpOK(ops[o], disk)

(* What it says of the queries and of what is shown. *)
FetchOK ==
    /\ agent \in Agents \cup {NoAgent}
    /\ path \in Paths
    /\ online \in BOOLEAN
    /\ failed \in BOOLEAN
    /\ disk \in [Places -> Nat]
    /\ known \in [Places -> Nat]
    /\ cache \in [Places -> Listing \cup {NoListing}]
    /\ fetch \in [Places -> [state : {"idle", "sent", "read"}, list : Listing \cup {NoListing}]]
    /\ FetchesFresh
    /\ \A k \in Places : known[k] <= disk[k]
    /\ ListedIsHere
    /\ ChangeIsShown

(* IInv is these two. *)
LEMMA Parts == IInv <=> OpsOK /\ FetchOK
  <1>1. ASSUME IInv PROVE OpsOK /\ FetchOK
    BY <1>1 DEF IInv, TypeOK, KnownIsMade, HitsWhatWasConfirmed, OpsOK, OpOK, FetchOK
  <1>2. ASSUME OpsOK, FetchOK PROVE IInv
    BY <1>2 DEF IInv, TypeOK, KnownIsMade, HitsWhatWasConfirmed, OpsOK, OpOK, FetchOK
  <1> QED BY <1>1, <1>2

(* The same after a step. *)
LEMMA PartsNext == ASSUME OpsOK', FetchOK' PROVE IInv'
  BY Parts, PTL

(* Sending a change that waits. *)
LEMMA SentOK ==
    ASSUME NEW op, NEW d, OpOK(op, d), op.state = "paused"
    PROVE  OpOK(Sent(op), d)
  <1>1. op \in Op /\ op.waited
    BY DEF OpOK, Over
  <1>2. Target(op) \in Places /\ (op.kind = "delete" => Target(op)[2] = op.want[2])
    BY <1>1 DEF Op, Target, Places
  <1>3. Target(op) # Nowhere
    BY <1>2 DEF Places, Nowhere
  <1>4. Sent(op) \in Op
    BY <1>1, <1>2 DEF Op, Sent
  <1> QED BY <1>1, <1>2, <1>3, <1>4 DEF OpOK, Sent, Op

(* The functions of a change are rendered anew. *)
LEMMA RerenderedOK ==
    ASSUME NEW op, NEW d, OpOK(op, d), op.state # "done", NEW k \in Places
    PROVE  OpOK([op EXCEPT !.opts = k], d)
  <1>1. op \in Op
    BY DEF OpOK, Over
  <1>2. [op EXCEPT !.opts = k] \in Op
    BY <1>1 DEF Op
  <1> QED BY <1>1, <1>2 DEF OpOK, Op, Over

(* The place that is shown is one. *)
LEMMA HereIsPlace ==
    ASSUME FetchOK, Shown PROVE Here \in Places /\ ShownKey = Here /\ agent \in Agents
  BY DEF FetchOK, Shown, Here, ShownKey, Key, Places

------------------------------------------------------------------------------
(* A fetch for the place that is shown from now on. *)
LEMMA BeginsOK ==
    ASSUME FetchOK, NEW k \in Places, Begins(k, k),
           agent' \in Agents, path' \in Paths, <<agent', path'>> = k, online' \in BOOLEAN,
           disk' = disk, cache' = cache, known' \in [Places -> Nat],
           \A j \in Places : known'[j] <= disk[j],
           \A j \in Places : j # k => known'[j] = known[j]
    PROVE  FetchOK'
  <1> DEFINE f == [state |-> "sent", list |-> [of |-> k, seen |-> 0]]
  <1>1. fetch' = [fetch EXCEPT ![k] = f] /\ failed' = FALSE
    BY DEF Begins
  <1>2. f \in [state : {"idle", "sent", "read"}, list : Listing \cup {NoListing}]
    BY DEF Listing
  <1>3. fetch' \in [Places -> [state : {"idle", "sent", "read"}, list : Listing \cup {NoListing}]]
    BY <1>1, <1>2 DEF FetchOK
  <1>4. FetchesFresh'
    <2>1. ASSUME NEW j \in Places
          PROVE  /\ Running(j)' => fetch'[j].list.of = j
                 /\ fetch'[j].state = "read" => fetch'[j].list.seen >= known'[j]
                 /\ cache'[j] # NoListing => cache'[j].of = j
      BY <1>1 DEF FetchOK, FetchesFresh, Running
    <2> QED BY <2>1 DEF FetchesFresh
  <1>5. ShownKey' = k /\ Here' = k
    BY DEF ShownKey, Key, Here
  <1>6. Running(k)'
    BY <1>1 DEF FetchOK, Running
  <1>7. ListedIsHere'
    BY <1>4, <1>5 DEF ListedIsHere, Listed, FetchesFresh
  <1>8. ChangeIsShown'
    BY <1>5, <1>6 DEF ChangeIsShown
  <1> QED BY <1>1, <1>3, <1>4, <1>7, <1>8 DEF FetchOK

(* A new rendering, whether the fetch runs already or not. *)
LEMMA RendersOK ==
    ASSUME OpsOK, FetchOK, NEW a \in Agents, NEW p \in Paths, Renders(a, p), current' = current
    PROVE  OpsOK' /\ FetchOK'
  <1>1. /\ agent' = a /\ path' = p /\ Observes(a, p) /\ Rerenders(a, p)
        /\ UNCHANGED <<online, disk, cache, known>>
    BY DEF Renders
  <1>2. <<a, p>> \in Places /\ Key(a, p) = <<a, p>>
    BY DEF Places, Key
  <1>3. FetchOK'
    <2>1. CASE Running(Key(a, p))
      <3>1. UNCHANGED fetch /\ failed' = FALSE
        BY <1>1, <2>1 DEF Observes
      <3>2. FetchesFresh' /\ (\A k \in Places : known'[k] <= disk'[k])
        BY <1>1, <3>1 DEF FetchOK, FetchesFresh, Running
      <3>3. ShownKey' = <<a, p>> /\ Here' = <<a, p>>
        BY <1>1 DEF ShownKey, Key, Here
      <3>4. Running(<<a, p>>)'
        BY <1>2, <2>1, <3>1 DEF Running
      <3>5. ListedIsHere' /\ ChangeIsShown'
        BY <1>2, <3>2, <3>3, <3>4 DEF ListedIsHere, ChangeIsShown, Listed, FetchesFresh
      <3> QED BY <1>1, <3>1, <3>2, <3>5 DEF FetchOK
    <2>2. CASE ~Running(Key(a, p))
      <3>1. Begins(<<a, p>>, <<a, p>>)
        BY <1>1, <1>2, <2>2 DEF Observes
      <3> QED BY <1>1, <1>2, <3>1, BeginsOK DEF FetchOK
    <2> QED BY <2>1, <2>2
  <1>4. OpsOK'
    <2> DEFINE New(o) == IF Unsettled(o) /\ \E k \in Kinds : current[k] = o
                         THEN [ops[o] EXCEPT !.opts = <<a, p>>] ELSE ops[o]
    <2>1. ops' = [o \in DOMAIN ops |-> New(o)]
      BY <1>1 DEF Rerenders
    <2>2. ops \in Seq(Op \cup {Over}) /\ DOMAIN ops = 1 .. Len(ops) /\ Len(ops) \in Nat
      BY DEF OpsOK
    <2>3. \A o \in DOMAIN ops : OpOK(New(o), disk)
      BY <1>2, RerenderedOK DEF OpsOK, Unsettled
    <2> HIDE DEF New
    <2>4. \A o \in 1 .. Len(ops) : New(o) \in Op \cup {Over}
      BY <2>2, <2>3 DEF OpOK
    <2>5. ops' \in Seq(Op \cup {Over}) /\ Len(ops') = Len(ops) /\ DOMAIN ops' = DOMAIN ops
      BY <2>1, <2>2, <2>4
    <2>6. \A o \in DOMAIN ops' : OpOK(ops'[o], disk')
      BY <1>1, <2>1, <2>3, <2>5
    <2> QED BY <2>5, <2>6 DEF OpsOK
  <1> QED BY <1>3, <1>4

(* The user moves: to another tab, away, or to another directory. *)
LEMMA MoveOK ==
    ASSUME OpsOK, FetchOK,
           \/ \E a \in Agents : SwitchTo(a)
           \/ Leave
           \/ \E p \in Paths : Enter(p)
           \/ Up
           \/ \E i \in 0 .. Len(path) : Crumb(i)
    PROVE  OpsOK' /\ FetchOK'
  <1>1. path \in Paths /\ path \in Seq(STRING) /\ Len(path) \in Nat
    BY PathsAssumption DEF FetchOK
  <1>2. ASSUME NEW a \in Agents, SwitchTo(a) PROVE OpsOK' /\ FetchOK'
    BY <1>1, <1>2, RendersOK, PathsAssumption DEF SwitchTo
  <1>3. ASSUME NEW p \in Paths, Enter(p) PROVE OpsOK' /\ FetchOK'
    BY <1>3, RendersOK, HereIsPlace DEF Enter, SetPath, Listed
  <1>4. CASE Up
    <2>1. path # <<>> /\ Shown /\ SetPath(SubSeq(path, 1, Len(path) - 1))
      BY <1>4 DEF Up, Listed
    <2>2. Len(path) - 1 \in 0 .. Len(path)
      BY <1>1, <2>1
    <2>3. SubSeq(path, 1, Len(path) - 1) \in Paths
      BY <1>1, <2>2, PathsAssumption
    <2> QED BY <2>1, <2>3, RendersOK, HereIsPlace DEF SetPath
  <1>5. ASSUME NEW i \in 0 .. Len(path), Crumb(i) PROVE OpsOK' /\ FetchOK'
    <2>1. Shown /\ SetPath(SubSeq(path, 1, i))
      BY <1>5 DEF Crumb
    <2>2. SubSeq(path, 1, i) \in Paths
      BY <1>1, <1>5, PathsAssumption
    <2> QED BY <2>1, <2>2, RendersOK, HereIsPlace DEF SetPath
  <1>6. CASE Leave
    <2>1. /\ agent' = NoAgent /\ path' = <<>> /\ current' = [k \in Kinds |-> 0] /\ failed' = FALSE
          /\ UNCHANGED <<online, disk, cache, fetch, ops, known>>
      BY <1>6 DEF Leave
    <2>2. OpsOK'
      BY <2>1 DEF OpsOK
    <2>3. FetchOK'
      BY <2>1, PathsAssumption
         DEF FetchOK, FetchesFresh, Running, ListedIsHere, ChangeIsShown, Listed, Shown
    <2> QED BY <2>2, <2>3
  <1> QED BY <1>2, <1>3, <1>4, <1>5, <1>6

------------------------------------------------------------------------------
(* Nothing that is fetched or shown changes. *)
LEMMA FetchKept ==
    ASSUME FetchOK, UNCHANGED <<agent, path, cache, fetch, failed, known, disk>>,
           online' \in BOOLEAN
    PROVE  FetchOK'
  BY DEF FetchOK, FetchesFresh, Running, ListedIsHere, ChangeIsShown, Listed, Shown,
         ShownKey, Here, Key

(* A change is replaced by one that is as good. *)
LEMMA MovesOK ==
    ASSUME OpsOK, NEW o \in DOMAIN ops, NEW op, OpOK(op, disk'), Moves(o, op),
           disk \in [Places -> Nat], disk' \in [Places -> Nat],
           \A k \in Places : disk[k] <= disk'[k], current' = current
    PROVE  OpsOK'
  <1>1. ops' = [ops EXCEPT ![o] = op] /\ op \in Op \cup {Over}
    BY DEF Moves, OpOK
  <1>2. ops \in Seq(Op \cup {Over}) /\ DOMAIN ops = 1 .. Len(ops) /\ Len(ops) \in Nat
    BY DEF OpsOK
  <1>3. /\ ops' \in Seq(Op \cup {Over}) /\ Len(ops') = Len(ops) /\ DOMAIN ops' = DOMAIN ops
        /\ \A j \in DOMAIN ops : ops'[j] = IF j = o THEN op ELSE ops[j]
    BY <1>1, <1>2
  <1>4. ASSUME NEW j \in DOMAIN ops' PROVE OpOK(ops'[j], disk')
    <2>1. OpOK(ops[j], disk)
      BY <1>3 DEF OpsOK
    <2>2. ASSUME ops[j].state \in {"carried", "settling"}
          PROVE  ops[j].seen <= disk'[ops[j].to]
      <3>1. ops[j] \in Op /\ ops[j].to # Nowhere
        BY <2>1, <2>2 DEF OpOK, Over
      <3>2. ops[j].to \in Places /\ ops[j].seen \in Nat /\ ops[j].seen <= disk[ops[j].to]
        BY <2>1, <2>2, <3>1 DEF OpOK, Op
      <3> QED BY <3>2
    <2>3. OpOK(ops[j], disk')
      BY <2>1, <2>2 DEF OpOK
    <2> QED BY <1>3, <2>3
  <1> QED BY <1>3, <1>4 DEF OpsOK

(* A change that is made now, at the place that is shown. *)
LEMMA NewOK ==
    ASSUME NEW k \in Kinds, NEW p \in Places, NEW d, NEW op \in Op,
           op.kind = k, op.want = p, op.opts = p, op.to = Nowhere, op.state = "paused"
    PROVE  OpOK(Sent(op), d) /\ (op.waited => OpOK(op, d))
  <1>1. Target(op) = p
    BY DEF Target, Places
  <1>2. p # Nowhere
    BY DEF Places, Nowhere
  <1>3. Sent(op) = [op EXCEPT !.state = "sent", !.to = p]
    BY <1>1 DEF Sent
  <1>4. Sent(op) \in Op
    BY <1>3 DEF Op
  <1>5. OpOK(Sent(op), d)
    BY <1>2, <1>3, <1>4 DEF OpOK, Op
  <1> QED BY <1>5 DEF OpOK

(* A delete or an upload is made. *)
LEMMA MutatesOK ==
    ASSUME OpsOK, FetchOK, NEW k \in Kinds, Shown, Mutates(k)
    PROVE  OpsOK' /\ FetchOK'
  <1> DEFINE op == [kind |-> k, want |-> Here, opts |-> Here, to |-> Nowhere, seen |-> 0,
                    waited |-> ~online, state |-> "paused"]
             new == IF online THEN Sent(op) ELSE op
  <1>1. /\ Len(ops) < MaxOps /\ ops' = Append(ops, new)
        /\ current' = [current EXCEPT ![k] = Len(ops')]
        /\ UNCHANGED <<agent, path, online, disk, cache, fetch, failed, known>>
    BY DEF Mutates
  <1>2. Here \in Places /\ online \in BOOLEAN
    BY HereIsPlace DEF FetchOK
  <1>3. op \in Op
    BY <1>2 DEF Op
  <1>4. OpOK(new, disk')
    <2>1. /\ op.kind = k /\ op.want = Here /\ op.opts = Here /\ op.to = Nowhere
          /\ op.state = "paused" /\ op.waited = ~online
      OBVIOUS
    <2> HIDE DEF op
    <2> QED BY <1>2, <1>3, <2>1, NewOK
  <1> HIDE DEF op, new
  <1>5. ops \in Seq(Op \cup {Over}) /\ DOMAIN ops = 1 .. Len(ops) /\ Len(ops) \in Nat
    BY DEF OpsOK
  <1>6. new \in Op \cup {Over}
    BY <1>4 DEF OpOK
  <1>7. /\ ops' \in Seq(Op \cup {Over}) /\ Len(ops') = Len(ops) + 1
        /\ ops'[Len(ops) + 1] = new /\ \A j \in 1 .. Len(ops) : ops'[j] = ops[j]
    BY <1>1, <1>5, <1>6
  <1>8. DOMAIN ops' = 1 .. Len(ops) + 1
    BY <1>5, <1>7
  <1>9. \A j \in DOMAIN ops' : OpOK(ops'[j], disk')
    <2>1. \A j \in 1 .. Len(ops) : OpOK(ops[j], disk')
      BY <1>1, <1>5 DEF OpsOK
    <2> QED BY <1>4, <1>5, <1>7, <1>8, <2>1
  <1>10. Len(ops') <= MaxOps
    BY <1>1, <1>5, <1>7, MaxOpsAssumption
  <1>11. current' \in [Kinds -> 0 .. Len(ops')]
    BY <1>1, <1>5, <1>7 DEF OpsOK
  <1> QED BY <1>1, <1>2, <1>7, <1>9, <1>10, <1>11, FetchKept DEF OpsOK

(* A running change goes on. *)
LEMMA OpStepOK ==
    ASSUME OpsOK, FetchOK, NEW o \in DOMAIN ops, OpStep(o)
    PROVE  OpsOK' /\ FetchOK'
  <1>1. /\ OpOK(ops[o], disk) /\ disk \in [Places -> Nat] /\ online \in BOOLEAN
        /\ \A k \in Places : disk[k] <= disk[k]
    BY DEF OpsOK, FetchOK
  <1>2. OpOK(Over, disk)
    BY DEF OpOK, Over
  <1>3. CASE Carry(o)
    <2> DEFINE k == ops[o].to
               op == [ops[o] EXCEPT !.state = "carried", !.seen = disk'[k]]
    <2>1. /\ ops[o].state = "sent" /\ disk' = [disk EXCEPT ![k] = @ + 1] /\ Moves(o, op)
          /\ UNCHANGED <<agent, path, online, cache, fetch, failed, current, known>>
      BY <1>3 DEF Carry
    <2>2. ops[o] \in Op /\ k \in Places
      BY <1>1, <2>1 DEF OpOK, Over, Op
    <2>3. /\ disk' \in [Places -> Nat] /\ disk'[k] \in Nat
          /\ \A j \in Places : disk[j] <= disk'[j]
      BY <1>1, <2>1, <2>2
    <2>4. op \in Op /\ op.to = k /\ op.seen = disk'[k] /\ op.state = "carried"
          /\ op.want = ops[o].want /\ op.kind = ops[o].kind /\ op.waited = ops[o].waited
      BY <2>2, <2>3 DEF Op
    <2> HIDE DEF op
    <2>5. OpOK(op, disk')
      BY <1>1, <2>1, <2>2, <2>3, <2>4 DEF OpOK, Over
    <2> HIDE DEF op, k
    <2>6. OpsOK'
      BY <1>1, <2>1, <2>3, <2>5, MovesOK
    <2>7. \A j \in Places : known'[j] <= disk'[j]
      <3>1. ASSUME NEW j \in Places PROVE known[j] <= disk'[j]
        <4>1. /\ known[j] \in Nat /\ disk[j] \in Nat /\ disk'[j] \in Nat
              /\ known[j] <= disk[j] /\ disk[j] <= disk'[j]
          BY <2>3 DEF FetchOK
        <4> QED BY <4>1
      <3> QED BY <2>1, <3>1
    <2>8. FetchOK'
      BY <2>1, <2>3, <2>7 DEF FetchOK, FetchesFresh, Running, ListedIsHere, ChangeIsShown,
         Listed, Shown, ShownKey, Here, Key
    <2> QED BY <2>6, <2>8
  <1>4. CASE Fail(o) \/ Settle(o)
    <2>1. Moves(o, Over) /\ UNCHANGED <<agent, path, online, disk, cache, fetch, failed, current, known>>
      BY <1>4 DEF Fail, Settle
    <2>2. OpOK(Over, disk') /\ disk' \in [Places -> Nat] /\ \A k \in Places : disk[k] <= disk'[k]
      BY <1>1, <1>2, <2>1
    <2>3. OpsOK'
      BY <1>1, <2>1, <2>2, MovesOK
    <2> QED BY <1>1, <2>1, <2>3, FetchKept
  <1>5. CASE Succeed(o)
    <2> DEFINE k == Key(ops[o].opts[1], ops[o].opts[2])
               op == IF Shows(k) /\ online THEN [ops[o] EXCEPT !.state = "settling"] ELSE Over
               told == Listed /\ ops[o].to = Here /\ ops[o].opts = Here /\ known[Here] < ops[o].seen
    <2>1. /\ ops[o].state = "carried" /\ Invalidates(k) /\ Moves(o, op)
          /\ known' = IF told THEN [known EXCEPT ![Here] = ops[o].seen] ELSE known
          /\ UNCHANGED <<agent, path, online, disk, cache, current>>
      BY <1>5 DEF Succeed
    <2>2. ops[o] \in Op /\ ops[o].to \in Places /\ ops[o].seen \in Nat
      BY <1>1, <2>1 DEF OpOK, Over, Op
    <2>3. ops[o].seen <= disk[ops[o].to]
      BY <1>1, <2>1 DEF OpOK
    <2>4. k = ops[o].opts /\ k \in Places
      BY <2>2 DEF Key, Op, Places
    <2>5. [ops[o] EXCEPT !.state = "settling"] \in Op
      BY <2>2 DEF Op
    <2>6. OpOK([ops[o] EXCEPT !.state = "settling"], disk)
      <3> DEFINE sop == [ops[o] EXCEPT !.state = "settling"]
      <3>1. /\ sop.to = ops[o].to /\ sop.seen = ops[o].seen /\ sop.state = "settling"
            /\ sop.want = ops[o].want /\ sop.kind = ops[o].kind /\ sop.waited = ops[o].waited
            /\ sop \in Op /\ ops[o] # Over
        BY <2>2, <2>5 DEF Op, Over
      <3> HIDE DEF sop
      <3>2. OpOK(sop, disk)
        BY <1>1, <2>1, <2>3, <3>1 DEF OpOK
      <3> QED BY <3>2 DEF sop
    <2>7. OpOK(op, disk')
      BY <1>2, <2>1, <2>6
    <2> HIDE DEF op, k
    <2>8. disk' \in [Places -> Nat] /\ \A j \in Places : disk[j] <= disk'[j]
      BY <1>1, <2>1
    <2>9. OpsOK'
      BY <1>1, <2>1, <2>7, <2>8, MovesOK
    <2>10. ASSUME told PROVE Here \in Places /\ ShownKey = Here /\ Shows(k) /\ k = Here
      BY <2>4, <2>10, HereIsPlace DEF Listed, Shows
    <2>11. known' \in [Places -> Nat] /\ \A j \in Places : known'[j] <= disk[j]
      BY <2>1, <2>2, <2>3, <2>10 DEF FetchOK
    <2>12. FetchOK'
      <3>1. CASE Shows(k) /\ (cache[k] # NoListing \/ ~Running(k))
        <4>1. Shown /\ ShownKey = k /\ ShownKey = Here /\ agent \in Agents /\ Begins(k, Here)
          BY <2>1, <3>1, HereIsPlace DEF Invalidates, Shows
        <4>2. Begins(k, k) /\ <<agent', path'>> = k
          BY <2>1, <4>1 DEF Here
        <4>3. agent' \in Agents /\ path' \in Paths /\ online' \in BOOLEAN
          BY <1>1, <2>1, <4>1 DEF FetchOK
        <4>4. \A j \in Places : j # k => known'[j] = known[j]
          BY <2>1, <4>1 DEF FetchOK
        <4> QED BY <2>1, <2>4, <2>11, <4>2, <4>3, <4>4, BeginsOK
      <3>2. CASE ~(Shows(k) /\ (cache[k] # NoListing \/ ~Running(k)))
        <4>1. UNCHANGED <<fetch, failed>>
          BY <2>1, <3>2 DEF Invalidates
        <4>2. ~told
          BY <2>10, <3>2 DEF Listed
        <4> QED BY <1>1, <2>1, <4>1, <4>2, FetchKept
      <3> QED BY <3>1, <3>2
    <2> QED BY <2>9, <2>12
  <1> QED BY <1>3, <1>4, <1>5 DEF OpStep

(* A fetch goes on, or its data is forgotten. *)
LEMMA FetchStepOK ==
    ASSUME OpsOK, FetchOK, NEW k \in Places, FetchStep(k)
    PROVE  OpsOK' /\ FetchOK'
  <1> DEFINE F == [state : {"idle", "sent", "read"}, list : Listing \cup {NoListing}]
  <1>1. UNCHANGED <<agent, path, online, disk, ops, current, known>>
    BY DEF FetchStep, FetchRead, FetchDone, FetchFails, Collect
  <1>2. OpsOK'
    BY <1>1 DEF OpsOK
  <1>3. /\ fetch \in [Places -> F] /\ fetch[k] \in F /\ disk \in [Places -> Nat]
        /\ cache \in [Places -> Listing \cup {NoListing}] /\ failed \in BOOLEAN
        /\ \A j \in Places : known[j] <= disk[j] /\ known[j] \in Nat
    BY DEF FetchOK
  <1>4. NoFetch \in F
    BY DEF NoFetch
  <1>5. FetchesFresh
    BY DEF FetchOK
  <1>6. Here' = Here /\ ShownKey' = ShownKey /\ Shown' = Shown /\ (Shown => Here \in Places)
    BY <1>1, HereIsPlace DEF Here, ShownKey, Key, Shown
  <1>7. Shown => ShownKey = Here
    BY HereIsPlace
  <1>8. SUFFICES /\ fetch' \in [Places -> F] /\ cache' \in [Places -> Listing \cup {NoListing}]
                 /\ failed' \in BOOLEAN /\ FetchesFresh' /\ ChangeIsShown'
    <2>1. ListedIsHere'
      BY <1>6, <1>7, <1>8 DEF FetchesFresh, ListedIsHere, Listed
    <2> QED BY <1>1, <1>2, <1>8, <2>1 DEF FetchOK
  <1>9. CASE FetchRead(k)
    <2> DEFINE f == [state |-> "read", list |-> [of |-> k, seen |-> disk[k]]]
    <2>1. fetch[k].state = "sent" /\ cache' = cache /\ failed' = failed
      BY <1>9 DEF FetchRead
    <2>2. fetch[k].list.of = k
      BY <1>5, <2>1 DEF FetchesFresh, Running
    <2>3. disk[k] \in Nat
      BY <1>3
    <2>4. fetch' = [fetch EXCEPT ![k] = f]
      BY <1>9, <2>2 DEF FetchRead
    <2>5. f.state = "read" /\ f.list.of = k /\ f.list.seen = disk[k]
      OBVIOUS
    <2>6. f \in F
      <3>1. [of |-> k, seen |-> disk[k]] \in Listing
        BY <2>3 DEF Listing
      <3> QED BY <3>1
    <2> HIDE DEF f
    <2>7. fetch' \in [Places -> F]
      BY <1>3, <2>4, <2>6
    <2>8. FetchesFresh'
      <3>1. ASSUME NEW j \in Places
            PROVE  /\ Running(j)' => fetch'[j].list.of = j
                   /\ fetch'[j].state = "read" => fetch'[j].list.seen >= known'[j]
                   /\ cache'[j] # NoListing => cache'[j].of = j
        <4>1. fetch'[j] = IF j = k THEN f ELSE fetch[j]
          BY <1>3, <2>4
        <4>2. disk[k] >= known[k]
          BY <1>3, <2>3
        <4> QED BY <1>1, <1>5, <2>1, <2>5, <4>1, <4>2 DEF FetchesFresh, Running
      <3> QED BY <3>1 DEF FetchesFresh
    <2>9. \A j \in Places : Running(j)' <=> Running(j)
      BY <1>3, <2>1, <2>4, <2>5 DEF Running
    <2>10. ChangeIsShown'
      BY <1>1, <1>6, <1>7, <2>1, <2>9 DEF FetchOK, ChangeIsShown, Listed
    <2> QED BY <1>3, <2>1, <2>7, <2>8, <2>10
  <1>10. CASE FetchDone(k)
    <2>1. /\ fetch[k].state = "read" /\ cache' = [cache EXCEPT ![k] = fetch[k].list]
          /\ fetch' = [fetch EXCEPT ![k] = NoFetch] /\ failed' = failed
      BY <1>10 DEF FetchDone
    <2>2. fetch[k].list.of = k /\ fetch[k].list.seen >= known[k]
      BY <1>5, <2>1 DEF FetchesFresh, Running
    <2>3. fetch' \in [Places -> F] /\ cache' \in [Places -> Listing \cup {NoListing}]
      BY <1>3, <1>4, <2>1
    <2>4. FetchesFresh'
      BY <1>1, <1>3, <1>5, <2>1, <2>2 DEF FetchesFresh, Running, NoFetch
    <2>5. ChangeIsShown'
      <3>1. CASE Shown /\ Here = k
        BY <1>1, <1>3, <1>6, <1>7, <2>1, <2>2, <3>1 DEF ChangeIsShown
      <3>2. CASE Shown /\ Here # k
        <4>1. cache'[Here] = cache[Here] /\ fetch'[Here] = fetch[Here]
          BY <1>3, <1>6, <2>1, <3>2
        <4> QED BY <1>1, <1>6, <1>7, <2>1, <3>2, <4>1
                DEF FetchOK, ChangeIsShown, Listed, Running
      <3>3. CASE ~Shown
        BY <1>6, <3>3 DEF ChangeIsShown, Listed
      <3> QED BY <3>1, <3>2, <3>3
    <2> QED BY <1>3, <2>1, <2>3, <2>4, <2>5
  <1>11. CASE FetchFails(k)
    <2>1. /\ fetch' = [fetch EXCEPT ![k] = NoFetch] /\ failed' = (failed \/ Shows(k))
          /\ cache' = cache
      BY <1>11 DEF FetchFails
    <2>2. fetch' \in [Places -> F] /\ failed' \in BOOLEAN
      BY <1>3, <1>4, <2>1
    <2>3. FetchesFresh'
      BY <1>1, <1>3, <1>5, <2>1 DEF FetchesFresh, Running, NoFetch
    <2>4. ChangeIsShown'
      <3>1. CASE Shown /\ Here # k
        <4>1. fetch'[Here] = fetch[Here]
          BY <1>3, <1>6, <2>1, <3>1
        <4> QED BY <1>1, <1>6, <1>7, <2>1, <3>1, <4>1
                DEF FetchOK, ChangeIsShown, Listed, Running
      <3>2. CASE ~(Shown /\ Here # k)
        BY <1>6, <1>7, <2>1, <3>2 DEF ChangeIsShown, Listed, Shows
      <3> QED BY <3>1, <3>2
    <2> QED BY <1>3, <2>1, <2>2, <2>3, <2>4
  <1>12. CASE Collect(k)
    <2>1. /\ ~Shows(k) /\ cache' = [cache EXCEPT ![k] = NoListing]
          /\ fetch' = fetch /\ failed' = failed
      BY <1>12 DEF Collect
    <2>2. cache' \in [Places -> Listing \cup {NoListing}]
      BY <1>3, <2>1
    <2>3. FetchesFresh'
      BY <1>1, <1>3, <1>5, <2>1 DEF FetchesFresh, Running
    <2>4. ChangeIsShown'
      <3>1. CASE Shown
        <4>1. cache'[Here] = cache[Here]
          BY <1>3, <1>6, <1>7, <2>1, <3>1 DEF Shows
        <4> QED BY <1>1, <1>6, <1>7, <2>1, <3>1, <4>1
                DEF FetchOK, ChangeIsShown, Listed, Running
      <3>2. CASE ~Shown
        BY <1>6, <3>2 DEF ChangeIsShown, Listed
      <3> QED BY <3>1, <3>2
    <2> QED BY <1>3, <2>1, <2>2, <2>3, <2>4
  <1> QED BY <1>9, <1>10, <1>11, <1>12 DEF FetchStep

(* The network, and a new fetch of the place shown. *)
LEMMA WindowOK ==
    ASSUME OpsOK, FetchOK, Refresh \/ GoOffline \/ GoOnline
    PROVE  OpsOK' /\ FetchOK'
  <1>1. CASE Refresh
    <2>1. /\ Shown /\ Begins(ShownKey, Here)
          /\ UNCHANGED <<agent, path, online, disk, cache, ops, current, known>>
      BY <1>1 DEF Refresh
    <2>2. Here \in Places /\ ShownKey = Here /\ agent \in Agents /\ <<agent', path'>> = Here
      BY <2>1, HereIsPlace DEF Here
    <2>3. /\ agent' \in Agents /\ path' \in Paths /\ online' \in BOOLEAN
          /\ known' \in [Places -> Nat] /\ \A j \in Places : known'[j] <= disk[j]
      BY <2>1, <2>2 DEF FetchOK
    <2>4. FetchOK'
      BY <2>1, <2>2, <2>3, BeginsOK
    <2> QED BY <2>1, <2>4 DEF OpsOK
  <1>2. CASE GoOffline
    BY <1>2, FetchKept DEF GoOffline, OpsOK
  <1>3. CASE GoOnline
    <2> DEFINE New(o) == IF ops[o].state = "paused" THEN Sent(ops[o]) ELSE ops[o]
    <2>1. /\ ops' = [o \in DOMAIN ops |-> New(o)] /\ online' = TRUE
          /\ UNCHANGED <<agent, path, disk, cache, fetch, failed, current, known>>
      BY <1>3 DEF GoOnline
    <2>2. ops \in Seq(Op \cup {Over}) /\ DOMAIN ops = 1 .. Len(ops) /\ Len(ops) \in Nat
      BY DEF OpsOK
    <2>3. \A o \in DOMAIN ops : OpOK(New(o), disk)
      BY SentOK DEF OpsOK
    <2> HIDE DEF New
    <2>4. \A o \in 1 .. Len(ops) : New(o) \in Op \cup {Over}
      BY <2>2, <2>3 DEF OpOK
    <2>5. ops' \in Seq(Op \cup {Over}) /\ Len(ops') = Len(ops) /\ DOMAIN ops' = DOMAIN ops
      BY <2>1, <2>2, <2>4
    <2>6. \A o \in DOMAIN ops' : OpOK(ops'[o], disk')
      BY <2>1, <2>3, <2>5
    <2>7. OpsOK'
      BY <2>1, <2>5, <2>6 DEF OpsOK
    <2> QED BY <2>1, <2>7, FetchKept
  <1> QED BY <1>1, <1>2, <1>3

(* Every step keeps IInv. *)
LEMMA StepInv ==
    ASSUME IInv, [Next]_vars
    PROVE  IInv'
  <1>1. OpsOK /\ FetchOK
    BY Parts
  <1>2. OpsOK' /\ FetchOK'
    <2>1. CASE UserStep
      <3>1. CASE Delete
        BY <1>1, <3>1, MutatesOK DEF Delete, Listed, Kinds
      <3>2. CASE Upload
        BY <1>1, <3>2, MutatesOK DEF Upload, Kinds
      <3> QED BY <1>1, <2>1, <3>1, <3>2, MoveOK DEF UserStep
    <2>2. CASE UNCHANGED vars
      <3>1. online' \in BOOLEAN
        BY <1>1, <2>2 DEF FetchOK, vars
      <3> QED BY <1>1, <2>2, <3>1, FetchKept DEF vars, OpsOK
    <2>3. CASE Next /\ ~UserStep
      BY <1>1, <2>3, OpStepOK, FetchStepOK, WindowOK DEF Next
    <2> QED BY <2>1, <2>2, <2>3
  <1> QED BY <1>2, PartsNext

(* The first state. *)
LEMMA InitInv == Init => IInv
  <1> SUFFICES ASSUME Init PROVE IInv
    OBVIOUS
  <1>1. OpsOK
    BY MaxOpsAssumption DEF Init, OpsOK
  <1>2. ~Shown /\ ~Listed
    BY DEF Init, Shown, Listed
  <1>3. FetchesFresh
    BY DEF Init, FetchesFresh, Running, NoFetch
  <1>4. NoFetch \in [state : {"idle", "sent", "read"}, list : Listing \cup {NoListing}]
    BY DEF NoFetch
  <1>5. /\ agent \in Agents \cup {NoAgent} /\ path \in Paths
        /\ online \in BOOLEAN /\ failed \in BOOLEAN
        /\ disk \in [Places -> Nat] /\ known \in [Places -> Nat]
        /\ \A k \in Places : known[k] <= disk[k]
    <2>1. agent \in Agents \cup {NoAgent} /\ online \in BOOLEAN /\ failed \in BOOLEAN
      BY DEF Init
    <2>2. path \in Paths
      BY PathsAssumption DEF Init
    <2>3. /\ disk \in [Places -> Nat] /\ known \in [Places -> Nat]
          /\ \A k \in Places : known[k] <= disk[k]
      BY DEF Init
    <2> QED BY <2>1, <2>2, <2>3
  <1>6. /\ cache \in [Places -> Listing \cup {NoListing}]
        /\ fetch \in [Places -> [state : {"idle", "sent", "read"}, list : Listing \cup {NoListing}]]
    BY <1>4 DEF Init
  <1>7. FetchOK
    BY <1>2, <1>3, <1>5, <1>6 DEF FetchOK, ListedIsHere, ChangeIsShown
  <1> QED BY <1>1, <1>7, Parts

------------------------------------------------------------------------------
(* The inductive invariant holds of every state, and so do its parts: the  *)
(* types, ...                                                              *)
THEOREM Inductive == Spec => []IInv
  BY InitInv, StepInv, PTL DEF Spec

(* the type invariant, ... *)
THEOREM TypeCorrect == Spec => []TypeOK
  <1>1. IInv => TypeOK
    BY DEF IInv
  <1> QED BY <1>1, Inductive, PTL

(* a listing that is of the agent and the directory it is shown under, ... *)
THEOREM ListsWhatItNames == Spec => []ListedIsHere
  <1>1. IInv => ListedIsHere
    BY DEF IInv
  <1> QED BY <1>1, Inductive, PTL

(* a change, once confirmed to the panel, that is in what it lists, ...    *)
THEOREM ShowsWhatWasConfirmed == Spec => []ChangeIsShown
  <1>1. IInv => ChangeIsShown
    BY DEF IInv
  <1> QED BY <1>1, Inductive, PTL

(* and changes that are made where they were confirmed, or have waited for *)
(* the network.                                                            *)
THEOREM ChangesWhatWasConfirmed == Spec => []HitsWhatWasConfirmed
  <1>1. IInv => HitsWhatWasConfirmed
    BY DEF IInv
  <1> QED BY <1>1, Inductive, PTL

------------------------------------------------------------------------------
(* That listings advance: what is read is the number of now, which is no   *)
(* less than any that was read before, and a fetch that begins anew has    *)
(* nothing to be older than.                                               *)
LEMMA PastBegins ==
    ASSUME AdvanceInv, NEW k \in Places, NEW p \in Places, Begins(k, p), UNCHANGED <<cache, disk>>
    PROVE  ListingsPast'
  <1>1. /\ fetch' = [fetch EXCEPT ![k] = [state |-> "sent", list |-> [of |-> p, seen |-> 0]]]
        /\ UNCHANGED <<cache, disk>>
    BY DEF Begins
  <1>2. \A j \in Places : fetch'[j].state = "read" => fetch'[j] = fetch[j]
    BY <1>1 DEF AdvanceInv, IInv, TypeOK
  <1> QED BY <1>1, <1>2 DEF AdvanceInv, ListingsPast

(* A step that reads nothing keeps it. *)
LEMMA PastKept ==
    ASSUME AdvanceInv,
           disk' \in [Places -> Nat], \A k \in Places : disk[k] <= disk'[k],
           \A k \in Places : fetch'[k].state = "read" => fetch'[k] = fetch[k],
           \A k \in Places : cache'[k] # NoListing => cache'[k] = cache[k]
    PROVE  ListingsPast'
  <1> SUFFICES ASSUME NEW k \in Places
               PROVE  /\ cache'[k] # NoListing => cache'[k].seen <= disk'[k]
                      /\ fetch'[k].state = "read" =>
                            /\ fetch'[k].list.seen <= disk'[k]
                            /\ cache'[k] # NoListing => cache'[k].seen <= fetch'[k].list.seen
    BY DEF ListingsPast
  <1>1. /\ disk[k] \in Nat /\ disk'[k] \in Nat /\ disk[k] <= disk'[k]
        /\ cache[k].seen \in Nat /\ fetch[k].list.seen \in Nat
    BY DEF AdvanceInv, IInv, TypeOK, Listing, NoListing
  <1>2. /\ cache[k] # NoListing => cache[k].seen <= disk[k]
        /\ fetch[k].state = "read" => fetch[k].list.seen <= disk[k]
        /\ fetch[k].state = "read" /\ cache[k] # NoListing => cache[k].seen <= fetch[k].list.seen
    BY DEF AdvanceInv, ListingsPast
  <1> QED BY <1>1, <1>2

(* Directories change, listings do not, and a fetch may begin. *)
LEMMA PastMoves ==
    ASSUME AdvanceInv,
           UserStep \/ (\E o \in DOMAIN ops : OpStep(o)) \/ Refresh \/ GoOffline \/ GoOnline
    PROVE  ListingsPast' /\ cache' = cache
  <1> USE DEF AdvanceInv
  <1>1. /\ disk \in [Places -> Nat] /\ fetch = fetch /\ FetchOK /\ OpsOK
        /\ \A k \in Places : disk[k] <= disk[k]
    BY Parts DEF IInv, TypeOK
  <1>2. ASSUME UNCHANGED <<disk, cache, fetch>> PROVE ListingsPast' /\ cache' = cache
    BY <1>1, <1>2, PastKept
  <1>3. ASSUME NEW a \in Agents, NEW p \in Paths, Renders(a, p)
        PROVE  ListingsPast' /\ cache' = cache
    <2>1. <<a, p>> \in Places /\ Key(a, p) = <<a, p>> /\ UNCHANGED <<disk, cache>>
      BY <1>3 DEF Places, Key, Renders
    <2>2. UNCHANGED fetch \/ Begins(<<a, p>>, <<a, p>>)
      BY <1>3, <2>1 DEF Renders, Observes
    <2> QED BY <1>2, <2>1, <2>2, PastBegins
  <1>4. path \in Paths /\ path \in Seq(STRING) /\ Len(path) \in Nat
    BY PathsAssumption DEF IInv, TypeOK
  <1>5. ASSUME NEW o \in DOMAIN ops, Carry(o) PROVE ListingsPast' /\ cache' = cache
    <2>1. OpOK(ops[o], disk) /\ ops[o].state = "sent"
      BY <1>1, <1>5 DEF OpsOK, Carry
    <2>2. ops[o].to \in Places
      BY <2>1 DEF OpOK, Over, Op
    <2>3. /\ disk' = [disk EXCEPT ![ops[o].to] = @ + 1] /\ UNCHANGED <<cache, fetch>>
      BY <1>5 DEF Carry
    <2>4. disk' \in [Places -> Nat] /\ \A k \in Places : disk[k] <= disk'[k]
      BY <1>1, <2>2, <2>3
    <2> QED BY <2>3, <2>4, PastKept
  <1>6. ASSUME NEW o \in DOMAIN ops, Succeed(o) PROVE ListingsPast' /\ cache' = cache
    <2> DEFINE k == Key(ops[o].opts[1], ops[o].opts[2])
    <2>1. UNCHANGED <<disk, cache>> /\ Invalidates(k)
      BY <1>6 DEF Succeed
    <2>2. CASE UNCHANGED fetch
      BY <1>2, <2>1, <2>2
    <2>3. CASE Shows(k) /\ Begins(k, Here)
      <3>1. Here \in Places /\ k = Here
        BY <1>1, <2>3, HereIsPlace DEF Shows
      <3> QED BY <2>1, <2>3, <3>1, PastBegins
    <2> QED BY <2>1, <2>2, <2>3 DEF Invalidates
  <1>7. CASE Refresh
    BY <1>1, <1>7, HereIsPlace, PastBegins DEF Refresh
  <1>8. CASE \E a \in Agents : SwitchTo(a)
    BY <1>3, <1>4, <1>8, PathsAssumption DEF SwitchTo
  <1>9. CASE \E p \in Paths : Enter(p)
    BY <1>1, <1>3, <1>9, HereIsPlace DEF Enter, SetPath, Listed
  <1>10. CASE Up
    <2>1. path # <<>> /\ Shown /\ Renders(agent, SubSeq(path, 1, Len(path) - 1))
      BY <1>10 DEF Up, Listed, SetPath
    <2>2. Len(path) - 1 \in 0 .. Len(path)
      BY <1>4, <2>1
    <2> QED BY <1>1, <1>3, <1>4, <2>1, <2>2, PathsAssumption, HereIsPlace
  <1>11. CASE \E i \in 0 .. Len(path) : Crumb(i)
    <2>1. PICK i \in 0 .. Len(path) : Shown /\ Renders(agent, SubSeq(path, 1, i))
      BY <1>11 DEF Crumb, SetPath
    <2> QED BY <1>1, <1>3, <1>4, <2>1, PathsAssumption, HereIsPlace
  <1>12. CASE Leave \/ Delete \/ Upload
    BY <1>2, <1>12 DEF Leave, Delete, Upload, Mutates
  <1>13. CASE \E o \in DOMAIN ops : Fail(o) \/ Settle(o)
    BY <1>2, <1>13 DEF Fail, Settle
  <1>14. CASE GoOffline \/ GoOnline
    BY <1>2, <1>14 DEF GoOffline, GoOnline
  <1> QED BY <1>5, <1>6, <1>7, <1>8, <1>9, <1>10, <1>11, <1>12, <1>13, <1>14
          DEF UserStep, OpStep

(* What arrives was read after what is there. *)
LEMMA PastFetches ==
    ASSUME AdvanceInv, NEW k \in Places, FetchStep(k)
    PROVE  /\ ListingsPast'
           /\ \A j \in Places : cache[j] # NoListing /\ cache'[j] # NoListing =>
                 cache'[j].of = cache[j].of /\ cache'[j].seen >= cache[j].seen
  <1>1. /\ disk \in [Places -> Nat] /\ disk' = disk
        /\ \A j \in Places : /\ disk[j] <= disk[j]
                             /\ cache[j] \in Listing \cup {NoListing}
                             /\ cache[j].seen \in Nat /\ cache[j].seen >= cache[j].seen
                             /\ fetch[j].list.seen \in Nat
    BY DEF AdvanceInv, IInv, TypeOK, FetchStep, FetchRead, FetchDone, FetchFails, Collect,
           Listing, NoListing
  <1>2. /\ fetch \in [Places -> [state : {"idle", "sent", "read"}, list : Listing \cup {NoListing}]]
        /\ cache \in [Places -> Listing \cup {NoListing}]
    BY DEF AdvanceInv, IInv, TypeOK
  <1>3. CASE FetchRead(k)
    <2> DEFINE p == fetch[k].list.of
    <2>1. /\ fetch' = [fetch EXCEPT ![k] = [state |-> "read", list |-> [of |-> p, seen |-> disk[p]]]]
          /\ cache' = cache /\ fetch[k].state = "sent"
      BY <1>3 DEF FetchRead
    <2>2. p = k
      BY <2>1 DEF AdvanceInv, IInv, FetchesFresh, Running
    <2>3. \A j \in Places : fetch'[j] = IF j = k THEN [state |-> "read", list |-> [of |-> k, seen |-> disk[k]]]
                                        ELSE fetch[j]
      BY <1>2, <2>1, <2>2
    <2>4. ListingsPast'
      BY <1>1, <2>1, <2>3 DEF AdvanceInv, ListingsPast
    <2> QED BY <1>1, <2>1, <2>4
  <1>4. CASE FetchDone(k)
    <2>1. /\ cache' = [cache EXCEPT ![k] = fetch[k].list] /\ fetch' = [fetch EXCEPT ![k] = NoFetch]
          /\ fetch[k].state = "read"
      BY <1>4 DEF FetchDone
    <2>2. /\ fetch[k].list.seen <= disk[k] /\ fetch[k].list.of = k
          /\ cache[k] # NoListing => cache[k].seen <= fetch[k].list.seen /\ cache[k].of = k
      BY <2>1 DEF AdvanceInv, ListingsPast, IInv, FetchesFresh, Running
    <2>3. \A j \in Places : /\ cache'[j] = IF j = k THEN fetch[k].list ELSE cache[j]
                            /\ fetch'[j] = IF j = k THEN NoFetch ELSE fetch[j]
      BY <1>2, <2>1
    <2>4. ListingsPast'
      BY <1>1, <2>2, <2>3 DEF AdvanceInv, ListingsPast, NoFetch
    <2> QED BY <1>1, <2>2, <2>3, <2>4
  <1>5. CASE FetchFails(k)
    <2>1. cache' = cache /\ fetch' = [fetch EXCEPT ![k] = NoFetch]
      BY <1>5 DEF FetchFails
    <2>2. \A j \in Places : fetch'[j].state = "read" => fetch'[j] = fetch[j]
      BY <1>2, <2>1 DEF NoFetch
    <2> QED BY <1>1, <2>1, <2>2, PastKept
  <1>6. CASE Collect(k)
    <2>1. cache' = [cache EXCEPT ![k] = NoListing] /\ fetch' = fetch
      BY <1>6 DEF Collect
    <2>2. \A j \in Places : cache'[j] # NoListing => cache'[j] = cache[j]
      BY <1>2, <2>1
    <2> QED BY <1>1, <2>1, <2>2, PastKept
  <1> QED BY <1>3, <1>4, <1>5, <1>6 DEF FetchStep

(* Every step keeps AdvanceInv and takes no listing back. *)
LEMMA AdvanceStep ==
    ASSUME AdvanceInv, [Next]_vars
    PROVE  /\ AdvanceInv'
           /\ \A j \in Places : cache[j] # NoListing /\ cache'[j] # NoListing =>
                 cache'[j].of = cache[j].of /\ cache'[j].seen >= cache[j].seen
  <1>1. IInv'
    BY StepInv DEF AdvanceInv
  <1>2. \A j \in Places : cache[j].seen >= cache[j].seen
    BY DEF AdvanceInv, IInv, TypeOK, Listing, NoListing
  <1>3. CASE UNCHANGED vars
    <2>1. UNCHANGED <<cache, fetch, disk>>
      BY <1>3 DEF vars
    <2> QED BY <1>1, <1>2, <2>1 DEF AdvanceInv, ListingsPast
  <1>4. CASE \E k \in Places : FetchStep(k)
    BY <1>1, <1>4, PastFetches DEF AdvanceInv
  <1>5. CASE Next /\ ~\E k \in Places : FetchStep(k)
    BY <1>1, <1>2, <1>5, PastMoves DEF AdvanceInv, Next
  <1> QED BY <1>3, <1>4, <1>5

(* No listing is of the future, and none that is coming is older than the  *)
(* one that is there, ...                                                  *)
THEOREM AdvanceInvariance == Spec => []AdvanceInv
  <1>1. Init => AdvanceInv
    <2>1. Init => ListingsPast
      BY DEF Init, ListingsPast, NoFetch
    <2> QED BY <2>1, InitInv DEF AdvanceInv
  <1>2. AdvanceInv /\ [Next]_vars => AdvanceInv'
    BY AdvanceStep
  <1> QED BY <1>1, <1>2, PTL DEF Spec

(* so that what the panel lists of a place never goes back.                *)
THEOREM NeverGoesBack == Spec => ListingsAdvance
  <1>1. AdvanceInv /\ [Next]_vars =>
            [\A k \in Places :
                cache[k] # NoListing /\ cache'[k] # NoListing =>
                    cache'[k].of = cache[k].of /\ cache'[k].seen >= cache[k].seen]_vars
    BY AdvanceStep
  <1> QED BY <1>1, AdvanceInvariance, PTL DEF Spec, ListingsAdvance
==============================================================================
