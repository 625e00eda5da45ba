---------------------------- MODULE BrowserProofs ----------------------------
(***************************************************************************)
(* Proofs about Browser, for any number of tabs, logins and calls: IInv is *)
(* inductive, and with it the tabs have an active one, the sockets are     *)
(* those of the panels, and the displayed terminal fills the window.       *)
(***************************************************************************)
EXTENDS Browser, TLAPS

(* What RemoveAt leaves of a sequence of ids. *)
LEMMA RemoveFacts ==
    ASSUME NEW s \in Seq(Ids), NEW i \in DOMAIN s
    PROVE  /\ RemoveAt(s, i) \in Seq(Ids)
           /\ Len(RemoveAt(s, i)) = Len(s) - 1
           /\ \A j \in 1 .. Len(s) - 1 :
                  RemoveAt(s, i)[j] = IF j < i THEN s[j] ELSE s[j + 1]
  <1> DEFINE a == SubSeq(s, 1, i - 1)
             b == SubSeq(s, i + 1, Len(s))
  <1>1. a \in Seq(Ids) /\ Len(a) = i - 1 /\ \A j \in 1 .. i - 1 : a[j] = s[j]
    OBVIOUS
  <1>2. b \in Seq(Ids) /\ Len(b) = Len(s) - i
    OBVIOUS
  <1>3. \A j \in 1 .. Len(s) - i : b[j] = s[i + j]
    OBVIOUS
  <1>4. i \in 1 .. Len(s)
    OBVIOUS
  <1>5. RemoveAt(s, i) = a \o b
    BY DEF RemoveAt
  <1> HIDE DEF a, b
  <1>6. a \o b \in Seq(Ids) /\ Len(a \o b) = Len(a) + Len(b)
    BY <1>1, <1>2
  <1>7. \A j \in 1 .. Len(a) + Len(b) :
            (a \o b)[j] = IF j <= Len(a) THEN a[j] ELSE b[j - Len(a)]
    BY <1>1, <1>2
  <1>8. ASSUME NEW j \in 1 .. Len(s) - 1
        PROVE  (a \o b)[j] = IF j < i THEN s[j] ELSE s[j + 1]
    <2>1. CASE j < i
      BY <1>1, <1>2, <1>4, <1>7, <2>1
    <2>2. CASE ~(j < i)
      <3>1. j - (i - 1) \in 1 .. Len(s) - i
        BY <1>4, <2>2
      <3>2. b[j - (i - 1)] = s[i + (j - (i - 1))]
        BY <1>3, <3>1
      <3>3. i + (j - (i - 1)) = j + 1
        BY <1>4
      <3>4. (a \o b)[j] = b[j - (i - 1)]
        BY <1>1, <1>2, <1>4, <1>7, <2>2
      <3> QED BY <2>2, <3>2, <3>3, <3>4
    <2> QED BY <2>1, <2>2
  <1> QED BY <1>1, <1>2, <1>4, <1>5, <1>6, <1>8

(* The session's part of IInv after a step: the types, no dashboard        *)
(* without a token, no unjustified 401.                                    *)
SessionMoves ==
    /\ SessionTypeOK'
    /\ Shown' => token' # NoToken
    /\ UnauthorizedIsInvalid'

(* Storing a token and changing the page. *)
LEMMA BecomesTyped ==
    ASSUME SessionTypeOK, NEW t \in Tokens \cup {NoToken}, NEW p \in {"login", "dashboard"},
           NEW c \in Calls \cup {NoCall}, Becomes(t, p, c)
    PROVE  /\ token' \in Tokens \cup {NoToken}
           /\ page' \in {"login", "dashboard"}
           /\ loading' \in Calls \cup {NoCall}
           /\ Shown' => token' # NoToken
  BY DEF SessionTypeOK, Becomes, Shown

(* A request goes out. *)
(* A request goes out. *)
LEMMA SubmitMoves ==
    ASSUME IInv, NEW c \in Calls, NEW k \in {"login", "api"}, NEW t \in Tokens \cup {NoToken},
           Sends(c, k, t), loading' \in Calls \cup {NoCall}
    PROVE  SessionMoves
  <1>1. [kind |-> k, token |-> t, answer |-> "none"] \in
            [kind : {"idle", "login", "api"}, token : Tokens \cup {NoToken},
             answer : {"none", "ok", "401", "error"}]
    OBVIOUS
  <1>2. SessionTypeOK' /\ (Shown' => token' # NoToken)
    BY <1>1 DEF IInv, TypeOK, SessionTypeOK, Sends, Shown
  <1>3. UnauthorizedIsInvalid'
    BY DEF IInv, TypeOK, SessionTypeOK, Sends, UnauthorizedIsInvalid
  <1> QED BY <1>2, <1>3 DEF SessionMoves

(* An answer is recorded and nothing else of the window changes. *)
LEMMA AnswersMoves ==
    ASSUME IInv, NEW c \in Calls, NEW t \in Tokens \cup {NoToken},
           NEW a \in {"ok", "401", "error"}, Answers(c, t, a),
           issued' \in 0 .. MaxLogins, issued <= issued',
           a = "401" => calls[c].kind = "login" \/ t \notin Tokens \ expired,
           UNCHANGED <<token, page, loading, expired, awake>>
    PROVE  SessionMoves
  <1> DEFINE C == [kind : {"idle", "login", "api"}, token : Tokens \cup {NoToken},
                   answer : {"none", "ok", "401", "error"}]
  <1>1. calls \in [Calls -> C]
    BY DEF IInv, TypeOK, SessionTypeOK
  <1>2. calls' = [calls EXCEPT ![c] = [calls[c] EXCEPT !.token = t, !.answer = a]]
    BY <1>1 DEF Answers
  <1>3. [calls[c] EXCEPT !.token = t, !.answer = a] \in C
    BY <1>1
  <1>4. calls' \in [Calls -> C]
    BY <1>1, <1>2, <1>3
  <1>5. expired' \in SUBSET (1 .. issued')
    BY MaxLoginsAssumption DEF IInv, TypeOK, SessionTypeOK
  <1>6. UnauthorizedIsInvalid'
    BY <1>1, <1>2 DEF IInv, UnauthorizedIsInvalid
  <1> QED BY <1>4, <1>5, <1>6 DEF IInv, TypeOK, SessionTypeOK, SessionMoves, Shown

(* An answer arrives. *)
(* An answer arrives. *)
LEMMA ReceivedMoves ==
    ASSUME IInv, NEW c \in Calls, Received(c), NEW t \in Tokens \cup {NoToken},
           NEW p \in {"login", "dashboard"}, Becomes(t, p, c)
    PROVE  SessionMoves
  <1>1. Idle \in [kind : {"idle", "login", "api"}, token : Tokens \cup {NoToken},
                  answer : {"none", "ok", "401", "error"}]
    BY DEF Idle
  <1>2. SessionTypeOK
    BY DEF IInv, TypeOK
  <1>3. calls' \in [Calls -> [kind : {"idle", "login", "api"}, token : Tokens \cup {NoToken},
                              answer : {"none", "ok", "401", "error"}]]
    BY <1>1, <1>2 DEF SessionTypeOK, Received
  <1>4. UnauthorizedIsInvalid'
    BY <1>2 DEF IInv, SessionTypeOK, Received, Idle, UnauthorizedIsInvalid
  <1> QED BY <1>2, <1>3, <1>4, BecomesTyped DEF SessionTypeOK, Received, SessionMoves

(* Every step of a call. *)
LEMMA CallMoves ==
    ASSUME IInv, NEW c \in Calls,
           \/ Submit(c) \/ ApiCall(c) \/ Grant(c) \/ Refuse(c) \/ Serve(c) \/ Lose(c)
           \/ LoggedIn(c) \/ Rejected(c) \/ Answered(c)
    PROVE  SessionMoves
  <1>0. /\ token \in Tokens \cup {NoToken}
        /\ page \in {"login", "dashboard"}
        /\ loading \in Calls \cup {NoCall}
        /\ calls[c].token \in Tokens \cup {NoToken}
        /\ issued \in 0 .. MaxLogins
    BY DEF IInv, TypeOK, SessionTypeOK
  <1>1. CASE Submit(c)
    <2>1. Sends(c, "login", NoToken) /\ loading' = c
      BY <1>1 DEF Submit
    <2> QED BY <2>1, SubmitMoves
  <1>2. CASE ApiCall(c)
    <2>1. Sends(c, "api", token) /\ loading' = loading
      BY <1>2 DEF ApiCall
    <2> QED BY <1>0, <2>1, SubmitMoves
  <1>3. CASE Grant(c)
    <2>1. /\ issued' = issued + 1 /\ issued < MaxLogins /\ Answers(c, issued', "ok")
          /\ UNCHANGED <<token, page, loading, expired, awake>>
      BY <1>3 DEF Grant
    <2>2. issued' \in Tokens \cup {NoToken} /\ issued' \in 0 .. MaxLogins /\ issued <= issued'
      BY <1>0, <2>1, MaxLoginsAssumption DEF Tokens
    <2> QED BY <2>1, <2>2, AnswersMoves
  <1>4. CASE Refuse(c)
    <2>1. /\ issued' = issued
          /\ \E a \in {"ok", "401", "error"} : Answers(c, NoToken, a)
          /\ UNCHANGED <<token, page, loading, expired, awake>>
      BY <1>4 DEF Refuse
    <2>2. issued' \in 0 .. MaxLogins /\ issued <= issued'
      BY <1>0, <2>1, MaxLoginsAssumption
    <2>3. calls[c].kind = "login"
      BY <1>4 DEF Refuse, Pending
    <2> QED BY <2>1, <2>2, <2>3, AnswersMoves
  <1>5. CASE Serve(c)
    <2>1. /\ issued' = issued
          /\ \E t \in Tokens \cup {NoToken} : \E a \in {"ok", "401", "error"} :
                 Answers(c, t, a) /\ (a = "401" => t \notin Tokens \ expired)
          /\ UNCHANGED <<token, page, loading, expired, awake>>
      BY <1>0, <1>5 DEF Serve
    <2>2. issued' \in 0 .. MaxLogins /\ issued <= issued'
      BY <1>0, <2>1, MaxLoginsAssumption
    <2> QED BY <2>1, <2>2, AnswersMoves
  <1>6. CASE Lose(c)
    <2>1. /\ issued' = issued /\ Answers(c, NoToken, "error")
          /\ UNCHANGED <<token, page, loading, expired, awake>>
      BY <1>6 DEF Lose
    <2>2. issued' \in 0 .. MaxLogins /\ issued <= issued'
      BY <1>0, <2>1, MaxLoginsAssumption
    <2> QED BY <2>1, <2>2, AnswersMoves
  <1>7. CASE LoggedIn(c)
    BY <1>0, <1>7, ReceivedMoves DEF LoggedIn
  <1>8. CASE Rejected(c)
    BY <1>8, ReceivedMoves DEF Rejected
  <1>9. CASE Answered(c)
    BY <1>0, <1>9, ReceivedMoves DEF Answered
  <1> QED BY <1>1, <1>2, <1>3, <1>4, <1>5, <1>6, <1>7, <1>8, <1>9

(* Every other step of the session. *)
(* Every other step of the session. *)
LEMMA OtherMoves ==
    ASSUME IInv,
           \/ \E t \in Tokens : Expire(t)
           \/ \E p \in {"login", "dashboard"} : Visit(p)
           \/ SleepOrWake
           \/ Logout
    PROVE  SessionMoves
  <1>0. SessionTypeOK /\ (Shown => token # NoToken)
    BY DEF IInv, TypeOK
  <1>1. ASSUME NEW t \in Tokens, Expire(t) PROVE SessionMoves
    BY <1>0, <1>1 DEF Expire, SessionTypeOK, SessionMoves, Shown, IInv, UnauthorizedIsInvalid
  <1>2. ASSUME NEW p \in {"login", "dashboard"}, Visit(p) PROVE SessionMoves
    <2>1. token \in Tokens \cup {NoToken} /\ Becomes(token, p, NoCall)
      BY <1>0, <1>2 DEF Visit, SessionTypeOK
    <2> QED BY <1>0, <1>2, <2>1, BecomesTyped
            DEF Visit, SessionTypeOK, SessionMoves, IInv, UnauthorizedIsInvalid
  <1>3. CASE SleepOrWake
    BY <1>0, <1>3 DEF SleepOrWake, SessionTypeOK, SessionMoves, Shown, IInv, UnauthorizedIsInvalid
  <1>4. CASE Logout
    <2>1. Becomes(NoToken, "login", NoCall)
      BY <1>4 DEF Logout
    <2> QED BY <1>0, <1>4, <2>1, BecomesTyped
            DEF Logout, SessionTypeOK, SessionMoves, IInv, UnauthorizedIsInvalid
  <1> QED BY <1>1, <1>2, <1>3, <1>4

------------------------------------------------------------------------------
(* The ids in the tab bar. *)
LEMMA OpenFacts ==
    ASSUME IInv
    PROVE  /\ tabs \in Seq(Ids) /\ Open \subseteq Ids /\ Terminals \subseteq Open
           /\ \A i \in 1 .. Len(tabs) : tabs[i] \in Open
           /\ \A t \in Open : \E i \in 1 .. Len(tabs) : tabs[i] = t
           /\ opened \in 0 .. MaxTabs
           /\ MaxTabs \in Nat
           /\ NoTab \notin Ids
  <1>1. tabs \in Seq(Ids) /\ opened \in 0 .. MaxTabs
    BY DEF IInv, TypeOK, TabsTypeOK
  <1>2. NoTab \notin Ids
    BY MaxTabsAssumption DEF NoTab, Ids
  <1>3. DOMAIN tabs = 1 .. Len(tabs)
    BY <1>1
  <1>4. Open = {tabs[i] : i \in 1 .. Len(tabs)}
    BY <1>3 DEF Open, Range
  <1>5. \A i \in 1 .. Len(tabs) : tabs[i] \in Ids
    BY <1>1
  <1> QED BY <1>1, <1>2, <1>4, <1>5, MaxTabsAssumption DEF Terminals

(* open adds a new id, which no tab has or had, and makes it active. *)
LEMMA TabOpened ==
    ASSUME IInv, NEW k \in {"terminal", "files"}, TabOpen(k)
    PROVE  /\ TabsTypeOK' /\ TabsDistinct' /\ ActiveIsTab'
           /\ opened' \in Ids \ Open /\ activeId' = opened'
           /\ Terminals' \ {opened'} = Terminals
           /\ Terminals' \subseteq Terminals \cup {opened'}
  <1>1. /\ opened < MaxTabs /\ opened' = opened + 1 /\ activeId' = opened'
        /\ tabs' = Append(tabs, opened') /\ kind' = [kind EXCEPT ![opened'] = k]
    BY DEF TabOpen
  <1>2. tabs \in Seq(Ids) /\ opened \in 0 .. MaxTabs /\ MaxTabs \in Nat
    BY OpenFacts
  <1>3. \A t \in Open : t \in Ids /\ t <= opened
    BY OpenFacts DEF IInv, TabsDistinct
  <1>4. opened' \in Ids \ Open
    BY <1>1, <1>2, <1>3 DEF Ids
  <1>5. /\ tabs' \in Seq(Ids) /\ Len(tabs') = Len(tabs) + 1
        /\ tabs'[Len(tabs) + 1] = opened'
        /\ \A i \in 1 .. Len(tabs) : tabs'[i] = tabs[i]
    BY <1>1, <1>2, <1>4
  <1>6. DOMAIN tabs' = 1 .. Len(tabs) + 1 /\ DOMAIN tabs = 1 .. Len(tabs) /\ Len(tabs) \in Nat
    BY <1>2, <1>5
  <1>7. Open' = Open \cup {opened'}
    BY <1>5, <1>6 DEF Open, Range
  <1>8. TabsTypeOK'
    BY <1>1, <1>2, <1>4, <1>5 DEF TabsTypeOK, IInv, TypeOK, Ids
  <1>9. TabsDistinct'
    <2>1. ASSUME NEW i \in DOMAIN tabs', NEW j \in DOMAIN tabs', tabs'[i] = tabs'[j]
          PROVE  i = j
      <3>1. \A m \in 1 .. Len(tabs) : tabs[m] # opened'
        BY <1>4, OpenFacts
      <3>2. \A m, n \in 1 .. Len(tabs) : tabs[m] = tabs[n] => m = n
        BY <1>6 DEF IInv, TabsDistinct
      <3> QED BY <1>5, <1>6, <2>1, <3>1, <3>2
    <2>2. \A t \in Open' : t <= opened'
      BY <1>1, <1>2, <1>3, <1>7 DEF Ids
    <2> QED BY <2>1, <2>2 DEF TabsDistinct
  <1>10. \A t \in Open : kind'[t] = kind[t]
    BY <1>1, <1>3, <1>4 DEF IInv, TypeOK, TabsTypeOK
  <1>11. Terminals' = {t \in Open \cup {opened'} : kind'[t] = "terminal"}
    BY <1>7 DEF Terminals
  <1>12. Terminals' \ {opened'} = Terminals /\ Terminals' \subseteq Terminals \cup {opened'}
    BY <1>4, <1>10, <1>11 DEF Terminals
  <1> QED BY <1>1, <1>4, <1>7, <1>8, <1>9, <1>12 DEF ActiveIsTab

(* close takes one id out of the bar; if it was the active one, another    *)
(* that remains becomes active, or none does when none remains.            *)
LEMMA TabClosed ==
    ASSUME IInv, NEW t \in Ids, TabClose(t)
    PROVE  /\ TabsTypeOK' /\ TabsDistinct' /\ ActiveIsTab'
           /\ Terminals' = Terminals \ {t}
           /\ activeId' # activeId => activeId = t
           /\ activeId' # t
  <1> DEFINE x == IndexOf(t)
             rest == RemoveAt(tabs, x)
  <1>1. /\ t \in Open /\ tabs' = rest /\ opened' = opened /\ kind' = kind
        /\ activeId' = IF activeId = t THEN Neighbour(x) ELSE activeId
    BY DEF TabClose
  <1>2. tabs \in Seq(Ids) /\ DOMAIN tabs = 1 .. Len(tabs) /\ Len(tabs) \in Nat
    BY OpenFacts
  <1>3. x \in 1 .. Len(tabs) /\ tabs[x] = t
    <2>1. \E i \in DOMAIN tabs : tabs[i] = t
      BY <1>1, <1>2, OpenFacts
    <2> QED BY <1>2, <2>1 DEF IndexOf
  <1> HIDE DEF x
  <1>4. /\ rest \in Seq(Ids) /\ Len(rest) = Len(tabs) - 1
        /\ \A j \in 1 .. Len(tabs) - 1 : rest[j] = IF j < x THEN tabs[j] ELSE tabs[j + 1]
    BY <1>2, <1>3, RemoveFacts
  <1> HIDE DEF rest
  <1>5. DOMAIN rest = 1 .. Len(tabs) - 1
    BY <1>2, <1>3, <1>4
  <1>6. \A i, j \in 1 .. Len(tabs) : tabs[i] = tabs[j] => i = j
    BY <1>2 DEF IInv, TabsDistinct
  <1>7. \A i, j \in 1 .. Len(tabs) - 1 : rest[i] = rest[j] => i = j
    BY <1>2, <1>3, <1>4, <1>6
  <1>8. Range(rest) = Open \ {t}
    <2>0. Range(rest) = {rest[j] : j \in 1 .. Len(tabs) - 1}
      BY <1>5 DEF Range
    <2>1. ASSUME NEW j \in 1 .. Len(tabs) - 1 PROVE rest[j] \in Open /\ rest[j] # t
      <3>1. CASE j < x
        BY <1>2, <1>3, <1>4, <1>6, <3>1, OpenFacts
      <3>2. CASE ~(j < x)
        <4>1. j + 1 \in 1 .. Len(tabs) /\ j + 1 # x
          BY <1>2, <1>3, <3>2
        <4> QED BY <1>3, <1>4, <1>6, <3>2, <4>1, OpenFacts
      <3> QED BY <3>1, <3>2
    <2>2. ASSUME NEW u \in Open, u # t PROVE \E j \in 1 .. Len(tabs) - 1 : rest[j] = u
      <3>1. PICK i \in 1 .. Len(tabs) : tabs[i] = u
        BY OpenFacts
      <3>2. i # x
        BY <1>3, <2>2, <3>1
      <3>3. CASE i < x
        BY <1>2, <1>3, <1>4, <3>1, <3>3
      <3>4. CASE i > x
        <4>1. i - 1 \in 1 .. Len(tabs) - 1 /\ ~(i - 1 < x) /\ (i - 1) + 1 = i
          BY <1>2, <1>3, <3>4
        <4> QED BY <1>4, <3>1, <4>1
      <3> QED BY <1>2, <1>3, <3>2, <3>3, <3>4
    <2> QED BY <2>0, <2>1, <2>2
  <1>9. Open' = Open \ {t}
    BY <1>1, <1>8 DEF Open
  <1>10. Neighbour(x) \in Open \ {t} \/ (Neighbour(x) = NoTab /\ rest = <<>>)
    <2>1. Neighbour(x) = IF rest = <<>> THEN NoTab ELSE IF x = 1 THEN rest[1] ELSE rest[x - 1]
      BY DEF Neighbour, rest
    <2>2. ASSUME rest # <<>> PROVE Len(tabs) - 1 >= 1
      BY <1>2, <1>3, <1>4, <2>2
    <2>3. ASSUME rest # <<>>
          PROVE  (IF x = 1 THEN 1 ELSE x - 1) \in 1 .. Len(tabs) - 1
      BY <1>2, <1>3, <2>2, <2>3
    <2>4. \A j \in 1 .. Len(tabs) - 1 : rest[j] \in Open \ {t}
      BY <1>5, <1>8 DEF Range
    <2> QED BY <2>1, <2>3, <2>4
  <1>11. NoTab # t
    BY OpenFacts
  <1>12. activeId \in Open \/ (activeId = NoTab /\ tabs = <<>>)
    BY DEF IInv, ActiveIsTab
  <1>13. tabs # <<>>
    BY <1>2, <1>3
  <1>14. ActiveIsTab' /\ activeId' # t
    BY <1>1, <1>9, <1>10, <1>11, <1>12, <1>13 DEF ActiveIsTab
  <1>15. TabsTypeOK'
    BY <1>1, <1>4, <1>9, <1>14, OpenFacts DEF ActiveIsTab, TabsTypeOK, IInv, TypeOK
  <1>16. TabsDistinct'
    BY <1>1, <1>5, <1>7, <1>9 DEF TabsDistinct, IInv
  <1>17. Terminals' = Terminals \ {t}
    BY <1>1, <1>9 DEF Terminals
  <1> QED BY <1>1, <1>14, <1>15, <1>16, <1>17

------------------------------------------------------------------------------
(* What the panels hold: their part of IInv. *)
PanelsOK ==
    /\ window \in Sizes
    /\ size \in [Ids -> AllSizes]
    /\ refit \in Ids \cup {NoTab}
    /\ sockets \in SUBSET Socket
    /\ TimerIsActive
    /\ SocketsFollowPanels
    /\ DisplayedIsFitted

(* The effect of the panels of T makes one socket for each of them, closes *)
(* the ones they had, and fits the displayed terminal.                     *)
LEMMA EffectFacts ==
    ASSUME IInv, NEW T \in SUBSET Ids, token' \in Tokens, Effect(T)
    PROVE  /\ size' \in [Ids -> AllSizes] /\ sockets' \in SUBSET Socket
           /\ \A t \in T : activeId' = t => size'[t] = window
           /\ \A t \in Ids \ T : size'[t] = size[t]
           /\ \A s \in sockets' : \/ s \in sockets /\ s.tab \notin T
                                  \/ s.tab \in T /\ s.token = token' /\ s = Connecting(s.tab)
  <1>1. size \in [Ids -> AllSizes] /\ sockets \in SUBSET Socket /\ window \in AllSizes
    BY DEF IInv, TypeOK, AllSizes
  <1>2. size' = [t \in Ids |-> IF t \notin T THEN size[t]
                               ELSE IF Displayed(t) THEN window ELSE Default]
    BY DEF Effect, Fitted
  <1>3. Default \in AllSizes
    BY DEF AllSizes
  <1>4. \A t \in T : /\ Connecting(t) \in Socket
                     /\ Connecting(t).tab = t /\ Connecting(t).token = token'
    BY <1>3 DEF Connecting, Socket
  <1>5. sockets' = {s \in sockets : s.tab \notin T} \cup {Connecting(t) : t \in T}
    BY DEF Effect, Cleaned
  <1>6. size' \in [Ids -> AllSizes]
    BY <1>1, <1>2, <1>3
  <1>7. \A t \in T : activeId' = t => size'[t] = window
    BY <1>2 DEF Displayed
  <1> QED BY <1>1, <1>2, <1>4, <1>5, <1>6, <1>7

(* The panels after a step of the session. *)
LEMMA FollowInv ==
    ASSUME IInv, SessionMoves, UNCHANGED tabVars, PanelsFollow
    PROVE  IInv'
  <1>1. /\ Open' = Open /\ Terminals' = Terminals /\ activeId' = activeId
        /\ TabsTypeOK' /\ TabsDistinct' /\ ActiveIsTab'
    BY DEF tabVars, IInv, TypeOK, TabsTypeOK, TabsDistinct, ActiveIsTab, Open, Terminals
  <1>2. SessionTypeOK' /\ (Shown' => token' # NoToken) /\ UnauthorizedIsInvalid'
    BY DEF SessionMoves
  <1>3. Shown' => token' \in Tokens
    BY <1>2 DEF SessionTypeOK
  <1>4. /\ window' = window /\ window \in Sizes /\ size \in [Ids -> AllSizes]
        /\ refit \in Ids \cup {NoTab} /\ sockets \in SUBSET Socket
        /\ Default \in AllSizes
    BY DEF PanelsFollow, IInv, TypeOK, AllSizes
  <1>5. Terminals \subseteq Ids /\ NoTab \notin Ids
    BY OpenFacts
  <1>6. /\ TimerIsActive /\ SocketsFollowPanels /\ DisplayedIsFitted
    BY DEF IInv
  <1>7. \A s \in sockets : Shown /\ s.tab \in Terminals /\ s.token = token
    BY <1>6 DEF SocketsFollowPanels
  <1>8. PanelsOK'
    <2>1. CASE ~Shown'
      <3>1. sockets' = {} /\ refit' = NoTab
        BY <1>7, <2>1 DEF PanelsFollow, CleanUp, Cleaned, Timer
      <3>2. size' \in [Ids -> AllSizes]
        BY <1>4, <2>1 DEF PanelsFollow, CleanUp
      <3> QED BY <1>4, <2>1, <3>1, <3>2
              DEF PanelsOK, TimerIsActive, SocketsFollowPanels, DisplayedIsFitted
    <2>2. CASE Shown' /\ ~Shown
      <3>1. Effect(Terminals) /\ Timer /\ sockets = {}
        BY <1>7, <2>2 DEF PanelsFollow
      <3>2. /\ size' \in [Ids -> AllSizes] /\ sockets' \in SUBSET Socket
            /\ \A t \in Terminals : activeId = t => size'[t] = window
            /\ \A s \in sockets' : /\ s.tab \in Terminals /\ s.token = token'
                                   /\ s = Connecting(s.tab)
        BY <1>1, <1>3, <1>5, <2>2, <3>1, EffectFacts
      <3>3. refit' = IF activeId \in Terminals THEN activeId ELSE NoTab
        BY <1>1, <2>2, <3>1 DEF Timer
      <3>4. refit' \in Ids \cup {NoTab} /\ TimerIsActive'
        BY <1>1, <1>5, <2>2, <3>3 DEF TimerIsActive
      <3>5. SocketsFollowPanels'
        BY <1>1, <2>2, <3>2 DEF SocketsFollowPanels
      <3>6. DisplayedIsFitted'
        BY <1>1, <1>4, <3>2 DEF DisplayedIsFitted
      <3> QED BY <1>4, <3>2, <3>4, <3>5, <3>6 DEF PanelsOK
    <2>3. CASE Shown' /\ Shown /\ token' # token
      <3>1. Effect(Terminals) /\ refit' = refit
        BY <2>3 DEF PanelsFollow
      <3>2. /\ size' \in [Ids -> AllSizes] /\ sockets' \in SUBSET Socket
            /\ \A t \in Terminals : activeId = t => size'[t] = window
            /\ \A s \in sockets' : /\ s.tab \in Terminals /\ s.token = token'
                                   /\ s = Connecting(s.tab)
        BY <1>1, <1>3, <1>5, <1>7, <2>3, <3>1, EffectFacts
      <3>3. TimerIsActive'
        BY <1>1, <1>6, <2>3, <3>1 DEF TimerIsActive
      <3>4. SocketsFollowPanels'
        BY <1>1, <2>3, <3>2 DEF SocketsFollowPanels
      <3>5. DisplayedIsFitted'
        BY <1>1, <1>4, <3>2 DEF DisplayedIsFitted
      <3> QED BY <1>4, <3>1, <3>2, <3>3, <3>4, <3>5 DEF PanelsOK
    <2>4. CASE Shown' /\ Shown /\ token' = token
      <3>1. UNCHANGED <<size, refit, sockets>>
        BY <2>4 DEF PanelsFollow
      <3> QED BY <1>1, <1>4, <1>6, <2>4, <3>1
              DEF PanelsOK, TimerIsActive, SocketsFollowPanels, DisplayedIsFitted
    <2> QED BY <2>1, <2>2, <2>3, <2>4
  <1> QED BY <1>1, <1>2, <1>8 DEF PanelsOK, IInv, TypeOK

------------------------------------------------------------------------------
(* No terminal drifts from its shell in this step, but by the timer. *)
NoDrift ==
    \A s \in sockets' : Drifted(s)' =>
        \/ \E r \in sockets : r.tab = s.tab /\ Drifted(r)
        \/ refit = s.tab /\ refit' = NoTab

(* The session's part of IInv, when the session does not change. *)
LEMMA SessionKept ==
    ASSUME IInv, UNCHANGED sessionVars
    PROVE  SessionTypeOK' /\ (Shown' <=> Shown) /\ token' = token /\ UnauthorizedIsInvalid'
  BY DEF IInv, TypeOK, sessionVars, SessionTypeOK, Shown, UnauthorizedIsInvalid

(* The tabs' part of IInv, when the tabs do not change. *)
LEMMA TabsKept ==
    ASSUME IInv, UNCHANGED tabVars
    PROVE  /\ TabsTypeOK' /\ TabsDistinct' /\ ActiveIsTab'
           /\ Terminals' = Terminals /\ activeId' = activeId
  BY DEF tabVars, IInv, TypeOK, TabsTypeOK, TabsDistinct, ActiveIsTab, Open, Terminals

(* What IInv says of the sockets and the sizes. *)
LEMMA PanelFacts ==
    ASSUME IInv
    PROVE  /\ window \in Sizes /\ size \in [Ids -> AllSizes]
           /\ refit \in Ids \cup {NoTab} /\ sockets \in SUBSET Socket
           /\ \A s \in sockets : Shown /\ s.tab \in Terminals /\ s.token = token /\ s.tab \in Ids
           /\ Default \in AllSizes /\ Tiny \in AllSizes /\ Sizes \subseteq AllSizes
           /\ \A s \in sockets : s.told \in AllSizes
  BY OpenFacts DEF IInv, TypeOK, AllSizes, SocketsFollowPanels, Socket

(* A tab is opened. *)
LEMMA OpenTabInv ==
    ASSUME IInv, NEW k \in {"terminal", "files"}, OpenTab(k)
    PROVE  IInv' /\ NoDrift
  <1> DEFINE T == {opened'} \cap Terminals'
  <1>1. Shown /\ TabOpen(k) /\ UNCHANGED sessionVars /\ window' = window /\ Effect(T) /\ Timer
    BY DEF OpenTab
  <1>2. /\ TabsTypeOK' /\ TabsDistinct' /\ ActiveIsTab'
        /\ opened' \in Ids \ Open /\ activeId' = opened'
        /\ Terminals' \ {opened'} = Terminals
        /\ Terminals' \subseteq Terminals \cup {opened'}
    BY <1>1, TabOpened
  <1>3. SessionTypeOK' /\ Shown' /\ token' = token /\ UnauthorizedIsInvalid'
    BY <1>1, SessionKept
  <1>4. token' \in Tokens /\ token' # NoToken
    BY <1>1, <1>3 DEF IInv, TypeOK, SessionTypeOK
  <1>5. T \subseteq Ids
    BY <1>2
  <1>6. /\ size' \in [Ids -> AllSizes] /\ sockets' \in SUBSET Socket
        /\ \A t \in T : activeId' = t => size'[t] = window
        /\ \A t \in Ids \ T : size'[t] = size[t]
        /\ \A s \in sockets' : \/ s \in sockets /\ s.tab \notin T
                               \/ s.tab \in T /\ s.token = token' /\ s = Connecting(s.tab)
    BY <1>1, <1>4, <1>5, EffectFacts
  <1> HIDE DEF T
  <1>7. TimerIsActive' /\ refit' \in Ids \cup {NoTab}
    BY <1>1, <1>2, <1>3 DEF Timer, TimerIsActive
  <1>8. \A s \in sockets : s.tab \in Terminals /\ s.token = token /\ s.tab \in Ids
    BY PanelFacts
  <1>9. \A r, s \in sockets : r.tab = s.tab => r = s
    BY DEF IInv, SocketsFollowPanels
  <1>10. SocketsFollowPanels'
    BY <1>2, <1>3, <1>6, <1>8, <1>9 DEF SocketsFollowPanels, T
  <1>11. DisplayedIsFitted'
    BY <1>1, <1>2, <1>6 DEF DisplayedIsFitted, T
  <1>12. NoDrift
    <2>1. ASSUME NEW s \in sockets', Drifted(s)' PROVE s \in sockets /\ Drifted(s)
      BY <1>6, <1>8, <2>1 DEF Drifted, Connecting
    <2> QED BY <2>1 DEF NoDrift
  <1>13. window' \in Sizes
    BY <1>1, PanelFacts
  <1> QED BY <1>2, <1>3, <1>4, <1>6, <1>7, <1>10, <1>11, <1>12, <1>13 DEF IInv, TypeOK

(* A tab is closed. *)
LEMMA CloseTabInv ==
    ASSUME IInv, NEW t \in Ids, CloseTab(t)
    PROVE  IInv' /\ NoDrift
  <1>1. /\ Shown /\ TabClose(t) /\ UNCHANGED sessionVars /\ window' = window /\ CleanUp({t})
        /\ IF activeId' = activeId THEN refit' = refit ELSE Timer
    BY DEF CloseTab
  <1>2. /\ TabsTypeOK' /\ TabsDistinct' /\ ActiveIsTab'
        /\ Terminals' = Terminals \ {t}
        /\ activeId' # activeId => activeId = t
        /\ activeId' # t
    BY <1>1, TabClosed
  <1>3. SessionTypeOK' /\ Shown' /\ token' = token /\ UnauthorizedIsInvalid'
    BY <1>1, SessionKept
  <1>4. token # NoToken
    BY <1>1 DEF IInv
  <1>5. /\ sockets' = {s \in sockets : s.tab # t}
        /\ size' = [u \in Ids |-> IF u = t THEN Default ELSE size[u]]
    BY <1>1 DEF CleanUp, Cleaned
  <1>6. /\ size' \in [Ids -> AllSizes] /\ sockets' \in SUBSET Socket
        /\ window' \in Sizes /\ Terminals \subseteq Ids
    BY <1>1, <1>5, PanelFacts, OpenFacts
  <1>7. TimerIsActive' /\ refit' \in Ids \cup {NoTab}
    <2>1. CASE activeId' = activeId
      BY <1>1, <1>2, <1>3, <2>1, PanelFacts DEF IInv, TimerIsActive
    <2>2. CASE activeId' # activeId
      BY <1>1, <1>2, <1>3, <1>6, <2>2 DEF Timer, TimerIsActive
    <2> QED BY <2>1, <2>2
  <1>8. SocketsFollowPanels'
    BY <1>2, <1>3, <1>5, PanelFacts DEF IInv, SocketsFollowPanels
  <1>9. DisplayedIsFitted'
    <2>1. CASE activeId' = activeId
      BY <1>1, <1>2, <1>3, <1>5, <1>6, <2>1 DEF IInv, DisplayedIsFitted
    <2>2. CASE activeId' # activeId
      BY <1>1, <1>2, <1>3, <2>2 DEF Timer, DisplayedIsFitted
    <2> QED BY <2>1, <2>2
  <1>10. NoDrift
    <2>1. ASSUME NEW s \in sockets', Drifted(s)' PROVE s \in sockets /\ Drifted(s)
      BY <1>5, <2>1, PanelFacts DEF Drifted
    <2> QED BY <2>1 DEF NoDrift
  <1> QED BY <1>2, <1>3, <1>4, <1>6, <1>7, <1>8, <1>9, <1>10 DEF IInv, TypeOK

(* Another tab is selected. *)
LEMMA SelectTabInv ==
    ASSUME IInv, NEW t \in Ids, SelectTab(t)
    PROVE  IInv' /\ NoDrift
  <1>1. /\ Shown /\ t \in Open /\ activeId' = t /\ UNCHANGED <<tabs, opened, kind>>
        /\ UNCHANGED sessionVars /\ window' = window /\ size' = size /\ sockets' = sockets
        /\ Timer
    BY DEF SelectTab, TabSelect
  <1>2. /\ TabsTypeOK' /\ TabsDistinct' /\ ActiveIsTab' /\ Terminals' = Terminals
    BY <1>1 DEF IInv, TypeOK, TabsTypeOK, TabsDistinct, ActiveIsTab, Open, Terminals
  <1>3. SessionTypeOK' /\ Shown' /\ token' = token /\ UnauthorizedIsInvalid'
    BY <1>1, SessionKept
  <1>4. token # NoToken
    BY <1>1 DEF IInv
  <1>5. TimerIsActive' /\ refit' \in Ids \cup {NoTab}
    BY <1>1, <1>2, <1>3 DEF Timer, TimerIsActive
  <1>6. SocketsFollowPanels'
    BY <1>1, <1>2, <1>3 DEF IInv, SocketsFollowPanels
  <1>7. DisplayedIsFitted'
    BY <1>1, <1>2, <1>3 DEF Timer, DisplayedIsFitted
  <1>8. NoDrift
    BY <1>1 DEF NoDrift, Drifted
  <1> QED BY <1>1, <1>2, <1>3, <1>4, <1>5, <1>6, <1>7, <1>8, PanelFacts DEF IInv, TypeOK

(* The timer, the window and the sockets. *)
LEMMA PanelStepInv ==
    ASSUME IInv, PanelStep
    PROVE  IInv' /\ NoDrift
  <1>1. UNCHANGED tabVars /\ UNCHANGED sessionVars
    BY DEF PanelStep, Refit, ResizeWindow, SocketOpens, SocketCloses
  <1>2. /\ TabsTypeOK' /\ TabsDistinct' /\ ActiveIsTab'
        /\ Terminals' = Terminals /\ activeId' = activeId
    BY <1>1, TabsKept
  <1>3. SessionTypeOK' /\ (Shown' <=> Shown) /\ token' = token /\ UnauthorizedIsInvalid'
    BY <1>1, SessionKept
  <1>4. Shown => token # NoToken
    BY DEF IInv
  <1>5. TimerIsActive /\ SocketsFollowPanels /\ DisplayedIsFitted
    BY DEF IInv
  <1>6. SUFFICES PanelsOK' /\ NoDrift
    BY <1>2, <1>3, <1>4 DEF PanelsOK, IInv, TypeOK
  <1>7. CASE Refit
    <2>1. /\ refit # NoTab /\ size' = [size EXCEPT ![refit] = window] /\ refit' = NoTab
          /\ window' = window /\ sockets' = sockets
      BY <1>7 DEF Refit
    <2>2. Shown /\ refit = activeId /\ refit \in Terminals /\ refit \in Ids
      BY <1>5, <2>1, PanelFacts DEF TimerIsActive
    <2>3. PanelsOK'
      BY <1>2, <1>3, <1>5, <2>1, <2>2, PanelFacts
         DEF PanelsOK, TimerIsActive, SocketsFollowPanels, DisplayedIsFitted
    <2>4. NoDrift
      <3>1. ASSUME NEW s \in sockets', Drifted(s)', s.tab # refit
            PROVE  s \in sockets /\ Drifted(s)
        BY <2>1, <3>1, PanelFacts DEF Drifted
      <3> QED BY <2>1, <3>1 DEF NoDrift
    <2> QED BY <2>3, <2>4
  <1>8. ASSUME NEW w \in Sizes, ResizeWindow(w) PROVE PanelsOK' /\ NoDrift
    <2>1. /\ window' = w /\ refit' = refit
          /\ sockets' = {Told(s) : s \in sockets}
          /\ \E hidden \in SUBSET Terminals : Resized(w, hidden)
      BY <1>8 DEF ResizeWindow
    <2>2. size' \in [Ids -> AllSizes]
      BY <2>1, PanelFacts DEF Resized
    <2>3. Shown /\ activeId \in Terminals => size'[activeId] = w
      BY <2>1, OpenFacts DEF Resized
    <2>4. \A s \in sockets : /\ Told(s) \in Socket /\ Told(s).tab = s.tab
                             /\ Told(s).token = s.token
                             /\ Told(s).state = "open" => Told(s).told = size'[s.tab]
      <3>1. ASSUME NEW s \in sockets
            PROVE  /\ Told(s) \in Socket /\ Told(s).tab = s.tab
                   /\ Told(s).token = s.token
                   /\ Told(s).state = "open" => Told(s).told = size'[s.tab]
        <4>1. s \in Socket /\ size'[s.tab] \in AllSizes
          BY <2>2, PanelFacts
        <4> QED BY <4>1 DEF Told, Socket
      <3> QED BY <3>1
    <2>5. sockets' \in SUBSET Socket /\ SocketsFollowPanels'
      BY <1>2, <1>3, <1>5, <2>1, <2>4 DEF SocketsFollowPanels
    <2>6. PanelsOK'
      BY <1>2, <1>3, <1>5, <2>1, <2>2, <2>3, <2>5, PanelFacts
         DEF PanelsOK, TimerIsActive, DisplayedIsFitted
    <2>7. \A s \in sockets' : s.state = "open" => s.told = size'[s.tab]
      BY <2>1, <2>4
    <2> QED BY <2>6, <2>7 DEF NoDrift, Drifted
  <1>9. ASSUME NEW s \in sockets, SocketOpens(s) PROVE PanelsOK' /\ NoDrift
    <2> DEFINE r == [s EXCEPT !.state = "open", !.told = size[s.tab]]
    <2>1. sockets' = (sockets \ {s}) \cup {r} /\ UNCHANGED <<window, size, refit>>
      BY <1>9 DEF SocketOpens, Replaced
    <2>2. s \in Socket /\ size[s.tab] \in AllSizes
      BY PanelFacts
    <2>3. r \in Socket /\ r.tab = s.tab /\ r.token = s.token /\ r.told = size[s.tab]
      BY <2>2 DEF Socket
    <2> HIDE DEF r
    <2>4. sockets' \in SUBSET Socket /\ SocketsFollowPanels'
      BY <1>2, <1>3, <1>5, <2>1, <2>3, PanelFacts DEF SocketsFollowPanels
    <2>5. PanelsOK'
      BY <1>2, <1>3, <1>5, <2>1, <2>4, PanelFacts
         DEF PanelsOK, TimerIsActive, DisplayedIsFitted
    <2>6. NoDrift
      BY <2>1, <2>3 DEF NoDrift, Drifted
    <2> QED BY <2>5, <2>6
  <1>10. ASSUME NEW s \in sockets, SocketCloses(s) PROVE PanelsOK' /\ NoDrift
    <2>1. sockets' = sockets \ {s} /\ UNCHANGED <<window, size, refit>>
      BY <1>10 DEF SocketCloses
    <2>2. PanelsOK'
      BY <1>2, <1>3, <1>5, <2>1, PanelFacts
         DEF PanelsOK, TimerIsActive, SocketsFollowPanels, DisplayedIsFitted
    <2>3. NoDrift
      BY <2>1 DEF NoDrift, Drifted
    <2> QED BY <2>2, <2>3
  <1> QED BY <1>7, <1>8, <1>9, <1>10 DEF PanelStep

(* The page is loaded anew. *)
LEMMA ReloadInv ==
    ASSUME IInv, Reload
    PROVE  IInv' /\ NoDrift
  <1>1. /\ SessionReload /\ TabsReset /\ CleanUp(Ids) /\ refit' = NoTab /\ window' = window
    BY DEF Reload
  <1>2. sockets' = {} /\ size' \in [Ids -> AllSizes]
    BY <1>1, PanelFacts DEF CleanUp, Cleaned
  <1>3. TabsTypeOK' /\ TabsDistinct' /\ ActiveIsTab' /\ Terminals' = {}
    BY <1>1, MaxTabsAssumption
       DEF TabsReset, IInv, TypeOK, TabsTypeOK, TabsDistinct, ActiveIsTab, Open, Range, Terminals
  <1>4. SessionTypeOK' /\ (Shown' => token' # NoToken) /\ UnauthorizedIsInvalid'
    BY <1>1 DEF SessionReload, Idle, IInv, TypeOK, SessionTypeOK, Shown, UnauthorizedIsInvalid
  <1>5. PanelsOK'
    BY <1>1, <1>2, <1>3, PanelFacts
       DEF PanelsOK, TimerIsActive, SocketsFollowPanels, DisplayedIsFitted
  <1>6. NoDrift
    BY <1>2 DEF NoDrift
  <1> QED BY <1>3, <1>4, <1>5, <1>6 DEF PanelsOK, IInv, TypeOK

(* A step of the session makes no terminal drift: a socket is a new one,   *)
(* or nothing has changed.                                                 *)
LEMMA FollowNoDrift ==
    ASSUME IInv, SessionMoves, UNCHANGED tabVars, PanelsFollow
    PROVE  NoDrift
  <1>1. Terminals' = Terminals
    BY TabsKept
  <1>2. \A s \in sockets : Shown /\ s.tab \in Terminals
    BY PanelFacts
  <1>3. CASE ~Shown'
    BY <1>2, <1>3 DEF PanelsFollow, CleanUp, Cleaned, NoDrift
  <1>4. CASE Shown' /\ (~Shown \/ token' # token)
    <2>1. Effect(Terminals)
      BY <1>4 DEF PanelsFollow
    <2>2. token' \in Tokens
      BY <1>4 DEF SessionMoves, SessionTypeOK
    <2>3. \A s \in sockets' : s = Connecting(s.tab)
      BY <1>2, <2>1, <2>2, EffectFacts, OpenFacts
    <2>4. \A s \in sockets' : s.state = "connecting"
      BY <2>3 DEF Connecting
    <2> QED BY <2>4 DEF NoDrift, Drifted
  <1>5. CASE Shown' /\ Shown /\ token' = token
    <2>1. UNCHANGED <<size, refit, sockets>>
      BY <1>5 DEF PanelsFollow
    <2> QED BY <2>1 DEF NoDrift, Drifted
  <1> QED BY <1>3, <1>4, <1>5

(* A step of the session. *)
LEMMA SessionStepInv ==
    ASSUME IInv, SessionStep
    PROVE  IInv' /\ NoDrift
  <1>1. UNCHANGED tabVars /\ PanelsFollow
    BY DEF SessionStep, CallStep, Follows
  <1>2. SessionMoves
    <2>1. ASSUME NEW c \in Calls, CallStep(c) PROVE SessionMoves
      BY <2>1, CallMoves DEF CallStep, Follows
    <2>2. CASE ~ \E c \in Calls : CallStep(c)
      BY <2>2, OtherMoves DEF SessionStep, Follows
    <2> QED BY <2>1, <2>2
  <1> QED BY <1>1, <1>2, FollowInv, FollowNoDrift

(* Every step keeps IInv, and lets a terminal drift by the timer only. *)
LEMMA StepInv ==
    ASSUME IInv, [Next]_vars
    PROVE  IInv' /\ NoDrift
  <1>1. CASE Next
    <2>1. CASE TabStep
      BY <2>1, OpenTabInv, CloseTabInv, SelectTabInv DEF TabStep
    <2> QED BY <1>1, <2>1, SessionStepInv, ReloadInv, PanelStepInv DEF Next
  <1>2. CASE UNCHANGED vars
    <2>1. UNCHANGED tabVars /\ UNCHANGED sessionVars /\ UNCHANGED panelVars
      BY <1>2 DEF vars
    <2>2. PanelsOK'
      BY <2>1, TabsKept, SessionKept
         DEF panelVars, PanelsOK, IInv, TypeOK, TimerIsActive, SocketsFollowPanels,
             DisplayedIsFitted
    <2>3. NoDrift
      BY <2>1 DEF panelVars, NoDrift, Drifted
    <2> QED BY <2>1, <2>2, <2>3, TabsKept, SessionKept DEF PanelsOK, IInv, TypeOK
  <1> QED BY <1>1, <1>2

(* The first state. *)
LEMMA InitInv == Init => IInv
  <1> SUFFICES ASSUME Init PROVE IInv
    OBVIOUS
  <1>1. TabsTypeOK /\ TabsDistinct /\ ActiveIsTab
    BY MaxTabsAssumption
       DEF Init, TabsInit, TabsTypeOK, TabsDistinct, ActiveIsTab, Open, Range
  <1>2. SessionTypeOK /\ ~Shown /\ UnauthorizedIsInvalid
    BY MaxLoginsAssumption DEF Init, SessionInit, SessionTypeOK, Idle, Shown, UnauthorizedIsInvalid
  <1>3. PanelsOK
    BY <1>2 DEF Init, PanelsOK, AllSizes, TimerIsActive, SocketsFollowPanels, DisplayedIsFitted
  <1> QED BY <1>1, <1>2, <1>3 DEF PanelsOK, IInv, TypeOK

------------------------------------------------------------------------------
(* The inductive invariant holds of every state, and so do its parts: the  *)
(* types, ...                                                              *)
THEOREM Inductive == Spec => []IInv
  BY InitInv, StepInv, PTL DEF Spec

(* the type invariant of the whole window, ... *)
THEOREM TypeCorrect == Spec => []TypeOK
  <1>1. IInv => TypeOK
    BY DEF IInv
  <1> QED BY <1>1, Inductive, PTL

(* an active tab that is open, ... *)
THEOREM ActiveTab == Spec => []ActiveIsTab
  <1>1. IInv => ActiveIsTab
    BY DEF IInv
  <1> QED BY <1>1, Inductive, PTL

(* one socket at most for every open terminal, none for anything else and  *)
(* none with the token of an older session, ...                            *)
THEOREM SocketsOfPanels == Spec => []SocketsFollowPanels
  <1>1. IInv => SocketsFollowPanels
    BY DEF IInv
  <1> QED BY <1>1, Inductive, PTL

(* and a displayed terminal that fills the window or is about to. *)
THEOREM Fits == Spec => []DisplayedIsFitted
  <1>1. IInv => DisplayedIsFitted
    BY DEF IInv
  <1> QED BY <1>1, Inductive, PTL

(* The timer of a tab switch is the only step that makes the sizes of a    *)
(* terminal and of its shell differ.                                       *)
THEOREM DriftOnlyByTimer == Spec => DriftsByRefitOnly
  <1>1. IInv /\ [Next]_vars => NoDrift
    BY StepInv
  <1>2. NoDrift => \A t \in Ids : (\E s \in sockets' : s.tab = t /\ Drifted(s)')
                       => \/ \E s \in sockets : s.tab = t /\ Drifted(s)
                          \/ refit = t /\ refit' = NoTab
    BY DEF NoDrift
  <1> QED BY <1>1, <1>2, Inductive, PTL DEF Spec, DriftsByRefitOnly

(* A valid session ends by the user's hand, by an answer to a login, or by *)
(* a 401 to another token: a 401 to its own token means it is not valid.   *)
THEOREM EndsOnlyForAReason == Spec => EndsForAReason
  <1> DEFINE Reason == SessionEnds =>
                 \/ Logout
                 \/ \E c \in Calls : calls[c].kind = "login" /\ calls'[c] = Idle
                 \/ \E c \in Calls : Received401(c) /\ calls[c].token # token
  <1>1. ASSUME IInv, [Next]_vars PROVE Reason
    <2>1. CASE ~SessionStep
      <3>1. token' = token
        BY <1>1, <2>1 DEF Next, Reload, SessionReload, TabStep, OpenTab, CloseTab, SelectTab,
              PanelStep, Refit, ResizeWindow, SocketOpens, SocketCloses, vars, sessionVars
      <3> QED BY <3>1 DEF SessionEnds
    <2>2. ASSUME NEW c \in Calls, CallStep(c) PROVE Reason
      <3>0. calls'[c] = Idle \/ token' = token
        BY <2>2, <1>1 DEF CallStep, Follows, Submit, ApiCall, Sends, Grant, Refuse, Serve, Lose,
              LoggedIn, Rejected, Answered, Received, IInv, TypeOK, SessionTypeOK
      <3>1. CASE Rejected(c)
        <4>1. calls[c].answer = "401"
          BY <3>1 DEF Rejected
        <4>2. calls[c].kind = "login" \/ calls[c].token \notin Tokens \ expired
          BY <1>1, <4>1 DEF IInv, UnauthorizedIsInvalid
        <4> QED BY <3>0, <4>1, <4>2 DEF SessionEnds, Received401
      <3>2. CASE LoggedIn(c)
        BY <3>0, <3>2 DEF LoggedIn, SessionEnds
      <3>3. CASE ~Rejected(c) /\ ~LoggedIn(c)
        <4>1. token' = token
          <5>1. CASE Answered(c)
            <6>1. Becomes(token, page, c)
              BY <5>1 DEF Answered
            <6> QED BY <6>1 DEF Becomes
          <5>2. CASE ~Answered(c)
            BY <2>2, <3>3, <5>2 DEF CallStep, Follows, Submit, ApiCall, Sends, Grant, Refuse,
                  Serve, Lose
          <5> QED BY <5>1, <5>2
        <4> QED BY <4>1 DEF SessionEnds
      <3> QED BY <3>1, <3>2, <3>3
    <2>3. CASE SessionStep /\ ~ \E c \in Calls : CallStep(c)
      <3>1. CASE Logout
        BY <3>1
      <3>2. CASE ~Logout
        <4>1. token' = token
          BY <2>3, <3>2 DEF SessionStep, Follows, Expire, Visit, Becomes, SleepOrWake
        <4> QED BY <4>1 DEF SessionEnds
      <3> QED BY <3>1, <3>2
    <2> QED BY <2>1, <2>2, <2>3
  <1> QED BY <1>1, Inductive, PTL DEF Spec, EndsForAReason
==============================================================================
