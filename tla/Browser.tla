------------------------------- MODULE Browser -------------------------------
(***************************************************************************)
(* The window of a user: the session (WebSession), the tabs (Tabs) and the *)
(* terminal panels of pages/Dashboard.tsx and components/TerminalPanel.tsx *)
(* that both of them mount and unmount.  A panel has an xterm terminal     *)
(* with a size and a WebSocket, and the shell behind the socket has the    *)
(* size it was told last: three places that have to agree while tabs are   *)
(* switched, windows are resized and logins come and go.                   *)
(*                                                                         *)
(* Mounting, effects and clean-up are part of the step that causes them:   *)
(* React flushes them before another event is handled, as all of these     *)
(* steps are clicks or changes of a store.  The sockets' events, the       *)
(* timer of 50 ms and the answers of the server are steps of their own.    *)
(***************************************************************************)
EXTENDS Tabs, WebSession

CONSTANTS
    Sizes,       \* sizes of a terminal that fills the window
    Default,     \* the size of an xterm nobody has fitted (80x24)
    Tiny         \* what fit makes of a panel that is not displayed

ASSUME SizesAssumption == Default \notin Sizes /\ Tiny \notin Sizes \cup {Default}

VARIABLES
    window,      \* the size a terminal has that fills the window
    size,        \* the size of each mounted terminal (Default without one)
    refit,       \* the tab whose fit timer runs, or NoTab
    sockets      \* the WebSockets of the panels, until either end closes them

panelVars == <<window, size, refit, sockets>>
vars == <<tabVars, sessionVars, panelVars>>

AllSizes == Sizes \cup {Default, Tiny}

(* A socket: the tab and the token it was made for, and the size that was  *)
(* sent over it last (Default, the server's 80x24, before any).            *)
Socket == [tab : Ids, token : Tokens, state : {"connecting", "open"},
           told : AllSizes]

TypeOK ==
    /\ TabsTypeOK
    /\ SessionTypeOK
    /\ window \in Sizes
    /\ size \in [Ids -> AllSizes]
    /\ refit \in Ids \cup {NoTab}
    /\ sockets \in SUBSET Socket

Init ==
    /\ TabsInit
    /\ SessionInit
    /\ window \in Sizes
    /\ size = [t \in Ids |-> Default]
    /\ refit = NoTab
    /\ sockets = {}

------------------------------------------------------------------------------
(* The first effect of the panels of T: a new terminal, fitted if it is    *)
(* displayed, and a new socket that carries the token.                     *)
Displayed(t) == activeId' = t

Connecting(t) == [tab |-> t, token |-> token', state |-> "connecting", told |-> Default]

Fitted(T) ==
    size' = [t \in Ids |-> IF t \notin T THEN size[t]
                           ELSE IF Displayed(t) THEN window ELSE Default]

(* Its clean-up closes the sockets of T and disposes of the terminals. *)
Cleaned(T) == {s \in sockets : s.tab \notin T}

CleanUp(T) ==
    /\ sockets' = Cleaned(T)
    /\ size' = [t \in Ids |-> IF t \in T THEN Default ELSE size[t]]

Effect(T) ==
    /\ Fitted(T)
    /\ sockets' = Cleaned(T) \cup {Connecting(t) : t \in T}

(* Mutant: the second effect has no clean-up. *)
TimerRunsOn ==
    refit' = IF Shown' /\ activeId' \in Terminals' THEN activeId' ELSE refit

(* The second effect: a panel that becomes active starts the timer, one    *)
(* that ceases to be, or is unmounted, stops it.                           *)
Timer == refit' = IF Shown' /\ activeId' \in Terminals' THEN activeId' ELSE NoTab

(* Mutant: the effect depends on the agent only. *)
PanelsFollowPageOnly ==
    /\ UNCHANGED window
    /\ IF ~Shown' THEN CleanUp(Terminals) /\ Timer
       ELSE IF ~Shown THEN Effect(Terminals) /\ Timer
       ELSE UNCHANGED <<size, refit, sockets>>

(* What the panels do when the session changes: the effect depends on the  *)
(* token, and runs again for every panel when it does.                     *)
PanelsFollow ==
    /\ UNCHANGED window
    /\ IF ~Shown' THEN CleanUp(Terminals) /\ Timer
       ELSE IF ~Shown THEN Effect(Terminals) /\ Timer
       ELSE IF token' # token THEN Effect(Terminals) /\ UNCHANGED refit
       ELSE UNCHANGED <<size, refit, sockets>>

------------------------------------------------------------------------------
(* The user and the tab bar of a mounted dashboard.  The buttons that open *)
(* a tab work while their agent is listed as online, which it may be at    *)
(* any time.                                                               *)
OpenTab(k) ==
    /\ Shown
    /\ TabOpen(k)
    /\ UNCHANGED <<sessionVars, window>>
    /\ Effect({opened'} \cap Terminals')
    /\ Timer

CloseTab(t) ==
    /\ Shown
    /\ TabClose(t)
    /\ UNCHANGED <<sessionVars, window>>
    /\ CleanUp({t})
    /\ IF activeId' = activeId THEN UNCHANGED refit ELSE Timer

(* Mutant: a panel that becomes active does not fit itself. *)
SelectTabUnfitted(t) ==
    /\ Shown
    /\ t # activeId
    /\ TabSelect(t)
    /\ UNCHANGED <<sessionVars, window, size, sockets>>
    /\ refit' = NoTab

SelectTab(t) ==
    /\ Shown
    /\ t # activeId
    /\ TabSelect(t)
    /\ UNCHANGED <<sessionVars, window, size, sockets>>
    /\ Timer

(* The timer fires; fit resizes the terminal, and tells nobody. *)
Refit ==
    /\ refit # NoTab
    /\ size' = [size EXCEPT ![refit] = window]
    /\ refit' = NoTab
    /\ UNCHANGED <<tabVars, sessionVars, window, sockets>>

------------------------------------------------------------------------------
(* handleResize of every mounted panel.  A panel that is not displayed has *)
(* no size to fit to: xterm's fit leaves it as it is, or makes it tiny.    *)
(* The new size may be the old one: a window moves by pixels, a terminal   *)
(* by characters.                                                          *)
Resized(w, hidden) ==
    size' = [t \in Ids |-> IF ~Shown \/ t \notin Terminals THEN size[t]
                           ELSE IF t = activeId THEN w
                           ELSE IF t \in hidden THEN Tiny ELSE size[t]]

Told(s) == IF s.state = "open" THEN [s EXCEPT !.told = size'[s.tab]] ELSE s

ResizeWindow(w) ==
    /\ window' = w
    /\ \E hidden \in SUBSET Terminals : Resized(w, hidden)
    /\ sockets' = {Told(s) : s \in sockets}
    /\ UNCHANGED <<tabVars, sessionVars, refit>>

Replaced(s, r) == sockets' = (sockets \ {s}) \cup {r}

(* Mutant: the new socket is not told the size. *)
SocketOpensSilently(s) ==
    /\ s.state = "connecting"
    /\ s.token \notin expired
    /\ Replaced(s, [s EXCEPT !.state = "open"])
    /\ UNCHANGED <<tabVars, sessionVars, window, size, refit>>

(* onopen sends the size the terminal has by then.  The server accepts the *)
(* token of the URL or refuses the upgrade.                                *)
SocketOpens(s) ==
    /\ s.state = "connecting"
    /\ s.token \notin expired
    /\ Replaced(s, [s EXCEPT !.state = "open", !.told = size[s.tab]])
    /\ UNCHANGED <<tabVars, sessionVars, window, size, refit>>

(* Refused, or ended by the server or the network: the panel says so and   *)
(* does not connect again.                                                 *)
SocketCloses(s) ==
    /\ sockets' = sockets \ {s}
    /\ UNCHANGED <<tabVars, sessionVars, window, size, refit>>

------------------------------------------------------------------------------
(* A step of the session, with what it does to the panels. *)
Follows(step) ==
    /\ step
    /\ UNCHANGED tabVars
    /\ PanelsFollow

CallStep(c) ==
    \/ Follows(Submit(c)) \/ Follows(ApiCall(c))
    \/ Follows(Grant(c)) \/ Follows(Refuse(c)) \/ Follows(Serve(c)) \/ Follows(Lose(c))
    \/ Follows(LoggedIn(c)) \/ Follows(Rejected(c)) \/ Follows(Answered(c))

SessionStep ==
    \/ \E c \in Calls : CallStep(c)
    \/ \E t \in Tokens : Follows(Expire(t))
    \/ \E p \in {"login", "dashboard"} : Follows(Visit(p))
    \/ Follows(SleepOrWake)
    \/ Follows(Logout)

(* The page starts anew, with the token and nothing else. *)
Reload ==
    /\ SessionReload
    /\ TabsReset
    /\ CleanUp(Ids)
    /\ refit' = NoTab
    /\ UNCHANGED window

TabStep ==
    \/ \E k \in {"terminal", "files"} : OpenTab(k)
    \/ \E t \in Ids : CloseTab(t) \/ SelectTab(t)

PanelStep ==
    \/ Refit
    \/ \E w \in Sizes : ResizeWindow(w)
    \/ \E s \in sockets : SocketOpens(s) \/ SocketCloses(s)

Next ==
    \/ SessionStep
    \/ Reload
    \/ TabStep
    \/ PanelStep

Spec == Init /\ [][Next]_vars

(* Awake, a dashboard polls; what reaches the server is answered, and what *)
(* is answered arrives, if not before the first reload then between two of *)
(* many.  The user need not do anything.                                   *)
Fairness ==
    /\ WF_vars(\E c \in Calls : Follows(ApiCall(c)))
    /\ SF_vars(\E c \in Calls : Follows(Serve(c) \/ Grant(c) \/ Refuse(c)))
    /\ SF_vars(\E c \in Calls : Follows(LoggedIn(c) \/ Rejected(c) \/ Answered(c)))

FairSpec == Spec /\ Fairness

------------------------------------------------------------------------------
(* The active tab is an open one, and there is one while any is open: what *)
(* close makes active is looked up in the new list by the old index        *)
(* (tabs.ts:27-34), and must be there for the first and the last tab too.  *)
ActiveIsTab == activeId \in Open \/ (activeId = NoTab /\ tabs = <<>>)

(* Every socket is that of one open terminal tab of the mounted dashboard, *)
(* with the token of the present session; no tab has two.  Closing a tab,  *)
(* leaving the page, logging out, and a login that arrives while the       *)
(* dashboard is shown, all have to close what they replace                 *)
(* (TerminalPanel.tsx:58-63).                                              *)
SocketsFollowPanels ==
    /\ \A s \in sockets : Shown /\ s.tab \in Terminals /\ s.token = token
    /\ \A r, s \in sockets : r.tab = s.tab => r = s

(* The terminal the user looks at fills the window, up to the timer that   *)
(* follows a switch: what it missed while hidden is caught up with         *)
(* (TerminalPanel.tsx:65-70).                                              *)
DisplayedIsFitted ==
    Shown /\ activeId \in Terminals => refit = activeId \/ size[activeId] = window

(* The invariant of the proofs: what the properties above need of the tabs *)
(* (no id twice, none from the future), of the timer (it runs for the      *)
(* active terminal only) and of the session (RequireAuth, router:7-9; a    *)
(* 401 comes from a login, or from a token that is not valid).             *)
TabsDistinct ==
    /\ \A i, j \in DOMAIN tabs : tabs[i] = tabs[j] => i = j
    /\ \A t \in Open : t <= opened

TimerIsActive == refit # NoTab => Shown /\ refit = activeId /\ refit \in Terminals

UnauthorizedIsInvalid ==
    \A c \in Calls : calls[c].answer = "401" =>
        calls[c].kind = "login" \/ calls[c].token \notin Tokens \ expired

IInv ==
    /\ TypeOK
    /\ TabsDistinct
    /\ TimerIsActive
    /\ UnauthorizedIsInvalid
    /\ Shown => token # NoToken
    /\ ActiveIsTab
    /\ SocketsFollowPanels
    /\ DisplayedIsFitted

(* The shell of an open terminal has the size of its terminal, unless the  *)
(* timer of a tab switch has fitted the terminal since: that fit is the    *)
(* one change of size that is not sent (TerminalPanel.tsx:47-56, 67).      *)
Drifted(s) == s.state = "open" /\ s.told # size[s.tab]

DriftsByRefitOnly ==
    [][\A t \in Ids : (\E s \in sockets' : s.tab = t /\ Drifted(s)')
           => \/ \E s \in sockets : s.tab = t /\ Drifted(s)
              \/ refit = t /\ refit' = NoTab]_vars

(* A session whose token is still valid ends only by the user's own hand,  *)
(* or by a 401 to a login or to a call that was sent with another token    *)
(* (client.ts:12-20); no failure of its own calls ends it.                 *)
Received401(c) == calls[c].answer = "401" /\ calls'[c] = Idle

SessionEnds == token \in Tokens \ expired /\ token' # token

EndsForAReason ==
    [][SessionEnds => \/ Logout
                      \/ \E c \in Calls : calls[c].kind = "login" /\ calls'[c] = Idle
                      \/ \E c \in Calls : Received401(c) /\ calls[c].token # token
      ]_vars

(* A dashboard whose token has expired gives way to the login form, as     *)
(* long as it is left open, focused and online: the polling (Dashboard.tsx *)
(* :21) is what notices.                                                   *)
ExpiredSessionEnds ==
    Shown /\ token \in expired ~> ~Shown \/ token \notin expired \/ ~awake
==============================================================================
