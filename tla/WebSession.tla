----------------------------- MODULE WebSession -----------------------------
(***************************************************************************)
(* The login state of one browser window: the token of store/auth.ts, the  *)
(* two routes of router/index.tsx, the login form, and the calls under way *)
(* with the interceptors of api/client.ts.  An answer is decided when the  *)
(* server handles the call and has its effect when the window receives it; *)
(* in between the token may expire, the user may leave, log in again or    *)
(* log out.  All that a window forgets on a reload is forgotten here, too; *)
(* the token is kept, in localStorage.                                     *)
(*                                                                         *)
(* A call is "login", or "api" for any other request: of those only a 401  *)
(* matters to the session.  The polling of the agent list is one of them.  *)
(***************************************************************************)
EXTENDS Naturals

CONSTANTS
    Calls,       \* bound: requests under way at a time
    NoCall,      \* no request
    MaxLogins    \* bound: tokens issued in all

ASSUME NoCallAssumption == NoCall \notin Calls
ASSUME MaxLoginsAssumption == MaxLogins \in Nat

VARIABLES
    token,       \* useAuthStore's token, or NoToken
    page,        \* the page shown
    loading,     \* the call the mounted login form waits for, or NoCall
    calls,       \* requests under way
    issued,      \* tokens the server has issued
    expired,     \* those of them it no longer accepts
    awake        \* is the window focused and online?

sessionVars == <<token, page, loading, calls, issued, expired, awake>>

NoToken == 0
Tokens == 1 .. MaxLogins
Idle == [kind |-> "idle", token |-> NoToken, answer |-> "none"]

(* The dashboard, and with it the panels of the open tabs, is mounted. *)
Shown == page = "dashboard"

SessionTypeOK ==
    /\ token \in Tokens \cup {NoToken}
    /\ page \in {"login", "dashboard"}
    /\ loading \in Calls \cup {NoCall}
    /\ calls \in [Calls -> [kind : {"idle", "login", "api"},
                            token : Tokens \cup {NoToken},
                            answer : {"none", "ok", "401", "error"}]]
    /\ issued \in 0 .. MaxLogins
    /\ expired \in SUBSET (1 .. issued)
    /\ awake \in BOOLEAN

SessionInit ==
    /\ token = NoToken
    /\ page = "login"
    /\ loading = NoCall
    /\ calls = [c \in Calls |-> Idle]
    /\ issued = 0
    /\ expired = {}
    /\ awake = TRUE

------------------------------------------------------------------------------
(* A request goes out, with a token or without (NoToken). *)
Sends(c, k, t) ==
    /\ calls[c] = Idle
    /\ calls' = [calls EXCEPT ![c] = [kind |-> k, token |-> t, answer |-> "none"]]
    /\ UNCHANGED <<token, page, issued, expired, awake>>

(* The form's button is disabled while it waits for an answer.  What is    *)
(* typed into it decides only between a grant and a refusal.               *)
CanSubmit == page = "login" /\ loading = NoCall

(* handleSubmit, up to its await.  The server does not look at the token a *)
(* login may carry.                                                        *)
Submit(c) ==
    /\ CanSubmit
    /\ loading' = c
    /\ Sends(c, "login", NoToken)

(* A request of the mounted dashboard, which polls while the window is     *)
(* focused and online.  The request interceptor attaches the token the     *)
(* store has now.                                                          *)
ApiCall(c) ==
    /\ Shown
    /\ awake
    /\ Sends(c, "api", token)
    /\ UNCHANGED loading

------------------------------------------------------------------------------
(* The server: a login is granted a new token or refused, or fails; any    *)
(* other call needs a token that is still valid.  A call keeps its token   *)
(* for as long as it matters.                                              *)
Answers(c, t, a) == calls' = [calls EXCEPT ![c].token = t, ![c].answer = a]

Pending(c, k) == calls[c].kind = k /\ calls[c].answer = "none"

Grant(c) ==
    /\ Pending(c, "login")
    /\ issued < MaxLogins
    /\ issued' = issued + 1
    /\ Answers(c, issued', "ok")
    /\ UNCHANGED <<token, page, loading, expired, awake>>

Refuse(c) ==
    /\ Pending(c, "login")
    /\ \E a \in {"401", "error"} : Answers(c, NoToken, a)
    /\ UNCHANGED <<token, page, loading, issued, expired, awake>>

Serve(c) ==
    /\ Pending(c, "api")
    /\ IF calls[c].token \in Tokens \ expired
       THEN \E a \in {"ok", "error"} : Answers(c, NoToken, a)
       ELSE Answers(c, calls[c].token, "401")
    /\ UNCHANGED <<token, page, loading, issued, expired, awake>>

(* An asleep window may lose any call or answer; axios reports an error. *)
Lose(c) ==
    /\ ~awake
    /\ calls[c] # Idle
    /\ Answers(c, NoToken, "error")
    /\ UNCHANGED <<token, page, loading, issued, expired, awake>>

(* 24 hours have passed, or the server has another secret. *)
Expire(t) ==
    /\ t \in (1 .. issued) \ expired
    /\ expired' = expired \cup {t}
    /\ UNCHANGED <<token, page, loading, calls, issued, awake>>

SleepOrWake ==
    /\ awake' = ~awake
    /\ UNCHANGED <<token, page, loading, calls, issued, expired>>

------------------------------------------------------------------------------
(* The token and the page change.  RequireAuth leads away from a dashboard *)
(* that has lost its token; a form that is mounted anew waits for nothing, *)
(* and the finally of handleSubmit ends its own form's wait.               *)
Becomes(t, p, answered) ==
    /\ token' = t
    /\ page' = IF t = NoToken THEN "login" ELSE p
    /\ loading' = IF page # "login" \/ page' # "login" \/ loading = answered
                  THEN NoCall ELSE loading

Received(c) ==
    /\ calls[c].answer # "none"
    /\ calls' = [calls EXCEPT ![c] = Idle]
    /\ UNCHANGED <<issued, expired, awake>>

(* handleSubmit stores the token and navigates, also when its form is no   *)
(* longer mounted.                                                         *)
LoggedIn(c) ==
    /\ calls[c].kind = "login"
    /\ calls[c].answer = "ok"
    /\ Becomes(calls[c].token, "dashboard", c)
    /\ Received(c)

(* Mutants of the interceptor: every failed answer logs out; none does. *)
RejectedByAnyError(c) ==
    /\ calls[c].answer \in {"401", "error"}
    /\ Becomes(NoToken, "login", c)
    /\ Received(c)

RejectedQuietly(c) ==
    /\ calls[c].answer = "401"
    /\ Becomes(token, page, c)
    /\ Received(c)

(* The response interceptor logs out on any 401, whichever token the       *)
(* request was sent with, a refused login included.                        *)
Rejected(c) ==
    /\ calls[c].answer = "401"
    /\ Becomes(NoToken, "login", c)
    /\ Received(c)

(* Any other answer leaves the session alone. *)
Answered(c) ==
    /\ \/ calls[c].answer = "error"
       \/ calls[c].kind = "api" /\ calls[c].answer = "ok"
    /\ Becomes(token, page, c)
    /\ Received(c)

(* The logout button. *)
Logout ==
    /\ Shown
    /\ Becomes(NoToken, "login", NoCall)
    /\ UNCHANGED <<calls, issued, expired, awake>>

(* Back and forward in the history: /login stays reachable while logged    *)
(* in, the dashboard only with a token.                                    *)
Visit(p) ==
    /\ page # p
    /\ p = "dashboard" => token # NoToken
    /\ Becomes(token, p, NoCall)
    /\ UNCHANGED <<calls, issued, expired, awake>>

(* Nobody in the window waits for its calls any more. *)
SessionReload ==
    /\ loading' = NoCall
    /\ calls' = [c \in Calls |-> Idle]
    /\ UNCHANGED <<token, page, issued, expired, awake>>
==============================================================================
