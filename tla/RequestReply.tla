----------------------------- MODULE RequestReply -----------------------------
(***************************************************************************)
(* What the file API of the server promises, with neither connections nor  *)
(* messages: a request is asked, perhaps carried out by the agent, and     *)
(* answered at most once, and the answer is true.  A request that was      *)
(* turned away is never carried out; one that timed out still may be.      *)
(***************************************************************************)
CONSTANTS
    Requests,
    Listings   \* the requests for a directory listing

VARIABLES
    stage,    \* "idle", "asked" or "answered"
    answer,   \* what the browser was told
    outcome   \* what the agent did: "none", "ok" or "failed"

abstractVars == <<stage, answer, outcome>>

Init ==
    /\ stage = [r \in Requests |-> "idle"]
    /\ answer = [r \in Requests |-> "none"]
    /\ outcome = [r \in Requests |-> "none"]

Ask(r) ==
    /\ stage[r] = "idle"
    /\ stage' = [stage EXCEPT ![r] = "asked"]
    /\ UNCHANGED <<answer, outcome>>

(* The agent is offline or cannot be written to. *)
TurnAway(r) ==
    /\ stage[r] \in {"idle", "asked"}
    /\ outcome[r] = "none"
    /\ stage' = [stage EXCEPT ![r] = "answered"]
    /\ \E a \in {"offline", "sendFailed"} : answer' = [answer EXCEPT ![r] = a]
    /\ UNCHANGED outcome

(* The agent carries it out, at most once, maybe after the time limit. *)
CarryOut(r) ==
    /\ stage[r] = "asked" \/ answer[r] = "timeout"
    /\ outcome[r] = "none"
    /\ \E o \in {"ok", "failed"} : outcome' = [outcome EXCEPT ![r] = o]
    /\ UNCHANGED <<stage, answer>>

Tell(r, a) ==
    /\ stage[r] = "asked"
    /\ stage' = [stage EXCEPT ![r] = "answered"]
    /\ answer' = [answer EXCEPT ![r] = a]
    /\ UNCHANGED outcome

(* A directory that cannot be read is listed as an empty one. *)
AnswerOk(r) ==
    /\ outcome[r] = "ok" \/ (outcome[r] = "failed" /\ r \in Listings)
    /\ Tell(r, "ok")

AnswerError(r) == outcome[r] = "failed" /\ Tell(r, "error")

AnswerTimeout(r) == Tell(r, "timeout")

Next ==
    \E r \in Requests :
        \/ Ask(r) \/ TurnAway(r) \/ CarryOut(r)
        \/ AnswerOk(r) \/ AnswerError(r) \/ AnswerTimeout(r)

Spec == Init /\ [][Next]_abstractVars
==============================================================================
