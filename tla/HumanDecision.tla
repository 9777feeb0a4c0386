---------------------------- MODULE HumanDecision ----------------------------
(***************************************************************************)
(* What a tool run relies on when it asks a human (the promise of          *)
(* DecisionBroker in internal/servers/web/tool_approval.py, free of        *)
(* timers, tables and locks).  Every request has one answer cell that is   *)
(* written at most once, and one result.  The result is the answer in the  *)
(* cell, or it is a refusal: a request that runs out of time never yields  *)
(* anything but "expired", so no result says more than a human said.       *)
(***************************************************************************)

CONSTANTS
  Requests,
  Decisions     \* what a human may decide

VARIABLES
  cell,         \* the answer of each request: "unset" until it is settled
  result        \* what each requester got: "none" until it resumes

hvars == <<cell, result>>

Init ==
  /\ cell = [r \in Requests |-> "unset"]
  /\ result = [r \in Requests |-> "none"]

\* A human answers, or the broker closes the request, while it is open.
Settle(r, answer) ==
  /\ cell[r] = "unset"
  /\ result[r] = "none"
  /\ cell' = [cell EXCEPT ![r] = answer]
  /\ UNCHANGED result

\* The requester resumes with the answer.
Return(r) ==
  /\ result[r] = "none"
  /\ cell[r] \in Decisions \union {"expired"}
  /\ result' = [result EXCEPT ![r] = cell[r]]
  /\ UNCHANGED cell

\* The requester resumes without one; the cell is closed if it was open.
Refuse(r, reason) ==
  /\ result[r] = "none"
  /\ result' = [result EXCEPT ![r] = reason]
  /\ cell' = [cell EXCEPT ![r] =
                IF @ # "unset" THEN @
                ELSE IF reason = "expired" THEN "expired" ELSE "cancelled"]

\* The request was never taken: nobody can answer it and nothing was asked.
TurnAway(r) ==
  /\ result[r] = "none"
  /\ cell[r] = "unset"
  /\ result' = [result EXCEPT ![r] = "conflict"]
  /\ UNCHANGED cell

Next ==
  \E r \in Requests :
    \/ \E answer \in Decisions \union {"expired"} : Settle(r, answer)
    \/ Return(r)
    \/ \E reason \in {"expired", "cancelled", "error"} : Refuse(r, reason)
    \/ TurnAway(r)

Spec == Init /\ [][Next]_hvars
=============================================================================
