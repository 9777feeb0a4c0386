--------------------------- MODULE DecisionBroker ---------------------------
(***************************************************************************)
(* DecisionBroker of internal/servers/web/tool_approval.py: requests of    *)
(* tool runs that wait for a human, and the decisions users submit over    *)
(* HTTP or the WebSocket.  ToolApprovalBroker and ToolEscalationBroker are *)
(* this class with different Decisions.                                    *)
(*                                                                         *)
(* _request() and decide() run in different tasks of one event loop.  The  *)
(* blocks under the broker's lock contain no await, so each is one step;   *)
(* between them the only suspension of _request() is                       *)
(* wait_for(shield(future), timeout).  wait_for makes up its mind (the     *)
(* timer fires, or the task is cancelled) before the task runs again: that *)
(* gap is where a decision can still arrive.                               *)
(***************************************************************************)
EXTENDS Integers, FiniteSets

CONSTANTS
  Requests,     \* calls of _request()
  Ids,          \* request ids
  Users,
  Decisions,    \* allowed: what a user may decide
  IdOf,         \* the id each request is made under
  OwnerOf,      \* the user each request is made for
  MaxErrors     \* bound on the rejected submissions explored

ASSUME IdOfAssumption == IdOf \in [Requests -> Ids]
ASSUME OwnerOfAssumption == OwnerOf \in [Requests -> Users]
ASSUME DecisionsAssumption ==
  Decisions \intersect {"unset", "none", "expired", "cancelled", "error",
                        "conflict", "requested", "errors"} = {}
ASSUME RequestsAssumption == "none" \notin Requests
ASSUME MaxErrorsAssumption == MaxErrors \in Nat

VARIABLES
  pc,           \* where each _request() is
  future,       \* the future each _request() created: "unset" until done
  late,         \* the wall clock has reached the request's expires_at
  pending,      \* _pending: request id -> request, or "none"
  counters,     \* counters
  outcome,      \* what each _request() returned or raised, "none" before
  accepted      \* auxiliary: the submissions decide() accepted for a request

vars == <<pc, future, late, pending, counters, outcome, accepted>>

\* A _request() that is registered and has not resumed.
Active == {"waiting", "timed_out", "cancelling"}

CounterNames == Decisions \union {"requested", "expired", "cancelled", "errors"}

Submissions == [by : Users, decision : Decisions]

TypeOK ==
  /\ pc \in [Requests -> {"new", "done"} \union Active]
  /\ future \in [Requests -> Decisions \union {"unset", "expired", "cancelled"}]
  /\ late \in [Requests -> BOOLEAN]
  /\ pending \in [Ids -> Requests \union {"none"}]
  /\ counters \in [CounterNames -> Nat]
  /\ outcome \in [Requests ->
       Decisions \union {"none", "expired", "cancelled", "error", "conflict"}]
  /\ accepted \in [Requests -> SUBSET Submissions]

Init ==
  /\ pc = [r \in Requests |-> "new"]
  /\ future = [r \in Requests |-> "unset"]
  /\ late = [r \in Requests |-> FALSE]
  /\ pending = [i \in Ids |-> "none"]
  /\ counters = [n \in CounterNames |-> 0]
  /\ outcome = [r \in Requests |-> "none"]
  /\ accepted = [r \in Requests |-> {}]

Count(name) == counters' = [counters EXCEPT ![name] = @ + 1]

-----------------------------------------------------------------------------
(* _request *)

Register(r) ==
  /\ pc[r] = "new"
  /\ pending[IdOf[r]] = "none"
  /\ pending' = [pending EXCEPT ![IdOf[r]] = r]
  /\ pc' = [pc EXCEPT ![r] = "waiting"]
  /\ Count("requested")
  /\ UNCHANGED <<future, late, outcome, accepted>>

\* The id is taken: ApprovalConflict, and the first request is left alone.
RegisterConflict(r) ==
  /\ pc[r] = "new"
  /\ pending[IdOf[r]] # "none"
  /\ pc' = [pc EXCEPT ![r] = "done"]
  /\ outcome' = [outcome EXCEPT ![r] = "conflict"]
  /\ Count("errors")
  /\ UNCHANGED <<future, late, pending, accepted>>

\* on_registered raises: registered, failed and cleaned up before any
\* suspension, so the table is as it was.
RegisterError(r) ==
  /\ pc[r] = "new"
  /\ pending[IdOf[r]] = "none"
  /\ pc' = [pc EXCEPT ![r] = "done"]
  /\ future' = [future EXCEPT ![r] = "cancelled"]
  /\ outcome' = [outcome EXCEPT ![r] = "error"]
  /\ counters' = [counters EXCEPT !["requested"] = @ + 1, !["errors"] = @ + 1]
  /\ UNCHANGED <<late, pending, accepted>>

\* wait_for's timer fires: the task will resume with TimeoutError.
TimerFires(r) ==
  /\ pc[r] = "waiting"
  /\ pc' = [pc EXCEPT ![r] = "timed_out"]
  /\ UNCHANGED <<future, late, pending, counters, outcome, accepted>>

\* The task is cancelled (client gone, session.cancel, the loop's own
\* timeout): it will resume with CancelledError.
Cancel(r) ==
  /\ pc[r] \in {"waiting", "timed_out"}
  /\ pc' = [pc EXCEPT ![r] = "cancelling"]
  /\ UNCHANGED <<future, late, pending, counters, outcome, accepted>>

\* The finally clause: forget the request if the table still means it.
Leave(r, result) ==
  /\ pc' = [pc EXCEPT ![r] = "done"]
  /\ outcome' = [outcome EXCEPT ![r] = result]
  /\ pending' = IF pending[IdOf[r]] = r
                THEN [pending EXCEPT ![IdOf[r]] = "none"]
                ELSE pending

ResumeDecided(r) ==
  /\ pc[r] = "waiting"
  /\ future[r] # "unset"
  /\ Leave(r, future[r])
  /\ UNCHANGED <<future, late, counters, accepted>>

\* Mutant: a future that is done is counted again.
CloseCounting(r, value) ==
  /\ future' = IF future[r] = "unset" THEN [future EXCEPT ![r] = value] ELSE future
  /\ Count(value)

\* Mutant: the future is left open when the wait ends.
CloseNothing(r, value) == Count(value) /\ UNCHANGED future

\* Close the future under the lock unless it is done, counting the closure.
Close(r, value) ==
  IF future[r] = "unset"
  THEN /\ future' = [future EXCEPT ![r] = value]
       /\ Count(value)
  ELSE UNCHANGED <<future, counters>>

\* Mutant: a timeout that lost to a decision is ignored.
ResumeTimedOutFirst(r) ==
  /\ pc[r] = "timed_out"
  /\ future[r] = "unset"
  /\ Close(r, "expired")
  /\ Leave(r, "expired")
  /\ UNCHANGED <<late, accepted>>

ResumeTimedOut(r) ==
  /\ pc[r] = "timed_out"
  /\ Close(r, "expired")
  /\ Leave(r, "expired")
  /\ UNCHANGED <<late, accepted>>

ResumeCancelled(r) ==
  /\ pc[r] = "cancelling"
  /\ Close(r, "cancelled")
  /\ Leave(r, "cancelled")
  /\ UNCHANGED <<late, accepted>>

-----------------------------------------------------------------------------
(* decide *)

\* Mutant: the owner is not checked.
OpenToAll(r, u, i) == pending[i] = r /\ future[r] = "unset"

\* The request that id i stands for is open and belongs to user u.
Open(r, u, i) ==
  /\ pending[i] = r
  /\ OwnerOf[r] = u
  /\ future[r] = "unset"

DecideAccepted(r, u, i, d) ==
  /\ Open(r, u, i)
  /\ ~late[r]
  /\ d \in Decisions
  /\ future' = [future EXCEPT ![r] = d]
  /\ Count(d)
  /\ accepted' = [accepted EXCEPT ![r] = @ \union {[by |-> u, decision |-> d]}]
  /\ UNCHANGED <<pc, late, pending, outcome>>

\* ApprovalExpired: the submission itself closes an overdue request.
DecideExpired(r, u, i) ==
  /\ Open(r, u, i)
  /\ late[r]
  /\ counters["errors"] < MaxErrors
  /\ future' = [future EXCEPT ![r] = "expired"]
  /\ counters' = [counters EXCEPT !["expired"] = @ + 1, !["errors"] = @ + 1]
  /\ UNCHANGED <<pc, late, pending, outcome, accepted>>

\* ApprovalNotFound, ApprovalForbidden, ApprovalConflict.
DecideRejected(u, i, d) ==
  /\ counters["errors"] < MaxErrors
  /\ \A r \in Requests : Open(r, u, i) => ~late[r] /\ d \notin Decisions
  /\ Count("errors")
  /\ UNCHANGED <<pc, future, late, pending, outcome, accepted>>

-----------------------------------------------------------------------------

\* The wall clock passes expires_at; wait_for counts on another clock.
DeadlinePasses(r) ==
  /\ ~late[r]
  /\ late' = [late EXCEPT ![r] = TRUE]
  /\ UNCHANGED <<pc, future, pending, counters, outcome, accepted>>

\* "expired" stands for every value that is not an allowed decision.
Submitted == Decisions \union {"expired"}

RequestStep(r) ==
  \/ Register(r)
  \/ RegisterConflict(r)
  \/ RegisterError(r)
  \/ TimerFires(r)
  \/ Cancel(r)
  \/ ResumeDecided(r)
  \/ ResumeTimedOut(r)
  \/ ResumeCancelled(r)
  \/ DeadlinePasses(r)

DecideStep(u, i) ==
  \/ \E r \in Requests :
       \/ \E d \in Submitted : DecideAccepted(r, u, i, d)
       \/ DecideExpired(r, u, i)
  \/ \E d \in Submitted : DecideRejected(u, i, d)

Next ==
  \/ \E r \in Requests : RequestStep(r)
  \/ \E u \in Users, i \in Ids : DecideStep(u, i)

Spec == Init /\ [][Next]_vars

\* The event loop runs what is ready and fires due timers; no user has to
\* decide and nobody has to cancel.
Fairness ==
  \A r \in Requests :
    /\ WF_vars(TimerFires(r))
    /\ WF_vars(ResumeDecided(r) \/ ResumeTimedOut(r) \/ ResumeCancelled(r))

FairSpec == Spec /\ Fairness

-----------------------------------------------------------------------------
(* Properties *)

\* The table and the waiting requests agree: every waiting request can be
\* found under its id (a second request with the id never hides it), and
\* nothing stays in the table once its requester is gone, whichever of
\* result, timeout, cancellation and error ended it.
PendingIsActive ==
  /\ \A r \in Requests : pc[r] \in Active => pending[IdOf[r]] = r
  /\ \A i \in Ids : pending[i] # "none" =>
       pc[pending[i]] \in Active /\ IdOf[pending[i]] = i

\* The requests that were entered into the table, and those of them whose
\* future was closed with one value after that.
Registered == {r \in Requests : pc[r] # "new" /\ outcome[r] # "conflict"}
ClosedWith(value) == {r \in Requests : future[r] = value /\ outcome[r] # "error"}

\* Every registered request is counted exactly once when it comes, and once,
\* under the value its future got, when it is closed: although the timer, a
\* late submission and a cancellation each count it if they come first, and
\* not at all while it is open or if on_registered failed.
CountedOnce ==
  /\ counters["requested"] = Cardinality(Registered)
  /\ \A value \in Decisions \union {"expired", "cancelled"} :
       counters[value] = Cardinality(ClosedWith(value))

\* A run only ever acts on a decision that the owner of its request made for
\* that request and that decide() accepted: neither a timeout nor a foreign
\* user, a second request with the same id or an unknown value yields one.
OnlyConsentIsReturned ==
  \A r \in Requests : outcome[r] \in Decisions =>
    accepted[r] = {[by |-> OwnerOf[r], decision |-> outcome[r]]}

\* decide(), the timer and the cancellation never overwrite an answer that is
\* already there.
SettledOnce ==
  [][\A r \in Requests : future[r] # "unset" => future'[r] = future[r]]_vars

\* Every request that waits for a human ends, even if no human ever answers.
EveryRequestEnds ==
  \A r \in Requests : (pc[r] \in Active) ~> (pc[r] = "done")

\* The broker keeps the promise of HumanDecision.
Abstract == INSTANCE HumanDecision WITH cell <- future, result <- outcome

ImplementsHumanDecision == Abstract!Spec

\* docs/api-reference.md:130-131: a submission for an expired id is answered
\* with 410.  So one that was accepted is what its run gets, unless the run
\* itself went away.
AcceptedTakesEffect ==
  \A r \in Requests : \A s \in accepted[r] :
    pc[r] = "done" /\ outcome[r] # "cancelled" => outcome[r] = s.decision
=============================================================================
