------------------------ MODULE DecisionBrokerProofs ------------------------
(***************************************************************************)
(* Theorems about DecisionBroker, for any number of requests, users, ids   *)
(* and decisions, including requests that share an id.                     *)
(***************************************************************************)
EXTENDS DecisionBroker, FiniteSetTheorems, TLAPS

\* Names that are not decisions.
Reserved == {"unset", "none", "expired", "cancelled", "error", "conflict",
             "requested", "errors"}

LEMMA ReservedAreNotDecisions == \A n \in Reserved : n \notin Decisions
BY DecisionsAssumption DEF Reserved

\* A request that has not started has no answer, no result and no submission.
NewIsUntouched ==
  \A r \in Requests : pc[r] = "new" =>
    future[r] = "unset" /\ outcome[r] = "none" /\ accepted[r] = {}

\* A request has no result while it is waiting.
ActiveHasNoOutcome ==
  \A r \in Requests : pc[r] \in Active => outcome[r] = "none"

\* A future holds a decision exactly when one submission, by the owner of
\* the request, was accepted; and it holds that decision.
FutureIsAccepted ==
  \A r \in Requests :
    accepted[r] = IF future[r] \in Decisions
                  THEN {[by |-> OwnerOf[r], decision |-> future[r]]}
                  ELSE {}

\* A decision that is returned is the one in the future.
OutcomeIsFuture ==
  \A r \in Requests : outcome[r] \in Decisions => future[r] = outcome[r]

BrokerInv ==
  /\ TypeOK
  /\ PendingIsActive
  /\ NewIsUntouched
  /\ ActiveHasNoOutcome
  /\ FutureIsAccepted
  /\ OutcomeIsFuture

USE IdOfAssumption, OwnerOfAssumption, RequestsAssumption, MaxErrorsAssumption

-----------------------------------------------------------------------------
(* Helpers shared by the actions *)

\* Counting keeps the counters natural numbers.
LEMMA CountTyped ==
  ASSUME TypeOK, NEW n \in CounterNames, Count(n)
  PROVE  counters' \in [CounterNames -> Nat]
BY DEF TypeOK, Count

\* Closing a future with "expired" or "cancelled" keeps the types.
LEMMA CloseTyped ==
  ASSUME TypeOK, NEW r \in Requests, NEW value \in {"expired", "cancelled"},
         Close(r, value)
  PROVE  /\ future' \in [Requests -> Decisions \union {"unset", "expired", "cancelled"}]
         /\ counters' \in [CounterNames -> Nat]
BY CountTyped DEF TypeOK, Close, CounterNames

\* Leaving the table keeps the types.
LEMMA LeaveTyped ==
  ASSUME TypeOK, NEW r \in Requests,
         NEW result \in Decisions \union {"expired", "cancelled"}, Leave(r, result)
  PROVE  /\ pc' \in [Requests -> {"new", "done"} \union Active]
         /\ outcome' \in [Requests -> Decisions \union
                            {"none", "expired", "cancelled", "error", "conflict"}]
         /\ pending' \in [Ids -> Requests \union {"none"}]
BY DEF TypeOK, Leave

\* The request that leaves frees its id and no other.
LEMMA LeaveKeepsTable ==
  ASSUME TypeOK, PendingIsActive, NEW r \in Requests, pc[r] \in Active,
         NEW result, Leave(r, result)
  PROVE  PendingIsActive'
BY DEF TypeOK, PendingIsActive, Leave, Active

-----------------------------------------------------------------------------
(* Type correctness *)

\* Every reachable state of the broker is well typed.
THEOREM TypeCorrect == Spec => []TypeOK
<1>1. Init => TypeOK
  BY DEF Init, TypeOK, Active
<1>2. TypeOK /\ [Next]_vars => TypeOK'
  <2> SUFFICES ASSUME TypeOK, [Next]_vars PROVE TypeOK'
    OBVIOUS
  <2>1. ASSUME NEW r \in Requests, Register(r) PROVE TypeOK'
    BY <2>1, CountTyped DEF Register, TypeOK, Active, CounterNames
  <2>2. ASSUME NEW r \in Requests, RegisterConflict(r) PROVE TypeOK'
    BY <2>2, CountTyped DEF RegisterConflict, TypeOK, Active, CounterNames
  <2>3. ASSUME NEW r \in Requests, RegisterError(r) PROVE TypeOK'
    BY <2>3 DEF RegisterError, TypeOK, Active, CounterNames
  <2>4. ASSUME NEW r \in Requests, TimerFires(r) PROVE TypeOK'
    BY <2>4 DEF TimerFires, TypeOK, Active
  <2>5. ASSUME NEW r \in Requests, Cancel(r) PROVE TypeOK'
    BY <2>5 DEF Cancel, TypeOK, Active
  <2>6. ASSUME NEW r \in Requests, ResumeDecided(r) PROVE TypeOK'
    <3>1. future[r] \in Decisions \union {"expired", "cancelled"}
      BY <2>6 DEF ResumeDecided, TypeOK
    <3> QED BY <2>6, <3>1, LeaveTyped DEF ResumeDecided, TypeOK
  <2>7. ASSUME NEW r \in Requests, ResumeTimedOut(r) PROVE TypeOK'
    BY <2>7, CloseTyped, LeaveTyped DEF ResumeTimedOut, TypeOK
  <2>8. ASSUME NEW r \in Requests, ResumeCancelled(r) PROVE TypeOK'
    BY <2>8, CloseTyped, LeaveTyped DEF ResumeCancelled, TypeOK
  <2>9. ASSUME NEW r \in Requests, DeadlinePasses(r) PROVE TypeOK'
    BY <2>9 DEF DeadlinePasses, TypeOK
  <2>10. ASSUME NEW u \in Users, NEW i \in Ids, NEW r \in Requests,
                NEW d \in Submitted, DecideAccepted(r, u, i, d)
         PROVE  TypeOK'
    <3>1. [by |-> u, decision |-> d] \in Submissions
      BY <2>10 DEF DecideAccepted, Submissions
    <3> QED BY <2>10, <3>1, CountTyped DEF DecideAccepted, TypeOK, CounterNames
  <2>11. ASSUME NEW u \in Users, NEW i \in Ids, NEW r \in Requests,
                DecideExpired(r, u, i)
         PROVE  TypeOK'
    BY <2>11 DEF DecideExpired, TypeOK, CounterNames
  <2>12. ASSUME NEW u \in Users, NEW i \in Ids, NEW d \in Submitted,
                DecideRejected(u, i, d)
         PROVE  TypeOK'
    BY <2>12, CountTyped DEF DecideRejected, TypeOK, CounterNames
  <2>13. CASE UNCHANGED vars
    BY <2>13 DEF vars, TypeOK
  <2> QED
    BY <2>1, <2>2, <2>3, <2>4, <2>5, <2>6, <2>7, <2>8, <2>9, <2>10, <2>11,
       <2>12, <2>13
    DEF Next, RequestStep, DecideStep
<1> QED BY <1>1, <1>2, PTL DEF Spec

-----------------------------------------------------------------------------
(* The inductive invariant *)

LEMMA BrokerInvInit == Init => BrokerInv
<1> SUFFICES ASSUME Init PROVE BrokerInv
  OBVIOUS
<1>1. TypeOK
  BY DEF Init, TypeOK, Active
<1>2. "unset" \notin Decisions /\ "none" \notin Decisions
  BY ReservedAreNotDecisions DEF Reserved
<1> QED
  BY <1>1, <1>2
  DEF Init, BrokerInv, PendingIsActive, NewIsUntouched, ActiveHasNoOutcome,
      FutureIsAccepted, OutcomeIsFuture, Active

LEMMA BrokerInvStep ==
  ASSUME BrokerInv, TypeOK', [Next]_vars
  PROVE  BrokerInv'
<1> DEFINE Rest == NewIsUntouched /\ ActiveHasNoOutcome /\ FutureIsAccepted /\ OutcomeIsFuture
<1>0. /\ "unset" \notin Decisions /\ "none" \notin Decisions
      /\ "expired" \notin Decisions /\ "cancelled" \notin Decisions
      /\ "error" \notin Decisions /\ "conflict" \notin Decisions
  BY ReservedAreNotDecisions DEF Reserved
<1>a. TypeOK /\ PendingIsActive /\ Rest
  BY DEF BrokerInv
<1>1. ASSUME NEW r \in Requests, Register(r) PROVE BrokerInv'
  <2>1. PendingIsActive'
    BY <1>a, <1>1 DEF Register, TypeOK, PendingIsActive, Active
  <2>2. Rest'
    BY <1>a, <1>1
    DEF Register, TypeOK, NewIsUntouched, ActiveHasNoOutcome, FutureIsAccepted,
        OutcomeIsFuture
  <2> QED BY <2>1, <2>2 DEF BrokerInv
<1>2. ASSUME NEW r \in Requests, RegisterConflict(r) PROVE BrokerInv'
  <2>1. PendingIsActive'
    BY <1>a, <1>2 DEF RegisterConflict, TypeOK, PendingIsActive, Active
  <2>2. Rest'
    BY <1>a, <1>2, <1>0
    DEF RegisterConflict, TypeOK, NewIsUntouched, ActiveHasNoOutcome,
        FutureIsAccepted, OutcomeIsFuture, Active
  <2> QED BY <2>1, <2>2 DEF BrokerInv
<1>3. ASSUME NEW r \in Requests, RegisterError(r) PROVE BrokerInv'
  <2>1. PendingIsActive'
    BY <1>a, <1>3 DEF RegisterError, TypeOK, PendingIsActive, Active
  <2>2. Rest'
    BY <1>a, <1>3, <1>0
    DEF RegisterError, TypeOK, NewIsUntouched, ActiveHasNoOutcome,
        FutureIsAccepted, OutcomeIsFuture, Active
  <2> QED BY <2>1, <2>2 DEF BrokerInv
<1>4. ASSUME NEW r \in Requests, TimerFires(r) \/ Cancel(r) PROVE BrokerInv'
  <2>1. PendingIsActive'
    BY <1>a, <1>4 DEF TimerFires, Cancel, TypeOK, PendingIsActive, Active
  <2>2. Rest'
    BY <1>a, <1>4
    DEF TimerFires, Cancel, TypeOK, NewIsUntouched, ActiveHasNoOutcome,
        FutureIsAccepted, OutcomeIsFuture, Active
  <2> QED BY <2>1, <2>2 DEF BrokerInv
<1>5. ASSUME NEW r \in Requests, ResumeDecided(r) PROVE BrokerInv'
  <2>1. PendingIsActive'
    BY <1>a, <1>5, LeaveKeepsTable DEF ResumeDecided, Active
  <2>2. Rest'
    BY <1>a, <1>5
    DEF ResumeDecided, Leave, TypeOK, NewIsUntouched, ActiveHasNoOutcome,
        FutureIsAccepted, OutcomeIsFuture, Active
  <2> QED BY <2>1, <2>2 DEF BrokerInv
<1>6. ASSUME NEW r \in Requests, ResumeTimedOut(r) \/ ResumeCancelled(r)
      PROVE  BrokerInv'
  <2>1. PendingIsActive'
    BY <1>a, <1>6, LeaveKeepsTable DEF ResumeTimedOut, ResumeCancelled, Active
  <2>2. Rest'
    BY <1>a, <1>6, <1>0
    DEF ResumeTimedOut, ResumeCancelled, Close, Leave, TypeOK, NewIsUntouched,
        ActiveHasNoOutcome, FutureIsAccepted, OutcomeIsFuture, Active
  <2> QED BY <2>1, <2>2 DEF BrokerInv
<1>7. ASSUME NEW u \in Users, NEW i \in Ids, NEW r \in Requests,
             NEW d \in Submitted, DecideAccepted(r, u, i, d)
      PROVE  BrokerInv'
  <2>1. pc[r] \in Active
    BY <1>a, <1>7 DEF DecideAccepted, Open, PendingIsActive
  <2>2. PendingIsActive'
    BY <1>a, <1>7 DEF DecideAccepted, PendingIsActive
  <2>3. NewIsUntouched' /\ ActiveHasNoOutcome'
    BY <1>a, <1>7, <2>1
    DEF DecideAccepted, Open, TypeOK, NewIsUntouched, ActiveHasNoOutcome, Active
  <2>4. OutcomeIsFuture'
    BY <1>a, <1>7, <1>0, <2>1
    DEF DecideAccepted, Open, TypeOK, OutcomeIsFuture, ActiveHasNoOutcome
  <2>5. accepted[r] = {} /\ d \in Decisions /\ u = OwnerOf[r]
    BY <1>a, <1>7, <1>0 DEF DecideAccepted, Open, FutureIsAccepted
  <2>6. /\ future' = [future EXCEPT ![r] = d]
        /\ accepted' = [accepted EXCEPT ![r] = {[by |-> OwnerOf[r], decision |-> d]}]
    BY <1>7, <2>5 DEF DecideAccepted
  <2>7. FutureIsAccepted'
    BY <1>a, <2>5, <2>6 DEF TypeOK, FutureIsAccepted
  <2> QED BY <2>2, <2>3, <2>4, <2>7 DEF BrokerInv
<1>8. ASSUME NEW u \in Users, NEW i \in Ids, NEW r \in Requests,
             DecideExpired(r, u, i)
      PROVE  BrokerInv'
  <2>1. pc[r] \in Active
    BY <1>a, <1>8 DEF DecideExpired, Open, PendingIsActive
  <2>2. PendingIsActive'
    BY <1>a, <1>8 DEF DecideExpired, PendingIsActive
  <2>3. Rest'
    BY <1>a, <1>8, <1>0, <2>1
    DEF DecideExpired, Open, TypeOK, NewIsUntouched, ActiveHasNoOutcome,
        FutureIsAccepted, OutcomeIsFuture, Active
  <2> QED BY <2>2, <2>3 DEF BrokerInv
<1>9. ASSUME \/ \E r \in Requests : DeadlinePasses(r)
             \/ \E u \in Users, i \in Ids, d \in Submitted : DecideRejected(u, i, d)
             \/ UNCHANGED vars
      PROVE  BrokerInv'
  <2>1. UNCHANGED <<pc, future, pending, outcome, accepted>>
    BY <1>9 DEF DeadlinePasses, DecideRejected, vars
  <2> QED
    BY <2>1, <1>a
    DEF BrokerInv, PendingIsActive, NewIsUntouched, ActiveHasNoOutcome,
        FutureIsAccepted, OutcomeIsFuture
<1> QED
  BY <1>1, <1>2, <1>3, <1>4, <1>5, <1>6, <1>7, <1>8, <1>9
  DEF Next, RequestStep, DecideStep

\* The inductive invariant holds throughout.
THEOREM BrokerInvariant == Spec => []BrokerInv
<1>1. BrokerInv /\ TypeOK' /\ [Next]_vars => BrokerInv'
  BY BrokerInvStep
<1> QED BY <1>1, BrokerInvInit, TypeCorrect, PTL DEF Spec

\* The table holds exactly the waiting requests, whatever ends them.
THEOREM TableIsExact == Spec => []PendingIsActive
BY BrokerInvariant, PTL DEF BrokerInv

\* A run never acts on a decision its owner did not make for that request.
THEOREM ConsentIsReal == Spec => []OnlyConsentIsReturned
<1>1. BrokerInv => OnlyConsentIsReturned
  BY DEF BrokerInv, OutcomeIsFuture, FutureIsAccepted, OnlyConsentIsReturned
<1> QED BY <1>1, BrokerInvariant, PTL

\* An answer is never overwritten, whatever order timer, submission and
\* cancellation come in.
THEOREM AnswersAreFinal == Spec => SettledOnce
<1> DEFINE Final == \A r \in Requests : future[r] # "unset" => future'[r] = future[r]
<1>1. BrokerInv /\ [Next]_vars => [Final]_vars
  <2> SUFFICES ASSUME BrokerInv, Next,
                      NEW q \in Requests, future[q] # "unset"
               PROVE  future'[q] = future[q]
    OBVIOUS
  <2>1. TypeOK /\ NewIsUntouched
    BY DEF BrokerInv
  <2>2. ASSUME NEW r \in Requests, RequestStep(r) PROVE future'[q] = future[q]
    BY <2>1, <2>2
    DEF RequestStep, Register, RegisterConflict, RegisterError, TimerFires,
        Cancel, ResumeDecided, ResumeTimedOut, ResumeCancelled, DeadlinePasses,
        Close, TypeOK, NewIsUntouched
  <2>3. ASSUME NEW u \in Users, NEW i \in Ids, DecideStep(u, i)
        PROVE  future'[q] = future[q]
    BY <2>1, <2>3
    DEF DecideStep, DecideAccepted, DecideExpired, DecideRejected, Open, TypeOK
  <2> QED BY <2>2, <2>3 DEF Next
<1> QED BY <1>1, BrokerInvariant, PTL DEF Spec, SettledOnce

-----------------------------------------------------------------------------
(* Counting *)

Closures == Decisions \union {"expired", "cancelled"}

\* What is counted is finite, however many requests there may be.
FinitelyMany ==
  /\ IsFiniteSet(Registered)
  /\ \A value \in Closures : IsFiniteSet(ClosedWith(value))

CountInv == FinitelyMany /\ CountedOnce

LEMMA OneMore ==
  ASSUME NEW S, NEW T, NEW x, IsFiniteSet(S), x \notin S, T = S \union {x}
  PROVE  IsFiniteSet(T) /\ Cardinality(T) = Cardinality(S) + 1
BY FS_AddElement

\* A step that neither registers nor closes a request, and counts at most an
\* error, keeps the books.
LEMMA BooksUntouched ==
  ASSUME CountInv, UNCHANGED <<Registered, future>>,
         \A r \in Requests : (outcome'[r] = "error") <=> (outcome[r] = "error"),
         counters'["requested"] = counters["requested"],
         \A value \in Closures : counters'[value] = counters[value]
  PROVE  CountInv'
<1>1. ASSUME NEW value \in Closures PROVE ClosedWith(value)' = ClosedWith(value)
  BY DEF ClosedWith
<1> QED BY <1>1 DEF CountInv, FinitelyMany, CountedOnce, Closures

\* A request is entered: no other one and no future changes.
LEMMA BooksRegister ==
  ASSUME TypeOK, CountInv, NEW r \in Requests, pc[r] = "new",
         Registered' = Registered \union {r},
         \A value \in Closures : ClosedWith(value)' = ClosedWith(value),
         counters'["requested"] = counters["requested"] + 1,
         \A value \in Closures : counters'[value] = counters[value]
  PROVE  CountInv'
<1>1. IsFiniteSet(Registered)' /\ Cardinality(Registered)' = Cardinality(Registered) + 1
  BY OneMore DEF CountInv, FinitelyMany, Registered
<1> QED BY <1>1 DEF CountInv, FinitelyMany, CountedOnce, Closures

\* A future that was open is closed, and counted under its value.
LEMMA BooksClose ==
  ASSUME TypeOK, CountInv, NEW r \in Requests, NEW v \in Closures,
         future[r] = "unset", future' = [future EXCEPT ![r] = v],
         Registered' = Registered, outcome'[r] # "error",
         \A q \in Requests \ {r} : outcome'[q] = outcome[q],
         counters'["requested"] = counters["requested"],
         counters'[v] = counters[v] + 1,
         \A value \in Closures \ {v} : counters'[value] = counters[value]
  PROVE  CountInv'
<1>0. "unset" \notin Closures
  BY ReservedAreNotDecisions DEF Reserved, Closures
<1>1. ClosedWith(v)' = ClosedWith(v) \union {r}
  BY DEF ClosedWith, TypeOK
<1>2. r \notin ClosedWith(v)
  BY <1>0 DEF ClosedWith
<1>3. ASSUME NEW value \in Closures \ {v} PROVE ClosedWith(value)' = ClosedWith(value)
  BY <1>0 DEF ClosedWith, TypeOK
<1>4. IsFiniteSet(ClosedWith(v))' /\ Cardinality(ClosedWith(v))' = Cardinality(ClosedWith(v)) + 1
  BY <1>1, <1>2, OneMore DEF CountInv, FinitelyMany
<1> QED BY <1>3, <1>4 DEF CountInv, FinitelyMany, CountedOnce, Closures

LEMMA CountInvInit == Init => CountInv
<1> SUFFICES ASSUME Init PROVE CountInv
  OBVIOUS
<1>1. "unset" \notin Closures
  BY ReservedAreNotDecisions DEF Reserved, Closures
<1>2. Registered = {} /\ \A value \in Closures : ClosedWith(value) = {}
  BY <1>1 DEF Init, Registered, ClosedWith
<1>3. \A name \in Closures \union {"requested"} : counters[name] = 0
  BY DEF Init, CounterNames, Closures
<1> QED BY <1>2, <1>3, FS_EmptySet DEF CountInv, FinitelyMany, CountedOnce, Closures

LEMMA CountInvStep ==
  ASSUME BrokerInv, CountInv, [Next]_vars
  PROVE  CountInv'
<1>0. /\ \A v \in Closures : v \notin {"unset", "none", "error", "conflict", "requested", "errors"}
      /\ Closures \union {"requested", "errors"} \subseteq CounterNames
  BY ReservedAreNotDecisions DEF Reserved, Closures, CounterNames
<1>a. TypeOK /\ NewIsUntouched /\ ActiveHasNoOutcome /\ PendingIsActive
  BY DEF BrokerInv
<1>1. ASSUME NEW r \in Requests, Register(r) PROVE CountInv'
  <2>1. Registered' = Registered \union {r}
    BY <1>a, <1>1 DEF Register, Registered, TypeOK, NewIsUntouched
  <2>2. \A value \in Closures : ClosedWith(value)' = ClosedWith(value)
    BY <1>1 DEF Register, ClosedWith
  <2>3. /\ counters'["requested"] = counters["requested"] + 1
        /\ \A value \in Closures : counters'[value] = counters[value]
    BY <1>a, <1>0, <1>1 DEF Register, Count, TypeOK
  <2> QED BY <1>a, <1>1, <2>1, <2>2, <2>3, BooksRegister DEF Register
<1>2. ASSUME NEW r \in Requests, RegisterConflict(r) PROVE CountInv'
  <2>1. Registered' = Registered
    BY <1>a, <1>2 DEF RegisterConflict, Registered, TypeOK
  <2>2. \A q \in Requests : (outcome'[q] = "error") <=> (outcome[q] = "error")
    BY <1>a, <1>2 DEF RegisterConflict, TypeOK, NewIsUntouched
  <2>3. /\ counters'["requested"] = counters["requested"]
        /\ \A value \in Closures : counters'[value] = counters[value]
    BY <1>a, <1>0, <1>2 DEF RegisterConflict, Count, TypeOK
  <2> QED BY <1>2, <2>1, <2>2, <2>3, BooksUntouched DEF RegisterConflict
<1>3. ASSUME NEW r \in Requests, RegisterError(r) PROVE CountInv'
  <2>1. Registered' = Registered \union {r}
    BY <1>a, <1>3 DEF RegisterError, Registered, TypeOK
  <2>2. ASSUME NEW value \in Closures PROVE ClosedWith(value)' = ClosedWith(value)
    BY <1>a, <1>0, <1>3 DEF RegisterError, ClosedWith, TypeOK, NewIsUntouched
  <2>3. /\ counters'["requested"] = counters["requested"] + 1
        /\ \A value \in Closures : counters'[value] = counters[value]
    BY <1>a, <1>0, <1>3 DEF RegisterError, TypeOK
  <2> QED BY <1>a, <1>3, <2>1, <2>2, <2>3, BooksRegister DEF RegisterError
<1>4. ASSUME NEW r \in Requests, TimerFires(r) \/ Cancel(r) PROVE CountInv'
  <2>1. Registered' = Registered
    BY <1>a, <1>4 DEF TimerFires, Cancel, Registered, TypeOK
  <2> QED BY <1>4, <2>1, BooksUntouched DEF TimerFires, Cancel
<1>5. ASSUME NEW r \in Requests, NEW result \in Closures,
             pc[r] \in Active, Leave(r, result)
      PROVE  /\ Registered' = Registered
             /\ outcome'[r] # "error" /\ outcome[r] # "error"
             /\ \A q \in Requests \ {r} : outcome'[q] = outcome[q]
  BY <1>a, <1>0, <1>5 DEF Leave, Registered, TypeOK, ActiveHasNoOutcome, Active
<1>6. ASSUME NEW r \in Requests, ResumeDecided(r) PROVE CountInv'
  <2>1. future[r] \in Closures /\ pc[r] \in Active
    BY <1>a, <1>6 DEF ResumeDecided, TypeOK, Closures, Active
  <2> QED BY <1>5, <1>6, <2>1, BooksUntouched DEF ResumeDecided
<1>7. ASSUME NEW r \in Requests, NEW v \in {"expired", "cancelled"},
             pc[r] \in Active, Close(r, v), Leave(r, v)
      PROVE  CountInv'
  <2>1. v \in Closures
    BY DEF Closures
  <2>2. CASE future[r] = "unset"
    <3>1. /\ counters'["requested"] = counters["requested"]
          /\ counters'[v] = counters[v] + 1
          /\ \A value \in Closures \ {v} : counters'[value] = counters[value]
          /\ future' = [future EXCEPT ![r] = v]
      BY <1>a, <1>0, <1>7, <2>1, <2>2 DEF Close, Count, TypeOK
    <3> QED BY <1>a, <1>5, <1>7, <2>1, <2>2, <3>1, BooksClose
  <2>3. CASE future[r] # "unset"
    BY <1>5, <1>7, <2>1, <2>3, BooksUntouched DEF Close
  <2> QED BY <2>2, <2>3
<1>8. ASSUME NEW r \in Requests, ResumeTimedOut(r) \/ ResumeCancelled(r)
      PROVE  CountInv'
  BY <1>7, <1>8 DEF ResumeTimedOut, ResumeCancelled, Active
<1>9. ASSUME NEW r \in Requests, NEW v \in Closures, pending[IdOf[r]] = r \/ pc[r] \in Active,
             future[r] = "unset", future' = [future EXCEPT ![r] = v],
             UNCHANGED <<pc, outcome>>,
             counters'["requested"] = counters["requested"],
             counters'[v] = counters[v] + 1,
             \A value \in Closures \ {v} : counters'[value] = counters[value]
      PROVE  CountInv'
  <2>1. outcome[r] = "none"
    BY <1>a, <1>9 DEF PendingIsActive, ActiveHasNoOutcome, TypeOK
  <2>2. Registered' = Registered
    BY <1>9 DEF Registered
  <2> QED BY <1>a, <1>9, <2>1, <2>2, BooksClose
<1>10. ASSUME NEW u \in Users, NEW i \in Ids, NEW r \in Requests,
              NEW d \in Submitted, DecideAccepted(r, u, i, d)
       PROVE  CountInv'
  <2>1. d \in Closures /\ future[r] = "unset" /\ pc[r] \in Active
    BY <1>a, <1>10 DEF DecideAccepted, Open, PendingIsActive, Closures
  <2>2. /\ counters'["requested"] = counters["requested"]
        /\ counters'[d] = counters[d] + 1
        /\ \A value \in Closures \ {d} : counters'[value] = counters[value]
    BY <1>a, <1>0, <1>10, <2>1 DEF DecideAccepted, Count, TypeOK
  <2> QED BY <1>9, <1>10, <2>1, <2>2 DEF DecideAccepted
<1>11. ASSUME NEW u \in Users, NEW i \in Ids, NEW r \in Requests,
              DecideExpired(r, u, i)
       PROVE  CountInv'
  <2>1. "expired" \in Closures /\ future[r] = "unset" /\ pc[r] \in Active
    BY <1>a, <1>11 DEF DecideExpired, Open, PendingIsActive, Closures
  <2>2. /\ counters'["requested"] = counters["requested"]
        /\ counters'["expired"] = counters["expired"] + 1
        /\ \A value \in Closures \ {"expired"} : counters'[value] = counters[value]
    BY <1>a, <1>0, <1>11, <2>1 DEF DecideExpired, TypeOK
  <2> QED BY <1>9, <1>11, <2>1, <2>2 DEF DecideExpired
<1>12. ASSUME NEW u \in Users, NEW i \in Ids, NEW d \in Submitted,
              DecideRejected(u, i, d)
       PROVE  CountInv'
  <2>1. /\ counters'["requested"] = counters["requested"]
        /\ \A value \in Closures : counters'[value] = counters[value]
    BY <1>a, <1>0, <1>12 DEF DecideRejected, Count, TypeOK
  <2>2. Registered' = Registered
    BY <1>12 DEF DecideRejected, Registered
  <2> QED BY <1>12, <2>1, <2>2, BooksUntouched DEF DecideRejected
<1>13. ASSUME (\E r \in Requests : DeadlinePasses(r)) \/ UNCHANGED vars
       PROVE  CountInv'
  <2>1. UNCHANGED <<Registered, future, outcome, counters>>
    BY <1>13 DEF DeadlinePasses, vars, Registered
  <2> QED BY <2>1, BooksUntouched
<1> QED
  BY <1>1, <1>2, <1>3, <1>4, <1>6, <1>8, <1>10, <1>11, <1>12, <1>13
  DEF Next, RequestStep, DecideStep

\* The counters tell how many requests were registered and how each of them
\* was closed, whichever of timer, submission and cancellation came first.
THEOREM CountersAreExact == Spec => []CountedOnce
<1>1. CountInv /\ BrokerInv /\ [Next]_vars => CountInv'
  BY CountInvStep
<1>2. CountInv => CountedOnce
  BY DEF CountInv
<1> QED BY <1>1, <1>2, CountInvInit, BrokerInvariant, PTL DEF Spec

-----------------------------------------------------------------------------
(* Refinement *)

\* The broker's initial states are initial states of HumanDecision.
LEMMA AbstractInit == Init => Abstract!Init
BY DEF Init, Abstract!Init

\* Every step of the broker is a step of HumanDecision or leaves the answers
\* and the results alone.
LEMMA AbstractStep ==
  ASSUME BrokerInv, [Next]_vars
  PROVE  [Abstract!Next]_(Abstract!hvars)
<1>0. /\ "unset" \notin Decisions /\ "none" \notin Decisions
      /\ "expired" \notin Decisions /\ "cancelled" \notin Decisions
  BY ReservedAreNotDecisions DEF Reserved
<1>a. /\ TypeOK
      /\ PendingIsActive
      /\ NewIsUntouched
      /\ ActiveHasNoOutcome
  BY DEF BrokerInv
<1>1. ASSUME NEW r \in Requests,
             Register(r) \/ TimerFires(r) \/ Cancel(r) \/ DeadlinePasses(r)
      PROVE  UNCHANGED Abstract!hvars
  BY <1>1 DEF Register, TimerFires, Cancel, DeadlinePasses, Abstract!hvars
<1>2. ASSUME NEW r \in Requests, RegisterConflict(r) PROVE Abstract!TurnAway(r)
  BY <1>a, <1>2 DEF RegisterConflict, NewIsUntouched, Abstract!TurnAway
<1>3. ASSUME NEW r \in Requests, RegisterError(r) PROVE Abstract!Refuse(r, "error")
  BY <1>a, <1>3 DEF RegisterError, NewIsUntouched, Abstract!Refuse
<1>4. ASSUME NEW r \in Requests, ResumeDecided(r)
      PROVE  Abstract!Return(r) \/ Abstract!Refuse(r, "cancelled")
  BY <1>a, <1>4
  DEF ResumeDecided, Leave, TypeOK, ActiveHasNoOutcome, Active,
      Abstract!Return, Abstract!Refuse
<1>5. ASSUME NEW r \in Requests, ResumeTimedOut(r) PROVE Abstract!Refuse(r, "expired")
  BY <1>a, <1>5
  DEF ResumeTimedOut, Close, Leave, TypeOK, ActiveHasNoOutcome, Active, Abstract!Refuse
<1>6. ASSUME NEW r \in Requests, ResumeCancelled(r) PROVE Abstract!Refuse(r, "cancelled")
  BY <1>a, <1>6
  DEF ResumeCancelled, Close, Leave, TypeOK, ActiveHasNoOutcome, Active, Abstract!Refuse
<1>7. ASSUME NEW u \in Users, NEW i \in Ids, NEW r \in Requests,
             NEW d \in Submitted, DecideAccepted(r, u, i, d)
      PROVE  Abstract!Settle(r, d)
  BY <1>a, <1>7
  DEF DecideAccepted, Open, PendingIsActive, ActiveHasNoOutcome, Abstract!Settle
<1>8. ASSUME NEW u \in Users, NEW i \in Ids, NEW r \in Requests,
             DecideExpired(r, u, i)
      PROVE  Abstract!Settle(r, "expired")
  BY <1>a, <1>8
  DEF DecideExpired, Open, PendingIsActive, ActiveHasNoOutcome, Abstract!Settle
<1>9. ASSUME NEW u \in Users, NEW i \in Ids, NEW d \in Submitted,
             DecideRejected(u, i, d)
      PROVE  UNCHANGED Abstract!hvars
  BY <1>9 DEF DecideRejected, Abstract!hvars
<1>10. CASE UNCHANGED vars
  BY <1>10 DEF vars, Abstract!hvars
<1>11. ASSUME NEW r \in Requests, RequestStep(r)
       PROVE  [Abstract!Next]_(Abstract!hvars)
  BY <1>11, <1>1, <1>2, <1>3, <1>4, <1>5, <1>6 DEF RequestStep, Abstract!Next
<1>12. ASSUME NEW u \in Users, NEW i \in Ids, DecideStep(u, i)
       PROVE  [Abstract!Next]_(Abstract!hvars)
  BY <1>12, <1>7, <1>8, <1>9 DEF DecideStep, Submitted, Abstract!Next
<1> QED BY <1>10, <1>11, <1>12 DEF Next

\* DecisionBroker implements HumanDecision.
THEOREM BrokerImplementsHumanDecision == Spec => ImplementsHumanDecision
<1>1. BrokerInv /\ [Next]_vars => [Abstract!Next]_(Abstract!hvars)
  BY AbstractStep
<1> QED
  BY <1>1, AbstractInit, BrokerInvariant, PTL
  DEF Spec, ImplementsHumanDecision, Abstract!Spec
=============================================================================
