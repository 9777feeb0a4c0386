--------------------------- MODULE CircuitBreaker ---------------------------
(***************************************************************************)
(* One breaker of internal/resilience/circuit_breaker.py and the           *)
(* concurrent callers of one dependency (model/serving.py,                 *)
(* internal/search/stages.py, internal/tools/search.py).                   *)
(*                                                                         *)
(* A call is not wrapped by the breaker: before_call() admits it, and the  *)
(* result is recorded whenever it comes, in whatever state the breaker has *)
(* reached by then.  A cancelled call never reports.  Every method runs    *)
(* under the breaker's lock, so each is one action.                        *)
(*                                                                         *)
(* Time is kept as ages.  The code compares clock() - t with open_seconds  *)
(* and nothing else, so an age is cut off at OpenSeconds: runs of any      *)
(* length are covered by finitely many states.  _failures is cut off at    *)
(* FailureThreshold for the same reason.                                   *)
(***************************************************************************)
EXTENDS Integers

CONSTANTS
  Callers,            \* concurrent users of the dependency
  FailureThreshold,   \* [circuit_breaker] failure_threshold
  OpenSeconds,        \* [circuit_breaker] open_seconds, in ticks
  Null                \* Python's None

ASSUME ThresholdAssumption == FailureThreshold \in Nat \ {0}
ASSUME OpenSecondsAssumption == OpenSeconds \in Nat \ {0}
ASSUME NullAssumption == Null \notin Nat

VARIABLES
  state,        \* _state
  failures,     \* _failures
  opened_ago,   \* clock() - _opened_at, or Null
  probe_ago,    \* clock() - _probe_at, or Null
  call,         \* what each caller is doing: "idle", an ordinary call, a probe
  call_ago      \* age of each caller's current call

vars == <<state, failures, opened_ago, probe_ago, call, call_ago>>

CLOSED == "closed"
OPEN == "open"
HALF_OPEN == "half_open"

Ages == 0 .. OpenSeconds

\* One unit of time later.
Older(age) == IF age < OpenSeconds THEN age + 1 ELSE OpenSeconds

OlderOrNull(age) == IF age = Null THEN Null ELSE Older(age)

TypeOK ==
  /\ state \in {CLOSED, OPEN, HALF_OPEN}
  /\ failures \in 0 .. FailureThreshold
  /\ opened_ago \in Ages \union {Null}
  /\ probe_ago \in Ages \union {Null}
  /\ call \in [Callers -> {"idle", "ordinary", "probe"}]
  /\ call_ago \in [Callers -> Ages]

Init ==
  /\ state = CLOSED
  /\ failures = 0
  /\ opened_ago = Null
  /\ probe_ago = Null
  /\ call = [c \in Callers |-> "idle"]
  /\ call_ago = [c \in Callers |-> OpenSeconds]

-----------------------------------------------------------------------------
(* before_call *)

\* Mutant: an open breaker's wait is never replaced by its probe's.
SinceOpened == opened_ago

\* Mutant: a half-open breaker waits for its probe to report.
SinceOpenOnly == IF state = OPEN THEN opened_ago ELSE 0

\* The instant the wait of a breaker that is not closed is counted from.
Since == IF state = OPEN THEN opened_ago ELSE probe_ago

\* before_call() returns instead of raising CircuitOpenError.
Admits == state = CLOSED \/ Since >= OpenSeconds

AdmitOrdinary(c) ==
  /\ call[c] = "idle"
  /\ state = CLOSED
  /\ call' = [call EXCEPT ![c] = "ordinary"]
  /\ call_ago' = [call_ago EXCEPT ![c] = 0]
  /\ UNCHANGED <<state, failures, opened_ago, probe_ago>>

AdmitProbe(c) ==
  /\ call[c] = "idle"
  /\ state # CLOSED
  /\ Since >= OpenSeconds
  /\ state' = HALF_OPEN
  /\ probe_ago' = 0
  /\ call' = [call EXCEPT ![c] = "probe"]
  /\ call_ago' = [call_ago EXCEPT ![c] = 0]
  /\ UNCHANGED <<failures, opened_ago>>

-----------------------------------------------------------------------------
(* The outcome of a call that was admitted some time ago. *)

Finish(c) ==
  /\ call[c] # "idle"
  /\ call' = [call EXCEPT ![c] = "idle"]
  /\ call_ago' = [call_ago EXCEPT ![c] = OpenSeconds]

RecordSuccess(c) ==
  /\ Finish(c)
  /\ state' = CLOSED
  /\ failures' = 0
  /\ opened_ago' = Null
  /\ probe_ago' = Null

\* record_failure opens the breaker: a failure while half-open, or the
\* failure that reaches the threshold while closed.
Opens == state = HALF_OPEN \/ (state = CLOSED /\ failures + 1 >= FailureThreshold)

RecordFailure(c) ==
  /\ Finish(c)
  /\ failures' = IF failures < FailureThreshold THEN failures + 1 ELSE failures
  /\ IF Opens
     THEN /\ state' = OPEN
          /\ opened_ago' = 0
          /\ probe_ago' = Null
     ELSE UNCHANGED <<state, opened_ago, probe_ago>>

\* The caller is cancelled while it waits: nothing is recorded.
Abandon(c) ==
  /\ Finish(c)
  /\ UNCHANGED <<state, failures, opened_ago, probe_ago>>

Tick ==
  /\ opened_ago' = OlderOrNull(opened_ago)
  /\ probe_ago' = OlderOrNull(probe_ago)
  /\ call_ago' = [c \in Callers |-> Older(call_ago[c])]
  /\ UNCHANGED <<state, failures, call>>

-----------------------------------------------------------------------------

Next ==
  \/ \E c \in Callers :
       \/ AdmitOrdinary(c)
       \/ AdmitProbe(c)
       \/ RecordSuccess(c)
       \/ RecordFailure(c)
       \/ Abandon(c)
  \/ Tick

Spec == Init /\ [][Next]_vars

\* Time passes; no caller has to call, to answer or to be cancelled.
FairSpec == Spec /\ WF_vars(Tick)

-----------------------------------------------------------------------------
(* Properties *)

\* The timestamp that before_call subtracts from is never None: an open
\* breaker has _opened_at and a half-open one has _probe_at (otherwise
\* before_call raises TypeError and every later call to the dependency fails).
TimestampsDefined ==
  /\ state = OPEN => opened_ago # Null
  /\ state = HALF_OPEN => probe_ago # Null

\* Whatever late results of older calls arrive in between, a dependency sees
\* at most one probe per OpenSeconds: of the probes in flight, at most one is
\* younger than that.  record_success and record_failure run for calls
\* admitted under any earlier state, and a probe that never reports is
\* replaced, so two callers could otherwise both be let through.
ProbesSpaced ==
  \A c, d \in Callers :
    /\ call[c] = "probe" /\ call_ago[c] < OpenSeconds
    /\ call[d] = "probe" /\ call_ago[d] < OpenSeconds
    => c = d

\* Failures of calls admitted before the breaker opened never push the next
\* probe back: while it stays open its age only grows.
OpenNotExtended ==
  [][state = OPEN /\ state' = OPEN => opened_ago' >= opened_ago]_vars

\* No history of failures, cancelled probes and stragglers leaves the breaker
\* refusing for ever: again and again it is ready to admit a call.
AlwaysReadmits == []<>Admits

\* docs/configuration/timeouts.md on [circuit_breaker]: a breaker that opened
\* "then fails fast for open_seconds before letting one probe call through".
FailsFastForOpenSeconds ==
  [][state = OPEN /\ opened_ago < OpenSeconds => state' = OPEN]_vars
=============================================================================
