------------------------------ MODULE ToolLoop ------------------------------
(***************************************************************************)
(* ToolAgentLoop (agents/tool/tool_calling.py) with its recovery policy    *)
(* and recovery state (agents/tool/recovery.py): one run of the tool       *)
(* agent.  The model generates a batch of tool calls; the user approves    *)
(* the calls that are not read-only; the batch is executed in parallel     *)
(* tasks of one event loop that share the run's RecoveryState; the results *)
(* go back to the model.                                                   *)
(*                                                                         *)
(* A task runs from one await to the next in one step.  The awaits are the *)
(* approval, the invocation of the tool, the sleep before a retry and the  *)
(* escalation to the user.  What a human answers comes from the broker     *)
(* (DecisionBroker); here it is any answer HumanDecision allows.  The      *)
(* content of messages and results, prompts and metrics are left out.      *)
(***************************************************************************)
EXTENDS Integers

CONSTANTS
  Tools,               \* tool names the model may call
  Registered,          \* those in the loop's registry
  ReadOnly,            \* those with effect READ_ONLY
  RetriesInternally,   \* those that declare retries_internally
  MaxParallelCalls,    \* max_parallel_calls
  MaxAssistantTurns,   \* max_assistant_turns, 0 for no limit
  MaxUserTurns,        \* max_user_turns, 0 for no limit
  MaxEscalations,      \* max_escalations
  MaxRetries,          \* RecoveryPolicy.max_retries
  RetryBudget,         \* RecoveryPolicy.retry_budget
  Delays               \* the values a jittered backoff can take

ASSUME ToolsAssumption ==
  /\ ReadOnly \subseteq Registered
  /\ Registered \subseteq Tools
  /\ RetriesInternally \subseteq Registered
  /\ "none" \notin Tools

ASSUME LimitsAssumption ==
  /\ MaxParallelCalls \in Nat \ {0}
  /\ MaxAssistantTurns \in Nat
  /\ MaxUserTurns \in Nat
  /\ MaxEscalations \in Nat
  /\ MaxRetries \in Nat
  /\ RetryBudget \in Nat
  /\ Delays \subseteq Nat

VARIABLES
  phase,             \* where run() is
  assistant_turns,
  user_turns,
  answer,            \* whose text final_answer is: the model's, or a stop's
  can_approve,       \* on_approval was given
  can_escalate,      \* on_escalation was given
  tool,              \* the tool each slot of the batch calls
  at,                \* where the task of each slot is
  tries,             \* _call_tool's retries
  budget_left,       \* RecoveryState.budget_left
  unavailable,       \* RecoveryState.unavailable
  escalation_count,  \* RecoveryState.escalation_count
  escalations,       \* RecoveryState.escalations, as a set
  outcome,           \* RecoveryState.outcome, "none" until a stop
  invoked,           \* auxiliary: invocations of each call of the batch
  consents           \* auxiliary: times the user said yes to each call

run == <<phase, assistant_turns, user_turns, answer, can_approve, can_escalate>>
recovery == <<budget_left, unavailable, escalation_count, escalations, outcome>>
vars == <<run, recovery, tool, at, tries, invoked, consents>>

Slots == 1 .. MaxParallelCalls

Gated(t) == t \notin ReadOnly

\* Slots whose task has nothing left to do.
Settled == {"idle", "invalid", "refused", "finished"}

TypeOK ==
  /\ phase \in {"generating", "approving", "executing", "done", "aborted"}
  /\ assistant_turns \in Nat
  /\ user_turns \in Nat
  /\ answer \in {"none", "model", "stop"}
  /\ can_approve \in BOOLEAN
  /\ can_escalate \in BOOLEAN
  /\ tool \in [Slots -> Tools \union {"none"}]
  /\ at \in [Slots -> Settled \union
               {"pending", "approved", "invoking", "sleeping", "escalating"}]
  /\ tries \in [Slots -> Nat]
  /\ budget_left \in Int
  /\ unavailable \subseteq Tools
  /\ escalation_count \in Nat
  /\ escalations \subseteq Tools \X
       {"retry", "skip", "cancel", "expired", "no_callback", "cap"}
  /\ outcome \in {"none", "cancelled", "unresolved"}
  /\ invoked \in [Slots -> Nat]
  /\ consents \in [Slots -> Nat]

EmptyBatch ==
  /\ tool' = [s \in Slots |-> "none"]
  /\ at' = [s \in Slots |-> "idle"]

ResetCalls ==
  /\ tries' = [s \in Slots |-> 0]
  /\ invoked' = [s \in Slots |-> 0]
  /\ consents' = [s \in Slots |-> 0]

Init ==
  /\ phase = "generating"
  /\ assistant_turns = 0
  /\ user_turns = 0
  /\ answer = "none"
  /\ can_approve \in BOOLEAN
  /\ can_escalate \in BOOLEAN
  /\ tool = [s \in Slots |-> "none"]
  /\ at = [s \in Slots |-> "idle"]
  /\ tries = [s \in Slots |-> 0]
  /\ budget_left = RetryBudget
  /\ unavailable = {}
  /\ escalation_count = 0
  /\ escalations = {}
  /\ outcome = "none"
  /\ invoked = [s \in Slots |-> 0]
  /\ consents = [s \in Slots |-> 0]

-----------------------------------------------------------------------------
(* Generate, and the stopping conditions *)

TurnsUsedUp ==
  \/ MaxAssistantTurns # 0 /\ assistant_turns + 1 >= MaxAssistantTurns
  \/ MaxUserTurns # 0 /\ user_turns >= MaxUserTurns

\* The run ends with the model's text: no calls, the response budget is used
\* up (both the model's doing), or a turn limit is reached.
GenerateFinal ==
  /\ phase = "generating"
  /\ assistant_turns' = assistant_turns + 1
  /\ answer' = "model"
  /\ phase' = "done"
  /\ EmptyBatch
  /\ ResetCalls
  /\ UNCHANGED <<user_turns, can_approve, can_escalate, recovery>>

\* Mutant: without a callback there is nobody to object.
ScreenedOpen(t, valid) ==
  IF ~valid THEN "invalid"
  ELSE IF Gated(t) /\ can_approve THEN "pending" ELSE "approved"

\* Where the approval pass puts a call as soon as it starts: arguments that
\* do not parse are never asked about, a read-only tool needs no approval,
\* and without a callback the answer is no.
Screened(t, valid) ==
  IF ~valid THEN "invalid"
  ELSE IF ~Gated(t) THEN "approved"
  ELSE IF can_approve THEN "pending" ELSE "refused"

\* The model calls tools; the batch is cut at max_parallel_calls.
GenerateCalls(n, called, valid) ==
  /\ phase = "generating"
  /\ ~TurnsUsedUp
  /\ assistant_turns' = assistant_turns + 1
  /\ answer' = "model"
  /\ phase' = "approving"
  /\ tool' = [s \in Slots |-> IF s <= n THEN called[s] ELSE "none"]
  /\ at' = [s \in Slots |->
              IF s <= n THEN Screened(called[s], valid[s]) ELSE "idle"]
  /\ ResetCalls
  /\ UNCHANGED <<user_turns, can_approve, can_escalate, recovery>>

-----------------------------------------------------------------------------
(* Approve *)

Approve(s) ==
  /\ phase = "approving"
  /\ at[s] = "pending"
  /\ at' = [at EXCEPT ![s] = "approved"]
  /\ consents' = [consents EXCEPT ![s] = 1]
  /\ UNCHANGED <<run, recovery, tool, tries, invoked>>

\* Denied, expired, or the callback raised.
Refuse(s) ==
  /\ phase = "approving"
  /\ at[s] = "pending"
  /\ at' = [at EXCEPT ![s] = "refused"]
  /\ UNCHANGED <<run, recovery, tool, tries, invoked, consents>>

\* gather() of the approvals returns: only now may anything run.
BeginExecution ==
  /\ phase = "approving"
  /\ \A s \in Slots : at[s] # "pending"
  /\ phase' = "executing"
  /\ UNCHANGED <<assistant_turns, user_turns, answer, can_approve, can_escalate,
                 recovery, tool, at, tries, invoked, consents>>

-----------------------------------------------------------------------------
(* Execute *)

Invoke(s) ==
  /\ at' = [at EXCEPT ![s] = "invoking"]
  /\ invoked' = [invoked EXCEPT ![s] = @ + 1]

Finish(s) == at' = [at EXCEPT ![s] = "finished"]

\* gather() starts the tasks in order.
NextToStart(s) ==
  /\ phase = "executing"
  /\ at[s] = "approved"
  /\ \A q \in Slots : q < s => at[q] # "approved"

AllStarted == \A s \in Slots : at[s] # "approved"

StartCall(s) ==
  /\ NextToStart(s)
  /\ tool[s] \notin unavailable
  /\ Invoke(s)
  /\ UNCHANGED <<run, recovery, tool, tries, consents>>

SkipUnavailable(s) ==
  /\ NextToStart(s)
  /\ tool[s] \in unavailable
  /\ Finish(s)
  /\ UNCHANGED <<run, recovery, tool, tries, invoked, consents>>

Succeed(s) ==
  /\ at[s] = "invoking"
  /\ tool[s] \in Registered
  /\ Finish(s)
  /\ UNCHANGED <<run, recovery, tool, tries, invoked, consents>>

\* What invoke_detailed reports: "permanent" stands for PERMANENT and UNKNOWN,
\* "transient_retried" for TRANSIENT with provider_attempts > 1.
Failures(t) ==
  IF t \in Registered
  THEN {"invalid_input", "transient", "transient_retried", "permanent"}
  ELSE {"not_found"}

\* Mutant: the retry is started if any budget is left.
MayRetryOnCredit(failure, t, retries_so_far, delay) ==
  /\ failure = "transient"
  /\ t \notin RetriesInternally
  /\ retries_so_far < MaxRetries
  /\ budget_left > 0

MayRetry(failure, t, retries_so_far, delay) ==
  /\ failure = "transient"
  /\ t \notin RetriesInternally
  /\ retries_so_far < MaxRetries
  /\ delay <= budget_left

\* RecoveryPolicy.decide.
Decide(failure, t, retries_so_far, delay) ==
  CASE failure \in {"invalid_input", "not_found"} -> "feed_back"
    [] failure \notin {"invalid_input", "not_found"} /\ Gated(t) -> "escalate"
    [] OTHER -> IF MayRetry(failure, t, retries_so_far, delay)
                THEN "retry" ELSE "unavailable"

\* The invocation of slot s fails and the policy decides action.
Fails(s, action, delay) ==
  /\ at[s] = "invoking"
  /\ \E failure \in Failures(tool[s]) :
       Decide(failure, tool[s], tries[s], delay) = action

FeedBack(s) ==
  /\ Fails(s, "feed_back", 0)
  /\ Finish(s)
  /\ UNCHANGED <<run, recovery, tool, tries, invoked, consents>>

\* The delay is reserved before the sleep, so that parallel calls see it.
RetryLater(s, delay) ==
  /\ Fails(s, "retry", delay)
  /\ budget_left' = budget_left - delay
  /\ tries' = [tries EXCEPT ![s] = @ + 1]
  /\ at' = [at EXCEPT ![s] = "sleeping"]
  /\ UNCHANGED <<run, unavailable, escalation_count, escalations, outcome,
                 tool, invoked, consents>>

WakeUp(s) ==
  /\ at[s] = "sleeping"
  /\ AllStarted
  /\ Invoke(s)
  /\ UNCHANGED <<run, recovery, tool, tries, consents>>

MarkUnavailable(t) == unavailable' = unavailable \union {t}

Degrade(s, delay) ==
  /\ Fails(s, "unavailable", delay)
  /\ MarkUnavailable(tool[s])
  /\ Finish(s)
  /\ UNCHANGED <<run, budget_left, escalation_count, escalations, outcome,
                 tool, tries, invoked, consents>>

-----------------------------------------------------------------------------
(* Escalate *)

\* RecoveryState.stop: the first stop wins.
StopAs(kind) == outcome' = IF outcome = "none" THEN kind ELSE outcome

Note(s, decision) == escalations' = escalations \union {<<tool[s], decision>>}

\* Another call of the batch already stopped the run.
EscalateSuppressed(s) ==
  /\ Fails(s, "escalate", 0)
  /\ outcome # "none"
  /\ Finish(s)
  /\ UNCHANGED <<run, recovery, tool, tries, invoked, consents>>

CapReached == escalation_count >= MaxEscalations

\* Nobody to ask, or the user was asked often enough.
EscalateUnasked(s) ==
  /\ Fails(s, "escalate", 0)
  /\ outcome = "none"
  /\ \/ ~can_escalate /\ Note(s, "no_callback")
     \/ can_escalate /\ CapReached /\ Note(s, "cap")
  /\ StopAs("unresolved")
  /\ Finish(s)
  /\ UNCHANGED <<run, budget_left, unavailable, escalation_count, tool, tries,
                 invoked, consents>>

\* Counted before the await, so that parallel calls see it.
EscalateAsk(s) ==
  /\ Fails(s, "escalate", 0)
  /\ outcome = "none"
  /\ can_escalate
  /\ ~CapReached
  /\ escalation_count' = escalation_count + 1
  /\ at' = [at EXCEPT ![s] = "escalating"]
  /\ UNCHANGED <<run, budget_left, unavailable, escalations, outcome, tool,
                 tries, invoked, consents>>

\* The answer of slot s's escalation is in.
Answered(s, decision) ==
  /\ at[s] = "escalating"
  /\ AllStarted
  /\ Note(s, decision)

\* Mutant: a stop by another call is not looked at.
AnswerRetryAnyway(s) ==
  /\ Answered(s, "retry")
  /\ Invoke(s)
  /\ tries' = [tries EXCEPT ![s] = @ + 1]
  /\ consents' = [consents EXCEPT ![s] = @ + 1]
  /\ UNCHANGED <<run, budget_left, unavailable, escalation_count, outcome, tool>>

\* Authorised by the user: does not draw on the retry budget.
AnswerRetry(s) ==
  /\ Answered(s, "retry")
  /\ outcome = "none"
  /\ Invoke(s)
  /\ tries' = [tries EXCEPT ![s] = @ + 1]
  /\ consents' = [consents EXCEPT ![s] = @ + 1]
  /\ UNCHANGED <<run, budget_left, unavailable, escalation_count, outcome, tool>>

AnswerSkip(s) ==
  /\ Answered(s, "skip")
  /\ MarkUnavailable(tool[s])
  /\ Finish(s)
  /\ UNCHANGED <<run, budget_left, escalation_count, outcome, tool, tries,
                 invoked, consents>>

AnswerCancel(s) ==
  /\ Answered(s, "cancel")
  /\ StopAs("cancelled")
  /\ Finish(s)
  /\ UNCHANGED <<run, budget_left, unavailable, escalation_count, tool, tries,
                 invoked, consents>>

\* No answer in time or a callback that failed; also a "retry" that comes
\* after another call stopped the run.
AnswerUnusable(s) ==
  /\ \/ Answered(s, "expired")
     \/ Answered(s, "retry") /\ outcome # "none"
  /\ StopAs("unresolved")
  /\ Finish(s)
  /\ UNCHANGED <<run, budget_left, unavailable, escalation_count, tool, tries,
                 invoked, consents>>

-----------------------------------------------------------------------------
(* After the batch *)

\* Mutant: the loop waits for the calls it did not execute, too.
BatchExecuted == phase = "executing" /\ \A s \in Slots : at[s] \in {"idle", "finished"}

BatchDone == phase = "executing" /\ \A s \in Slots : at[s] \in Settled

\* A stop ends the run with the stop's own text.
FinishStopped ==
  /\ BatchDone
  /\ outcome # "none"
  /\ answer' = "stop"
  /\ phase' = "done"
  /\ EmptyBatch
  /\ ResetCalls
  /\ UNCHANGED <<assistant_turns, user_turns, can_approve, can_escalate, recovery>>

\* The results do not fit the response or the prompt budget.
FinishFull ==
  /\ BatchDone
  /\ outcome = "none"
  /\ phase' = "done"
  /\ EmptyBatch
  /\ ResetCalls
  /\ UNCHANGED <<assistant_turns, user_turns, answer, can_approve, can_escalate,
                 recovery>>

NextTurn ==
  /\ BatchDone
  /\ outcome = "none"
  /\ user_turns' = user_turns + 1
  /\ phase' = "generating"
  /\ EmptyBatch
  /\ ResetCalls
  /\ UNCHANGED <<assistant_turns, answer, can_approve, can_escalate, recovery>>

\* The run is cancelled, or generation raises: gather cancels every task.
Abort ==
  /\ phase \in {"generating", "approving", "executing"}
  /\ phase' = "aborted"
  /\ EmptyBatch
  /\ ResetCalls
  /\ UNCHANGED <<assistant_turns, user_turns, answer, can_approve, can_escalate,
                 recovery>>

-----------------------------------------------------------------------------

Generate ==
  \/ GenerateFinal
  \/ \E n \in Slots :
       \E called \in [1 .. n -> Tools], valid \in [1 .. n -> BOOLEAN] :
         GenerateCalls(n, called, valid)

AnswerEscalation(s) ==
  AnswerRetry(s) \/ AnswerSkip(s) \/ AnswerCancel(s) \/ AnswerUnusable(s)

InvocationEnds(s) ==
  \/ Succeed(s)
  \/ FeedBack(s)
  \/ \E delay \in Delays : RetryLater(s, delay) \/ Degrade(s, delay)
  \/ EscalateSuppressed(s)
  \/ EscalateUnasked(s)
  \/ EscalateAsk(s)

SlotStep(s) ==
  \/ Approve(s)
  \/ Refuse(s)
  \/ StartCall(s)
  \/ SkipUnavailable(s)
  \/ InvocationEnds(s)
  \/ WakeUp(s)
  \/ AnswerEscalation(s)

RunStep == Generate \/ BeginExecution \/ FinishStopped \/ FinishFull \/ NextTurn

Next == RunStep \/ (\E s \in Slots : SlotStep(s)) \/ Abort

Spec == Init /\ [][Next]_vars

\* Generation and tool invocations come back, sleeps end, and both waits for
\* the user are cut off by wait_for: every task that can go on does.
FairSpec == Spec /\ WF_vars(RunStep) /\ \A s \in Slots : WF_vars(SlotStep(s))

-----------------------------------------------------------------------------
(* Properties *)

\* A tool that is not read-only runs once for each time the user said yes to
\* that very call (the approval, then each "retry"), and never otherwise: not
\* by an automatic retry, not in the place of another call of the batch, not
\* when the arguments were rejected or the approval expired.
EffectsArePaidFor ==
  \A s \in Slots : tool[s] # "none" /\ Gated(tool[s]) => invoked[s] <= consents[s]

\* The calls of a batch are decided before any of them runs: while the user
\* is still asked about one, none has been invoked.
BatchDecidedFirst ==
  (\E s \in Slots : at[s] = "pending") => \A q \in Slots : invoked[q] = 0

\* Parallel calls draw on one retry budget without ever overdrawing it.
BudgetNotOverdrawn == budget_left >= 0

\* Parallel calls never put more than max_escalations questions to the user.
EscalationsCapped == escalation_count <= MaxEscalations

\* Once one call of a batch has stopped the run, no other call that is not
\* read-only is run again, even if the user answers "retry" to it.
NoReplayAfterStop ==
  [][\A s \in Slots :
       outcome # "none" /\ Gated(tool[s]) /\ invoked[s] > 0
         => invoked'[s] <= invoked[s]]_vars

\* Of two calls that both stop the run, the first decides what is reported.
FirstStopWins == [][outcome # "none" => outcome' = outcome]_vars

\* docs/tool-engine.md: an escalation that could not be resolved "stops the
\* run as unresolved -- never as a success".  A stopped run generates no more,
\* ends with the stop's text, and has an escalation for summary() to report.
StopIsFinal ==
  /\ outcome # "none" => phase # "generating" /\ phase # "approving"
  /\ outcome # "none" => escalations # {}
  /\ phase = "done" => (answer = "stop" <=> outcome # "none")

\* Every run ends, whatever fails and whatever the user leaves unanswered.
RunEnds == <>(phase \in {"done", "aborted"})

\* tool_calling.py:485-486 tells the user who cancels: "Stopped: ... failed;
\* nothing further was attempted."
NothingFurtherAttempted ==
  [][outcome = "cancelled" => \A s \in Slots : invoked'[s] <= invoked[s]]_vars
=============================================================================
