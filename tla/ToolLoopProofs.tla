--------------------------- MODULE ToolLoopProofs ---------------------------
(***************************************************************************)
(* Theorems about ToolLoop, for any tools, batch size, limits and retry    *)
(* budget.                                                                 *)
(***************************************************************************)
EXTENDS ToolLoop, TLAPS

USE ToolsAssumption, LimitsAssumption

\* Tasks exist only while the batch executes.
TasksNeedExecution ==
  \A s \in Slots :
    at[s] \in {"invoking", "sleeping", "escalating"} => phase = "executing"

\* What the bookkeeping of a call that is not read-only looks like on the way:
\* it never sleeps before an automatic retry, and once approved and not yet
\* started it has not run and has its one consent.
GatedCalls ==
  \A s \in Slots : tool[s] # "none" /\ Gated(tool[s]) =>
    /\ at[s] # "sleeping"
    /\ at[s] = "pending" => invoked[s] = 0
    /\ at[s] = "approved" => invoked[s] = 0 /\ consents[s] = 1

\* A slot with a task has a tool.
BusyHasTool == \A s \in Slots : at[s] # "idle" => tool[s] # "none"

\* A stop text is shown only when the run is over.
AnswerIsModel == phase \in {"generating", "approving", "executing"} => answer # "stop"

LoopInv ==
  /\ TypeOK
  /\ TasksNeedExecution
  /\ BusyHasTool
  /\ GatedCalls
  /\ EffectsArePaidFor
  /\ BudgetNotOverdrawn
  /\ EscalationsCapped
  /\ AnswerIsModel
  /\ StopIsFinal

-----------------------------------------------------------------------------
(* The actions that touch one slot of the executing batch, classified by   *)
(* what they do to it.                                                     *)

\* The task of the slot ends, or goes to wait for the user or for a retry,
\* without running the tool.
Quiet(s) ==
  \/ SkipUnavailable(s) \/ Succeed(s) \/ FeedBack(s)
  \/ (\E delay \in Delays : RetryLater(s, delay) \/ Degrade(s, delay))
  \/ EscalateSuppressed(s) \/ EscalateUnasked(s) \/ EscalateAsk(s)
  \/ AnswerSkip(s) \/ AnswerCancel(s) \/ AnswerUnusable(s)

\* The tool of the slot is run.
Runs(s) == StartCall(s) \/ WakeUp(s) \/ AnswerRetry(s)

LEMMA SlotCases ==
  ASSUME NEW s \in Slots, SlotStep(s)
  PROVE  Approve(s) \/ Refuse(s) \/ Quiet(s) \/ Runs(s)
BY DEF SlotStep, InvocationEnds, AnswerEscalation, Quiet, Runs

\* A quiet step moves its slot on from a task state and leaves the calls'
\* histories alone; only a read-only tool goes to sleep before a retry.
LEMMA QuietEffect ==
  ASSUME NEW s \in Slots, Quiet(s)
  PROVE  /\ at[s] \in {"approved", "invoking", "escalating"}
         /\ at[s] = "approved" => phase = "executing"
         /\ \E x \in {"finished", "escalating", "sleeping"} :
              /\ at' = [at EXCEPT ![s] = x]
              /\ x = "sleeping" => ~Gated(tool[s])
         /\ UNCHANGED <<run, tool, invoked, consents>>
<1>1. ASSUME NEW delay \in Delays, RetryLater(s, delay)
      PROVE  ~Gated(tool[s])
  BY <1>1 DEF RetryLater, Fails, Decide, MayRetry
<1> QED
  BY <1>1
  DEF Quiet, SkipUnavailable, NextToStart, Succeed, FeedBack, RetryLater,
      Degrade, EscalateSuppressed, EscalateUnasked, EscalateAsk, AnswerSkip,
      AnswerCancel, AnswerUnusable, Answered, Fails, Finish

\* Noting an escalation keeps the earlier ones.
LEMMA NoteEffect ==
  ASSUME TypeOK, NEW s \in Slots, tool[s] \in Tools,
         NEW d \in {"retry", "skip", "cancel", "expired", "no_callback", "cap"},
         Note(s, d)
  PROVE  /\ escalations' \subseteq Tools \X
              {"retry", "skip", "cancel", "expired", "no_callback", "cap"}
         /\ escalations \subseteq escalations'
         /\ escalations' # {}
<1> DEFINE E == {"retry", "skip", "cancel", "expired", "no_callback", "cap"}
<1>1. <<tool[s], d>> \in Tools \X E
  OBVIOUS
<1>2. escalations' = escalations \union {<<tool[s], d>>}
  BY DEF Note
<1>3. escalations \subseteq Tools \X E
  BY DEF TypeOK
<1> HIDE DEF E
<1>4. /\ escalations' \subseteq Tools \X E
      /\ escalations \subseteq escalations'
      /\ escalations' # {}
  BY <1>1, <1>2, <1>3, Zenon
<1> QED BY <1>4 DEF E

\* A stop sets the outcome once.
LEMMA StopEffect ==
  ASSUME TypeOK, NEW kind \in {"cancelled", "unresolved"}, StopAs(kind)
  PROVE  /\ outcome' \in {"none", "cancelled", "unresolved"}
         /\ outcome # "none" => outcome' = outcome
BY DEF TypeOK, StopAs

\* What a quiet step does to the run's RecoveryState.
LEMMA QuietRecovery ==
  ASSUME TypeOK, BudgetNotOverdrawn, EscalationsCapped, BusyHasTool,
         NEW s \in Slots, Quiet(s)
  PROVE  /\ budget_left' \in Int /\ budget_left' >= 0
         /\ unavailable' \subseteq Tools
         /\ escalation_count' \in Nat /\ escalation_count' <= MaxEscalations
         /\ escalations' \subseteq Tools \X
              {"retry", "skip", "cancel", "expired", "no_callback", "cap"}
         /\ escalations \subseteq escalations'
         /\ outcome' \in {"none", "cancelled", "unresolved"}
         /\ outcome # "none" => outcome' = outcome
         /\ outcome' # outcome => escalations' # {}
         /\ tries' \in [Slots -> Nat]
<1> USE DEF TypeOK, BudgetNotOverdrawn, EscalationsCapped
<1>0. tool[s] \in Tools
  BY QuietEffect DEF BusyHasTool
<1>1. CASE SkipUnavailable(s) \/ Succeed(s) \/ FeedBack(s) \/ EscalateSuppressed(s)
  BY <1>1 DEF SkipUnavailable, Succeed, FeedBack, EscalateSuppressed, recovery
<1>2. ASSUME NEW delay \in Delays, RetryLater(s, delay)
      PROVE  /\ budget_left' \in Int /\ budget_left' >= 0
             /\ UNCHANGED <<unavailable, escalation_count, escalations, outcome>>
             /\ tries' \in [Slots -> Nat]
  <2>1. delay <= budget_left
    BY <1>2 DEF RetryLater, Fails, Decide, MayRetry
  <2> QED BY <1>2, <2>1 DEF RetryLater
<1>3. ASSUME NEW delay \in Delays, Degrade(s, delay)
      PROVE  /\ UNCHANGED <<budget_left, escalation_count, escalations, outcome, tries>>
             /\ unavailable' \subseteq Tools
  BY <1>3, <1>0 DEF Degrade, MarkUnavailable
<1>4. CASE EscalateUnasked(s)
  BY <1>4, <1>0, NoteEffect, StopEffect DEF EscalateUnasked, CapReached
<1>5. CASE EscalateAsk(s)
  BY <1>5 DEF EscalateAsk, CapReached
<1>6. CASE AnswerSkip(s)
  BY <1>6, <1>0, NoteEffect DEF AnswerSkip, Answered, MarkUnavailable
<1>7. CASE AnswerCancel(s)
  BY <1>7, <1>0, NoteEffect, StopEffect DEF AnswerCancel, Answered
<1>8. CASE AnswerUnusable(s)
  BY <1>8, <1>0, NoteEffect, StopEffect DEF AnswerUnusable, Answered
<1> QED BY <1>1, <1>2, <1>3, <1>4, <1>5, <1>6, <1>7, <1>8 DEF Quiet

\* A step that runs a tool that is not read-only has a consent in hand: the
\* approval, unused so far, or the "retry" of this very step.
LEMMA RunsEffect ==
  ASSUME TypeOK, BusyHasTool, NEW s \in Slots, Runs(s)
  PROVE  /\ at[s] \in {"approved", "sleeping", "escalating"}
         /\ at[s] = "approved" => phase = "executing"
         /\ at' = [at EXCEPT ![s] = "invoking"]
         /\ invoked' = [invoked EXCEPT ![s] = @ + 1]
         /\ \/ at[s] \in {"approved", "sleeping"} /\ consents' = consents
            \/ /\ consents' = [consents EXCEPT ![s] = @ + 1]
               /\ outcome = "none"
         /\ UNCHANGED <<run, tool, budget_left, unavailable, escalation_count, outcome>>
         /\ escalations \subseteq escalations'
         /\ escalations' \subseteq Tools \X
              {"retry", "skip", "cancel", "expired", "no_callback", "cap"}
         /\ tries' \in [Slots -> Nat]
<1> USE DEF TypeOK, recovery, Invoke
<1>1. CASE StartCall(s)
  BY <1>1 DEF StartCall, NextToStart
<1>2. CASE WakeUp(s)
  BY <1>2 DEF WakeUp
<1>3. CASE AnswerRetry(s)
  <2>1. tool[s] \in Tools
    BY <1>3 DEF AnswerRetry, Answered, BusyHasTool
  <2> QED BY <1>3, <2>1 DEF AnswerRetry, Answered, Note
<1> QED BY <1>1, <1>2, <1>3 DEF Runs

-----------------------------------------------------------------------------
(* The actions of the run *)

\* The batch is dropped: by a final generation, after the batch, on an abort.
Drops == GenerateFinal \/ FinishStopped \/ FinishFull \/ NextTurn \/ Abort

LEMMA DropsEffect ==
  ASSUME Drops
  PROVE  EmptyBatch /\ ResetCalls /\ UNCHANGED recovery
BY DEF Drops, GenerateFinal, FinishStopped, FinishFull, NextTurn, Abort

\* Every step of a run is one of these.
LEMMA StepCases ==
  ASSUME Next
  PROVE  \/ Drops
         \/ \E n \in Slots :
              \E called \in [1 .. n -> Tools], valid \in [1 .. n -> BOOLEAN] :
                GenerateCalls(n, called, valid)
         \/ BeginExecution
         \/ \E s \in Slots : Approve(s) \/ Refuse(s)
         \/ \E s \in Slots : Quiet(s)
         \/ \E s \in Slots : Runs(s)
<1>1. CASE \E s \in Slots : SlotStep(s)
  BY <1>1, SlotCases
<1>2. CASE RunStep \/ Abort
  BY <1>2 DEF RunStep, Generate, Drops
<1> QED BY <1>1, <1>2 DEF Next

\* Where a new batch puts its slots.
LEMMA ScreenedRange ==
  ASSUME NEW t, NEW valid
  PROVE  /\ Screened(t, valid) \in {"invalid", "approved", "pending", "refused"}
         /\ Screened(t, valid) = "approved" => ~Gated(t)
BY DEF Screened

-----------------------------------------------------------------------------
(* Type correctness and the inductive invariant *)

LEMMA LoopInvInit == Init => LoopInv
<1> SUFFICES ASSUME Init PROVE LoopInv
  OBVIOUS
<1>1. TypeOK
  BY DEF Init, TypeOK, Settled, Slots
<1> QED
  BY <1>1
  DEF Init, LoopInv, TasksNeedExecution, BusyHasTool, GatedCalls,
      EffectsArePaidFor, BudgetNotOverdrawn, EscalationsCapped, AnswerIsModel,
      StopIsFinal

\* Nothing happens to the batch after it is dropped.
LEMMA DropsKeepInv ==
  ASSUME LoopInv, Drops
  PROVE  LoopInv'
<1>1. /\ tool' = [s \in Slots |-> "none"]
      /\ at' = [s \in Slots |-> "idle"]
      /\ tries' = [s \in Slots |-> 0]
      /\ invoked' = [s \in Slots |-> 0]
      /\ consents' = [s \in Slots |-> 0]
      /\ UNCHANGED <<budget_left, unavailable, escalation_count, escalations, outcome>>
  BY DropsEffect DEF EmptyBatch, ResetCalls, recovery
<1>2. /\ phase' \in {"generating", "done", "aborted"}
      /\ assistant_turns' \in Nat /\ user_turns' \in Nat
      /\ answer' \in {"none", "model", "stop"}
      /\ UNCHANGED <<can_approve, can_escalate>>
  BY DEF LoopInv, TypeOK, Drops, GenerateFinal, FinishStopped, FinishFull, NextTurn, Abort
<1>3. TypeOK'
  BY <1>1, <1>2 DEF LoopInv, TypeOK, Settled
<1>4. AnswerIsModel' /\ StopIsFinal'
  BY <1>1, <1>2
  DEF LoopInv, AnswerIsModel, StopIsFinal, BatchDone, Drops, GenerateFinal,
      FinishStopped, FinishFull, NextTurn, Abort
<1> QED
  BY <1>1, <1>3, <1>4
  DEF LoopInv, TasksNeedExecution, BusyHasTool, GatedCalls, EffectsArePaidFor,
      BudgetNotOverdrawn, EscalationsCapped

\* A new batch has run nothing, and has approved only read-only calls.
LEMMA NewBatchKeepsInv ==
  ASSUME LoopInv, NEW n \in Slots, NEW called \in [1 .. n -> Tools],
         NEW valid \in [1 .. n -> BOOLEAN], GenerateCalls(n, called, valid)
  PROVE  LoopInv'
<1>1. /\ phase = "generating" /\ phase' = "approving" /\ answer' = "model"
      /\ assistant_turns' = assistant_turns + 1
      /\ tool' = [s \in Slots |-> IF s <= n THEN called[s] ELSE "none"]
      /\ at' = [s \in Slots |->
                  IF s <= n THEN Screened(called[s], valid[s]) ELSE "idle"]
      /\ tries' = [s \in Slots |-> 0]
      /\ invoked' = [s \in Slots |-> 0]
      /\ consents' = [s \in Slots |-> 0]
      /\ UNCHANGED <<user_turns, can_approve, can_escalate, budget_left,
                     unavailable, escalation_count, escalations, outcome>>
  BY DEF GenerateCalls, ResetCalls, recovery
<1>2. ASSUME NEW s \in Slots
      PROVE  /\ at'[s] \in {"idle", "invalid", "approved", "pending", "refused"}
             /\ tool'[s] \in Tools \union {"none"}
             /\ at'[s] # "idle" => tool'[s] # "none"
             /\ at'[s] = "approved" => ~Gated(tool'[s])
  <2>1. CASE s <= n
    <3>1. s \in 1 .. n
      BY <2>1 DEF Slots
    <3>2. tool'[s] = called[s] /\ at'[s] = Screened(called[s], valid[s])
      BY <1>1, <2>1
    <3> QED BY <3>1, <3>2, ScreenedRange
  <2>2. CASE ~(s <= n)
    BY <1>1, <2>2
  <2> QED BY <2>1, <2>2
<1>3. TypeOK'
  <2>1. /\ at' \in [Slots -> Settled \union
                      {"pending", "approved", "invoking", "sleeping", "escalating"}]
        /\ tool' \in [Slots -> Tools \union {"none"}]
    BY <1>1, <1>2 DEF Settled
  <2> QED BY <1>1, <2>1 DEF LoopInv, TypeOK
<1> QED
  BY <1>1, <1>2, <1>3
  DEF LoopInv, TasksNeedExecution, BusyHasTool, GatedCalls, EffectsArePaidFor,
      BudgetNotOverdrawn, EscalationsCapped, AnswerIsModel, StopIsFinal

LEMMA BeginKeepsInv ==
  ASSUME LoopInv, BeginExecution
  PROVE  LoopInv'
BY DEF LoopInv, TypeOK, BeginExecution, recovery, TasksNeedExecution, BusyHasTool,
       GatedCalls, EffectsArePaidFor, BudgetNotOverdrawn, EscalationsCapped,
       AnswerIsModel, StopIsFinal

\* The user decides about one call: its one consent is recorded, nothing runs.
LEMMA ApprovalKeepsInv ==
  ASSUME LoopInv, NEW s \in Slots, Approve(s) \/ Refuse(s)
  PROVE  LoopInv'
<1>1. /\ phase = "approving" /\ at[s] = "pending"
      /\ UNCHANGED <<run, recovery, tool, tries, invoked>>
  BY DEF Approve, Refuse
<1>2. \/ /\ at' = [at EXCEPT ![s] = "approved"]
         /\ consents' = [consents EXCEPT ![s] = 1]
      \/ /\ at' = [at EXCEPT ![s] = "refused"]
         /\ consents' = consents
  BY DEF Approve, Refuse
<1>3. TypeOK'
  BY <1>1, <1>2 DEF LoopInv, TypeOK, Settled, run, recovery
<1>4. GatedCalls' /\ EffectsArePaidFor'
  BY <1>1, <1>2 DEF LoopInv, TypeOK, GatedCalls, EffectsArePaidFor
<1>5. TasksNeedExecution' /\ BusyHasTool'
  BY <1>1, <1>2 DEF LoopInv, TypeOK, TasksNeedExecution, BusyHasTool, run
<1> QED
  BY <1>1, <1>3, <1>4, <1>5
  DEF LoopInv, run, recovery, BudgetNotOverdrawn, EscalationsCapped, AnswerIsModel,
      StopIsFinal

LEMMA QuietKeepsInv ==
  ASSUME LoopInv, NEW s \in Slots, Quiet(s)
  PROVE  LoopInv'
<1>1. PICK x \in {"finished", "escalating", "sleeping"} :
        /\ at' = [at EXCEPT ![s] = x]
        /\ x = "sleeping" => ~Gated(tool[s])
  BY QuietEffect
<1>2. /\ at[s] \in {"approved", "invoking", "escalating"}
      /\ phase = "executing"
      /\ UNCHANGED <<phase, assistant_turns, user_turns, answer, can_approve,
                     can_escalate, tool, invoked, consents>>
  BY QuietEffect DEF LoopInv, TasksNeedExecution, run
<1>3. TypeOK'
  BY <1>1, <1>2, QuietRecovery DEF LoopInv, TypeOK, Settled
<1>4. GatedCalls' /\ EffectsArePaidFor'
  BY <1>1, <1>2 DEF LoopInv, TypeOK, GatedCalls, EffectsArePaidFor
<1>5. TasksNeedExecution' /\ BusyHasTool'
  BY <1>1, <1>2 DEF LoopInv, TypeOK, TasksNeedExecution, BusyHasTool
<1>6. BudgetNotOverdrawn' /\ EscalationsCapped'
  BY QuietRecovery DEF LoopInv, BudgetNotOverdrawn, EscalationsCapped
<1>7. AnswerIsModel' /\ StopIsFinal'
  BY <1>2, QuietRecovery DEF LoopInv, AnswerIsModel, StopIsFinal
<1> QED BY <1>3, <1>4, <1>5, <1>6, <1>7 DEF LoopInv

LEMMA RunsKeepsInv ==
  ASSUME LoopInv, NEW s \in Slots, Runs(s)
  PROVE  LoopInv'
<1> TypeOK /\ BusyHasTool
  BY DEF LoopInv
<1>1. /\ phase = "executing"
      /\ UNCHANGED <<phase, assistant_turns, user_turns, answer, can_approve,
                     can_escalate, tool>>
  BY RunsEffect DEF LoopInv, TasksNeedExecution, run
<1>2. TypeOK'
  BY <1>1, RunsEffect DEF TypeOK
<1>3. GatedCalls' /\ EffectsArePaidFor'
  BY <1>1, RunsEffect DEF LoopInv, TypeOK, BusyHasTool, GatedCalls, EffectsArePaidFor
<1>4. TasksNeedExecution' /\ BusyHasTool'
  BY <1>1, RunsEffect DEF LoopInv, TypeOK, TasksNeedExecution, BusyHasTool
<1>5. BudgetNotOverdrawn' /\ EscalationsCapped'
  BY RunsEffect DEF LoopInv, BudgetNotOverdrawn, EscalationsCapped
<1>6. AnswerIsModel' /\ StopIsFinal'
  BY <1>1, RunsEffect DEF LoopInv, AnswerIsModel, StopIsFinal
<1> QED BY <1>2, <1>3, <1>4, <1>5, <1>6 DEF LoopInv

\* The inductive invariant holds throughout.
THEOREM LoopInvariant == Spec => []LoopInv
<1>1. LoopInv /\ [Next]_vars => LoopInv'
  <2> SUFFICES ASSUME LoopInv, [Next]_vars PROVE LoopInv'
    OBVIOUS
  <2>1. CASE Next
    BY <2>1, StepCases, DropsKeepInv, NewBatchKeepsInv, BeginKeepsInv,
       ApprovalKeepsInv, QuietKeepsInv, RunsKeepsInv
  <2>2. CASE UNCHANGED vars
    BY <2>2
    DEF vars, run, recovery, LoopInv, TypeOK, TasksNeedExecution, BusyHasTool,
        GatedCalls, EffectsArePaidFor, BudgetNotOverdrawn, EscalationsCapped,
        AnswerIsModel, StopIsFinal
  <2> QED BY <2>1, <2>2
<1> QED BY <1>1, LoopInvInit, PTL DEF Spec

-----------------------------------------------------------------------------
(* What follows *)

\* Every reachable state of a run is well typed.
THEOREM TypeCorrect == Spec => []TypeOK
BY LoopInvariant, PTL DEF LoopInv

\* No tool with side effects runs without a consent of its own.
THEOREM EffectsAlwaysPaidFor == Spec => []EffectsArePaidFor
BY LoopInvariant, PTL DEF LoopInv

\* The shared retry budget is never overdrawn.
THEOREM BudgetKept == Spec => []BudgetNotOverdrawn
BY LoopInvariant, PTL DEF LoopInv

\* The user is never asked more than MaxEscalations times.
THEOREM EscalationsKept == Spec => []EscalationsCapped
BY LoopInvariant, PTL DEF LoopInv

\* A stopped run ends, reports the stop, and never looks like a success.
THEOREM StopsAreFinal == Spec => []StopIsFinal
BY LoopInvariant, PTL DEF LoopInv

\* The first stop decides the outcome.
THEOREM OutcomeIsStable == Spec => FirstStopWins
<1> DEFINE Stable == outcome # "none" => outcome' = outcome
<1>1. LoopInv /\ [Next]_vars => [Stable]_vars
  <2> SUFFICES ASSUME LoopInv, Next PROVE Stable
    OBVIOUS
  <2>1. CASE Drops
    BY <2>1, DropsEffect DEF recovery
  <2>2. ASSUME NEW s \in Slots, Approve(s) \/ Refuse(s) PROVE Stable
    BY <2>2 DEF Approve, Refuse, recovery
  <2>3. ASSUME NEW s \in Slots, Quiet(s) PROVE Stable
    BY <2>3, QuietRecovery DEF LoopInv
  <2>4. ASSUME NEW s \in Slots, Runs(s) PROVE Stable
    BY <2>4, RunsEffect DEF LoopInv
  <2>5. CASE BeginExecution
    BY <2>5 DEF BeginExecution, recovery
  <2>6. ASSUME NEW n \in Slots, NEW called, NEW valid, GenerateCalls(n, called, valid)
        PROVE  Stable
    BY <2>6 DEF GenerateCalls, recovery
  <2> QED BY <2>1, <2>2, <2>3, <2>4, <2>5, <2>6, StepCases
<1> QED BY <1>1, LoopInvariant, PTL DEF Spec, FirstStopWins

\* After a stop no call that is not read-only is run a second time.
THEOREM StopsReplays == Spec => NoReplayAfterStop
<1> DEFINE Replayed ==
      \A s \in Slots :
        outcome # "none" /\ Gated(tool[s]) /\ invoked[s] > 0
          => invoked'[s] <= invoked[s]
<1>1. LoopInv /\ [Next]_vars => [Replayed]_vars
  <2> SUFFICES ASSUME LoopInv, Next, NEW q \in Slots,
                      outcome # "none", Gated(tool[q]), invoked[q] > 0
               PROVE  invoked'[q] <= invoked[q]
    OBVIOUS
  <2> invoked \in [Slots -> Nat]
    BY DEF LoopInv, TypeOK
  <2>1. CASE Drops
    BY <2>1, DropsEffect DEF ResetCalls
  <2>2. ASSUME NEW s \in Slots, Approve(s) \/ Refuse(s) PROVE invoked' = invoked
    BY <2>2 DEF Approve, Refuse
  <2>3. ASSUME NEW s \in Slots, Quiet(s) PROVE invoked' = invoked
    BY <2>3, QuietEffect
  <2>4. ASSUME NEW s \in Slots, Runs(s) PROVE invoked'[q] <= invoked[q]
    <3>1. CASE q # s
      BY <2>4, <3>1, RunsEffect DEF LoopInv
    <3>2. CASE q = s
      <4>1. at[q] \in {"approved", "sleeping"}
        BY <2>4, <3>2, RunsEffect DEF LoopInv
      <4> QED BY <3>2, <4>1 DEF LoopInv, BusyHasTool, GatedCalls
    <3> QED BY <3>1, <3>2
  <2>5. CASE BeginExecution
    BY <2>5 DEF BeginExecution
  <2>6. ASSUME NEW n \in Slots, NEW called, NEW valid, GenerateCalls(n, called, valid)
        PROVE  invoked'[q] <= invoked[q]
    BY <2>6 DEF GenerateCalls, ResetCalls
  <2> QED BY <2>1, <2>2, <2>3, <2>4, <2>5, <2>6, StepCases
<1> QED BY <1>1, LoopInvariant, PTL DEF Spec, NoReplayAfterStop

\* The approvals of a batch come before its invocations.
ApprovalComesFirst ==
  /\ \A s \in Slots : at[s] = "pending" => phase = "approving"
  /\ phase = "approving" => \A s \in Slots : invoked[s] = 0

LEMMA ApprovalStep ==
  ASSUME LoopInv, ApprovalComesFirst, [Next]_vars
  PROVE  ApprovalComesFirst'
<1> USE DEF ApprovalComesFirst
<1> at \in [Slots -> Settled \union
               {"pending", "approved", "invoking", "sleeping", "escalating"}]
  BY DEF LoopInv, TypeOK
<1>1. CASE Drops
  <2>1. phase' # "approving" /\ EmptyBatch
    BY <1>1, DropsEffect
    DEF Drops, GenerateFinal, FinishStopped, FinishFull, NextTurn, Abort
  <2> QED BY <2>1 DEF EmptyBatch
<1>2. ASSUME NEW s \in Slots, Approve(s) \/ Refuse(s) PROVE ApprovalComesFirst'
  BY <1>2 DEF Approve, Refuse, run
<1>3. ASSUME NEW s \in Slots, Quiet(s) PROVE ApprovalComesFirst'
  BY <1>3, QuietEffect DEF run
<1>4. ASSUME NEW s \in Slots, Runs(s) PROVE ApprovalComesFirst'
  BY <1>4, RunsEffect DEF LoopInv, TasksNeedExecution, GatedCalls, BusyHasTool, run
<1>5. CASE BeginExecution
  BY <1>5 DEF BeginExecution
<1>6. ASSUME NEW n \in Slots, NEW called, NEW valid, GenerateCalls(n, called, valid)
      PROVE  ApprovalComesFirst'
  BY <1>6 DEF GenerateCalls, ResetCalls
<1>7. CASE UNCHANGED vars
  BY <1>7 DEF vars, run
<1> QED BY <1>1, <1>2, <1>3, <1>4, <1>5, <1>6, <1>7, StepCases

\* ToolAgentLoop.run starts no call of a batch while the user is still asked
\* about another one.
THEOREM ApprovalsComeFirst == Spec => []BatchDecidedFirst
<1>1. Init => ApprovalComesFirst
  BY DEF Init, ApprovalComesFirst
<1>2. ApprovalComesFirst => BatchDecidedFirst
  BY DEF ApprovalComesFirst, BatchDecidedFirst
<1> QED BY <1>1, <1>2, ApprovalStep, LoopInvariant, PTL DEF Spec
=============================================================================
