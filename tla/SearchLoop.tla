----------------------------- MODULE SearchLoop -----------------------------
(***************************************************************************)
(* One run of the search agent (agents/search/search.py, with Planner and  *)
(* LoopController of agents/components).  In every turn the model writes   *)
(* a text whose tags declare subquestions, ask for searches and pages, or  *)
(* answer; the loop runs what the budget allows, judges the evidence, and  *)
(* lets an answer pass or not.  When the loop ends without an answer the   *)
(* model is asked once more, if anything was found.                        *)
(*                                                                         *)
(* A run is sequential.  A step goes from one await to the next: what the  *)
(* model writes and what a search returns are the environment's choice,    *)
(* and any await may raise or be cancelled.                                *)
(*                                                                         *)
(* A query is its normalized form (_normalize_query).  Pages fetched by    *)
(* URL only add to the observation and are left out but for their tag.     *)
(***************************************************************************)
EXTENDS Integers, FiniteSets

CONSTANTS
  Tasks,             \* subquestion ids
  NoTask,            \* a query without a task prefix
  Queries,
  Question,          \* the query that is the user's question
  Texts,             \* what the model may write, see Outputs
  MaxTurns, MaxFormatErrors, MaxRejections,
  SearchLimit,       \* max_search_limit, resolved
  PerSubquestion,    \* search_budget_per_subquestion
  LimitCap,          \* max_search_limit_cap
  Scores,            \* evidence scores, scaled to integers
  MinGain,           \* evidence_plateau_min_gain on that scale
  RequireEvidence,   \* require_sufficient_evidence_before_answer
  PlateauNeedsEvidence,   \* plateau_requires_sufficient
  AllowInternal,     \* allow_internal_knowledge_answer
  AutoSearches,      \* auto_search_on_deadend, and there is a question
  ForceAnswer        \* force_answer_on_deadend

\* A query and the task it is prefixed with.
Specs == [task : Tasks \union {NoTask}, query : Queries]

\* The tags of a turn: a <search_decision> (its absence, "answer" or anything
\* else), the <subquestions>, the searches, a <fetch>, an <answer>.
Outputs ==
  [decision : {"absent", "answer", "other"}, declared : SUBSET Tasks,
   specs : SUBSET Specs, fetch : BOOLEAN, answer : BOOLEAN]

ASSUME NoTaskAssumption == NoTask \notin Tasks
ASSUME TasksAssumption == IsFiniteSet(Tasks)
ASSUME QuestionAssumption == Question \in Queries
ASSUME TextsAssumption == Texts \subseteq Outputs
ASSUME NumbersAssumption ==
  /\ MaxTurns \in Nat \ {0} /\ MaxFormatErrors \in Nat \ {0}
  /\ MaxRejections \in Nat
  /\ SearchLimit \in Nat \ {0} /\ PerSubquestion \in Nat /\ LimitCap \in Nat
  /\ Scores \subseteq Nat /\ 0 \in Scores /\ MinGain \in Int
ASSUME SwitchesAssumption ==
  {RequireEvidence, PlateauNeedsEvidence, AllowInternal, AutoSearches,
   ForceAnswer} \subseteq BOOLEAN

VARIABLES
  pc,
  turn,          \* texts the model has written in the loop
  status,        \* each task: "absent", "open" or "covered" (task_statuses)
  declared,      \* auxiliary: the tasks the last text declared
  unmet,         \* auxiliary: tasks a text declared, or was the first to name,
                 \* that no round has answered since
  decision,      \* latest_search_decision is "answer"
  rejections,    \* consecutive_rejections
  formatErrors,  \* consecutive_format_errors
  rounds,        \* state.search_rounds
  found,         \* agent_ctx.num_rounds: rounds that found anything
  evaluation,    \* latest_evaluation: "none", "insufficient", "sufficient"
  score,         \* state.evidence_score
  withheld,      \* the last round was a plateau: the model did not see it
  previous,      \* state.previous_queries
  cached,        \* keys of search_cache
  pending,       \* the searches under way
  answer,        \* final_answer, by how it came to be
  attempted,     \* forced_answer_attempted
  asked,         \* auxiliary: forced generations
  exit           \* exit_status

evidence == <<rounds, found, evaluation, score, withheld, previous, cached>>
ending == <<attempted, asked, exit>>
vars == <<pc, turn, status, declared, unmet, decision, rejections, formatErrors,
          evidence, pending, answer, ending>>

\* "candidate" stands in a text that also searched or fetched and was not
\* gated; "internal" was given from the model's own knowledge; "overruled" was
\* let through after too many rejections; "forced" came when asked once more.
Answers == {"none", "candidate", "internal", "accepted", "overruled", "forced"}

TypeOK ==
  /\ pc \in {"model", "retrieving", "forcing", "ended", "last_call", "done",
             "raised"}
  /\ turn \in 0 .. MaxTurns
  /\ status \in [Tasks -> {"absent", "open", "covered"}]
  /\ declared \subseteq Tasks
  /\ unmet \subseteq Tasks
  /\ decision \in BOOLEAN
  /\ rejections \in Nat
  /\ formatErrors \in 0 .. MaxFormatErrors
  /\ rounds \in Nat
  /\ found \in Nat
  /\ evaluation \in {"none", "insufficient", "sufficient"}
  /\ score \in Scores
  /\ withheld \in BOOLEAN
  /\ previous \subseteq Queries
  /\ cached \subseteq Queries
  /\ pending \subseteq Specs
  /\ answer \in Answers
  /\ attempted \in BOOLEAN
  /\ asked \in Nat
  /\ exit \in {"max_turns", "answered", "format_error_limit", "no_action"}

Init ==
  /\ pc = "model"
  /\ turn = 0
  /\ status = [k \in Tasks |-> "absent"]
  /\ declared = {}
  /\ unmet = {}
  /\ decision = FALSE
  /\ rejections = 0
  /\ formatErrors = 0
  /\ rounds = 0
  /\ found = 0
  /\ evaluation = "none"
  /\ score = 0
  /\ withheld = FALSE
  /\ previous = {}
  /\ cached = {}
  /\ pending = {}
  /\ answer = "none"
  /\ attempted = FALSE
  /\ asked = 0
  /\ exit = "max_turns"

-----------------------------------------------------------------------------
(* What the decisions are taken from *)

Active(st) == {k \in Tasks : st[k] # "absent"}

\* LoopController.effective_search_limit
EffectiveLimit(st) ==
  LET extra == Cardinality(Active(st)) - 1
      raised == SearchLimit + PerSubquestion * (IF extra > 0 THEN extra ELSE 0)
      capped == IF raised <= LimitCap THEN raised ELSE LimitCap
  IN IF SearchLimit >= capped THEN SearchLimit ELSE capped

\* _has_sufficient_evidence
Sufficient(ev, st) ==
  ev = "sufficient" /\ \A k \in Active(st) : st[k] = "covered"

\* A task is new to a text if its prefix is not a task yet.
NamedIn(said) == {s.task : s \in said.specs} \ {NoTask}

\* Mutant: a subquestion declared again keeps the verdict on it.
StatusAfterKnown(said) ==
  [k \in Tasks |->
     IF status[k] = "absent" /\ k \in said.declared \union NamedIn(said)
     THEN "open"
     ELSE status[k]]

\* Declared subquestions start anew, known or not; an unknown prefix of a
\* query registers a task whether or not the query will be run.
StatusAfter(said) ==
  [k \in Tasks |->
     IF \/ k \in said.declared
        \/ k \in NamedIn(said) /\ status[k] = "absent"
     THEN "open"
     ELSE status[k]]

\* Mutant: off by one.
AllowedOneMore(said) ==
  IF rounds > EffectiveLimit(StatusAfter(said))
  THEN {}
  ELSE {s \in said.specs : s.query \notin previous}

\* Planner.partition_search_requests: the searches to run.  A query that was
\* run is not run again, nor is anything when the rounds are used up.
Allowed(said) ==
  IF rounds >= EffectiveLimit(StatusAfter(said))
  THEN {}
  ELSE {s \in said.specs : s.query \notin previous}

\* What a turn is followed by when `written` texts have been written.
NextTurn(written) == pc' = IF written >= MaxTurns THEN "ended" ELSE "model"

Break(status_) == exit' = status_ /\ pc' = "ended"

-----------------------------------------------------------------------------
(* The answer gate *)

\* The model said it needs no search, and neither searched nor planned.
Internal ==
  /\ AllowInternal
  /\ rounds = 0
  /\ decision'
  /\ Active(status') = {}

\* LoopController.final_answer_decision accepts.
Convinced(st) == Sufficient(evaluation, st) \/ ~RequireEvidence

\* The model may be sent back to search.
Patient == rejections < MaxRejections

\* _apply_answer_gate, of a text that answers and neither searches nor fetches.
Gate ==
  \/ /\ Internal
     /\ answer' = "internal"
     /\ Break("answered")
     /\ UNCHANGED rejections
  \/ /\ ~Internal /\ Convinced(status')
     /\ answer' = "accepted"
     /\ Break("answered")
     /\ UNCHANGED rejections
  \/ /\ ~Internal /\ ~Convinced(status') /\ ~Patient
     /\ answer' = "overruled"
     /\ Break("answered")
     /\ UNCHANGED rejections
  \/ /\ ~Internal /\ ~Convinced(status') /\ Patient
     /\ answer' = "none"
     /\ rejections' = rejections + 1
     /\ NextTurn(turn + 1)
     /\ UNCHANGED exit

-----------------------------------------------------------------------------
(* A turn *)

\* The body of the loop for the tags `said`, up to the search.
Act(said) ==
  LET searches == Allowed(said) IN
  /\ formatErrors' = 0
  /\ decision' = IF said.decision = "absent" THEN decision
                                             ELSE said.decision = "answer"
  /\ status' = StatusAfter(said)
  /\ declared' = said.declared
  /\ unmet' = unmet \union said.declared \union {k \in NamedIn(said) : status[k] = "absent"}
  /\ \/ /\ said.answer /\ searches = {} /\ ~said.fetch
        /\ Gate
        /\ UNCHANGED pending
     \/ /\ ~(said.answer /\ searches = {} /\ ~said.fetch)
        /\ answer' = IF said.answer THEN "candidate" ELSE answer
        /\ IF searches = {}
           THEN NextTurn(turn + 1) /\ UNCHANGED pending
           ELSE pc' = "retrieving" /\ pending' = searches
        /\ UNCHANGED <<rejections, exit>>
  /\ UNCHANGED <<evidence, attempted, asked>>

\* The model writes a text with a tag the loop knows.
Speak(said) ==
  /\ pc = "model"
  /\ turn' = turn + 1
  /\ Act(said)

\* The next text without a tag is one too many.
LastError == formatErrors + 1 >= MaxFormatErrors

\* The search the loop runs on its own.
AutoSearch ==
  [decision |-> "absent", declared |-> {}, fetch |-> FALSE, answer |-> FALSE,
   specs |-> {[task |-> NoTask, query |-> Question]}]

\* A text without a tag, when nothing was searched and patience ends.
SearchAnyway ==
  /\ pc = "model"
  /\ AutoSearches /\ rounds = 0 /\ LastError
  /\ turn' = turn + 1
  /\ Act(AutoSearch)

\* A dead end asks for an answer once, unless there is one or nothing was found.
DeadEnd(status_) ==
  /\ exit' = status_
  /\ IF ForceAnswer /\ answer = "none"
     THEN /\ attempted' = TRUE
          /\ pc' = IF found = 0 THEN "ended" ELSE "forcing"
     ELSE pc' = "ended" /\ UNCHANGED attempted

\* _handle_no_action: the model is prompted again, or the run is at an end.
Silence ==
  /\ pc = "model"
  /\ ~(AutoSearches /\ rounds = 0 /\ LastError)
  /\ turn' = turn + 1
  /\ formatErrors' = formatErrors + 1
  /\ declared' = {}
  /\ \/ /\ LastError
        /\ DeadEnd("format_error_limit")
        /\ UNCHANGED rejections
     \/ /\ ~LastError /\ ~Convinced(status) /\ Patient
        /\ rejections' = rejections + 1
        /\ NextTurn(turn + 1)
        /\ UNCHANGED <<attempted, exit>>
     \/ /\ ~LastError /\ (Convinced(status) \/ ~Patient)
        /\ DeadEnd("no_action")
        /\ UNCHANGED rejections
  /\ UNCHANGED <<status, unmet, decision, evidence, pending, answer, asked>>

-----------------------------------------------------------------------------
(* A round of searches *)

\* What a round finds for each search: nothing (the retrieval may have
\* failed), weak or strong evidence.
Findings == [pending -> {"nothing", "weak", "strong"}]

\* Mutant: only what was found is not asked for again.
AskedInFound(results) == {s.query : s \in {p \in pending : results[p] # "nothing"}}

\* record_search_round notes every query of the round.
AskedIn(results) == {s.query : s \in pending}

\* The tasks of a round's searches are judged by it alone.
Judged(results) ==
  [k \in Tasks |->
     IF \E s \in pending : s.task = k
     THEN IF \A s \in pending : s.task = k => results[s] = "strong"
          THEN "covered" ELSE "open"
     ELSE status[k]]

\* The tasks this round searched for, and those of them it has answered.
Searched == {s.task : s \in pending} \ {NoTask}
Met(results) == {k \in Searched : \A s \in pending : s.task = k => results[s] = "strong"}

\* LoopController.should_continue_searching stops for a plateau: its budget
\* comes first.
Plateau(used, gain, ev, st) ==
  /\ used < EffectiveLimit(st)
  /\ gain < MinGain
  /\ Sufficient(ev, st) \/ ~PlateauNeedsEvidence

\* _execute_search_round and the plateau check of _run_search_stage.  Results
\* that are strong one by one may be too few together.
Retrieve(results, judgement, level) ==
  LET any == \E s \in pending : results[s] # "nothing"
      ev == IF any THEN judgement ELSE "none"
  IN
  /\ pc = "retrieving"
  /\ judgement = "sufficient" =>
       level > 0 /\ \A s \in pending : results[s] = "strong"
  /\ rounds' = rounds + 1
  /\ previous' = previous \union AskedIn(results)
  /\ cached' = cached \union {s.query : s \in pending}
  /\ evaluation' = ev
  /\ status' = IF any THEN Judged(results) ELSE status
  /\ unmet' = IF any THEN (unmet \union Searched) \ Met(results) ELSE unmet
  /\ found' = IF any THEN found + 1 ELSE found
  /\ score' = IF any THEN level ELSE score
  /\ withheld' = Plateau(rounds', score' - score, ev, status')
  /\ rejections' = 0
  /\ pending' = {}
  /\ NextTurn(turn)
  /\ UNCHANGED <<turn, declared, decision, formatErrors, answer, ending>>

-----------------------------------------------------------------------------
(* The end of a run *)

\* _force_final_answer: the model answers or does not.
Forced(given, place) ==
  /\ answer' = IF given THEN "forced" ELSE "none"
  /\ asked' = asked + 1
  /\ pc' = place
  /\ UNCHANGED <<turn, status, declared, unmet, decision, rejections, formatErrors,
                 evidence, pending, attempted, exit>>

ForcedAtDeadEnd == pc = "forcing" /\ \E given \in BOOLEAN : Forced(given, "ended")

\* Mutant: a dead end does not count.
MissingAnswerAgain == ForceAnswer /\ answer = "none" /\ found > 0

\* The loop is over, has no answer, and has not asked for one yet.
MissingAnswer == ForceAnswer /\ answer = "none" /\ ~attempted /\ found > 0

LoopEnds ==
  /\ pc = "ended"
  /\ pc' = IF MissingAnswer THEN "last_call" ELSE "done"
  /\ UNCHANGED <<turn, status, declared, unmet, decision, rejections, formatErrors,
                 evidence, pending, answer, ending>>

ForcedAtLast == pc = "last_call" /\ \E given \in BOOLEAN : Forced(given, "done")

\* The generation, on_turn or the tokenizer raises, or the run is cancelled.
Raise ==
  /\ pc \in {"model", "retrieving", "forcing", "last_call"}
  /\ pc' = "raised"
  /\ UNCHANGED <<turn, status, declared, unmet, decision, rejections, formatErrors,
                 evidence, pending, answer, ending>>

-----------------------------------------------------------------------------

Search ==
  \E results \in Findings, judgement \in {"insufficient", "sufficient"},
     level \in Scores : Retrieve(results, judgement, level)

Next ==
  \/ \E said \in Texts : Speak(said)
  \/ SearchAnyway
  \/ Silence
  \/ Search
  \/ ForcedAtDeadEnd
  \/ LoopEnds
  \/ ForcedAtLast
  \/ Raise

Spec == Init /\ [][Next]_vars

-----------------------------------------------------------------------------
(* Safety *)

\* The rounds stay within the budget, although every task a text declares or
\* only names in a prefix raises it, and within the configured bounds.
BudgetHolds ==
  /\ rounds <= EffectiveLimit(status)
  /\ rounds <= SearchLimit \/ rounds <= LimitCap

\* No two rounds retrieve the same query, not even one whose retrieval failed:
\* what goes out was sent in no round before, so that the cache of the run never
\* answers it.  (One round may send a query twice, under two prefixes.)
NothingAskedTwice == {s.query : s \in pending} \intersect cached = {}

\* Whatever the model writes, it is sent back at most MaxRejections times
\* between two rounds, by the gate and by texts without a tag together.
PatienceBounded == rejections <= MaxRejections

\* "the last round's documents would otherwise never reach the model that
\* must answer from them": a round that is withheld from the model leaves
\* budget for another, then and later.
LastRoundIsShown == withheld => rounds < EffectiveLimit(status)

\* A run returns an answer although its last round was not sufficient, or a task
\* that a text declared or named has not been answered by a round since, only if
\* it searched nothing by its own decision, was sent back as often as it may be,
\* was asked once more with something found, or searched or fetched in the
\* same text (such an answer passes no gate): whatever the texts declare, name
\* and declare again, they never make an open task count as covered.
AnswersAreEarned ==
  pc = "done" /\ RequireEvidence /\ ~(evaluation = "sufficient" /\ unmet = {}) =>
    CASE answer = "internal" -> rounds = 0 /\ Active(status) = {}
      [] answer = "overruled" -> rejections = MaxRejections
      [] answer = "forced" -> found > 0
      [] answer = "accepted" -> FALSE
      [] OTHER -> TRUE

\* "Dead-ends emit a best-effort answer": a run ends without an answer only if
\* nothing was found or the model, asked once and no more, gave none.
GivesUpForAReason ==
  /\ asked <= 1
  /\ pc = "done" /\ ForceAnswer /\ answer = "none" => found = 0 \/ asked = 1

-----------------------------------------------------------------------------
(* Action properties *)

\* Evidence once sufficient is lost only in a further round, or by a text
\* that declares subquestions or names new ones.
EvidenceIsKept ==
  [][Sufficient(evaluation, status) /\ ~Sufficient(evaluation, status)' =>
       \/ rounds' > rounds
       \/ Active(status') # Active(status)
       \/ declared' # {}]_vars

-----------------------------------------------------------------------------
(* What a comment says *)

\* "so retrieval always fires at least once instead of dead-ending on format
\* recovery".
RetrievalFires ==
  pc = "done" /\ exit \in {"no_action", "format_error_limit"} => rounds > 0
=============================================================================
