-------------------------- MODULE SearchLoopProofs --------------------------
(***************************************************************************)
(* Theorems about SearchLoop, for every configuration and every text the   *)
(* model may write.                                                        *)
(***************************************************************************)
EXTENDS SearchLoop, FiniteSetTheorems, TLAPS

\* The loop goes on only with a turn left and errors to spare.
TurnsLeft ==
  /\ pc = "model" => turn < MaxTurns
  /\ pc \in {"model", "retrieving"} => formatErrors < MaxFormatErrors

\* What the budget's properties rest on: a round under way has room in it.
RoundHasRoom == pc = "retrieving" => rounds < EffectiveLimit(status)

\* What was sent is exactly what was asked, and what is under way is new.
AskedIsSent ==
  /\ cached = previous
  /\ {s.query : s \in pending} \intersect previous = {}

\* Where the run is with its forced answer.
ForcedInTurn ==
  /\ pc \in {"model", "retrieving"} => asked = 0 /\ ~attempted
  /\ pc = "forcing" => asked = 0 /\ attempted /\ found > 0 /\ answer = "none"
  /\ pc = "ended" => asked = 0 \/ (asked = 1 /\ attempted)
  /\ pc = "ended" /\ attempted => found = 0 \/ asked = 1
  /\ pc = "last_call" => asked = 0 /\ found > 0 /\ answer = "none"

\* An answer that ends the loop was earned when it was given, and nothing
\* changes after it.
AnswerIsLast ==
  /\ answer \in {"internal", "accepted", "overruled", "forced"} =>
       pc \in {"ended", "done"}
  /\ answer = "internal" => rounds = 0 /\ Active(status) = {}
  /\ answer = "accepted" => Sufficient(evaluation, status) \/ ~RequireEvidence
  /\ answer = "overruled" => rejections = MaxRejections
  /\ answer = "forced" => found > 0

\* The tasks that texts left to be answered are the open ones.
UnmetAreOpen == unmet = {k \in Tasks : status[k] = "open"}

LoopInv ==
  /\ TypeOK
  /\ UnmetAreOpen
  /\ TurnsLeft
  /\ rounds <= EffectiveLimit(status)
  /\ RoundHasRoom
  /\ LastRoundIsShown
  /\ AskedIsSent
  /\ PatienceBounded
  /\ ForcedInTurn
  /\ GivesUpForAReason
  /\ AnswerIsLast

USE NumbersAssumption

-----------------------------------------------------------------------------
(* The budget *)

LEMMA ActiveIsFinite ==
  ASSUME NEW st
  PROVE  Cardinality(Active(st)) \in Nat
<1>1. Active(st) \in SUBSET Tasks
  BY DEF Active
<1> QED BY <1>1, TasksAssumption, FS_Subset, FS_CardinalityType

LEMMA Monotone ==
  ASSUME NEW p \in Nat, NEW a \in Nat, NEW b \in Nat, a <= b
  PROVE  p * a <= p * b
<1>1. p * b = p * a + p * (b - a)
  OBVIOUS
<1>2. p * (b - a) >= 0
  OBVIOUS
<1> QED BY <1>1, <1>2

LEMMA LimitIsNat ==
  ASSUME NEW st
  PROVE  EffectiveLimit(st) \in Nat /\ EffectiveLimit(st) > 0
BY ActiveIsFinite DEF EffectiveLimit

\* More active tasks never lower the limit.
LEMMA LimitGrows ==
  ASSUME NEW st, NEW new, Active(st) \subseteq Active(new)
  PROVE  EffectiveLimit(st) <= EffectiveLimit(new)
<1> DEFINE A == Cardinality(Active(st))
           B == Cardinality(Active(new))
           X == IF A - 1 > 0 THEN A - 1 ELSE 0
           Y == IF B - 1 > 0 THEN B - 1 ELSE 0
<1>1. A \in Nat /\ B \in Nat
  BY ActiveIsFinite
<1>2. A <= B
  <2>1. IsFiniteSet(Active(new))
    <3>1. Active(new) \in SUBSET Tasks
      BY DEF Active
    <3> QED BY <3>1, TasksAssumption, FS_Subset
  <2> QED BY <2>1, FS_Subset
<1>3. X \in Nat /\ Y \in Nat /\ X <= Y
  BY <1>1, <1>2
<1>4. PerSubquestion * X <= PerSubquestion * Y
  BY <1>3, Monotone
<1>5. PerSubquestion * X \in Nat /\ PerSubquestion * Y \in Nat
  BY <1>3
<1> HIDE DEF A, B, X, Y
<1>6. /\ EffectiveLimit(st) =
           LET raised == SearchLimit + PerSubquestion * X
               capped == IF raised <= LimitCap THEN raised ELSE LimitCap
           IN IF SearchLimit >= capped THEN SearchLimit ELSE capped
      /\ EffectiveLimit(new) =
           LET raised == SearchLimit + PerSubquestion * Y
               capped == IF raised <= LimitCap THEN raised ELSE LimitCap
           IN IF SearchLimit >= capped THEN SearchLimit ELSE capped
  BY DEF EffectiveLimit, A, B, X, Y
<1> QED BY <1>4, <1>5, <1>6

LEMMA LimitIsBounded ==
  ASSUME NEW st
  PROVE  EffectiveLimit(st) <= SearchLimit \/ EffectiveLimit(st) <= LimitCap
BY ActiveIsFinite DEF EffectiveLimit

-----------------------------------------------------------------------------
(* The actions *)

LEMMA InitLoopInv == Init => LoopInv
<1> SUFFICES ASSUME Init PROVE LoopInv
  OBVIOUS
<1>1. rounds <= EffectiveLimit(status)
  BY LimitIsNat DEF Init
<1>2. TypeOK
  <2>1. turn \in 0 .. MaxTurns /\ formatErrors \in 0 .. MaxFormatErrors
    BY DEF Init
  <2>2. status \in [Tasks -> {"absent", "open", "covered"}]
    BY DEF Init
  <2>3. previous \subseteq Queries /\ cached \subseteq Queries /\ pending \subseteq Specs
    BY DEF Init
  <2>4. score \in Scores /\ declared \subseteq Tasks /\ unmet \subseteq Tasks
    BY DEF Init
  <2> QED BY <2>1, <2>2, <2>3, <2>4 DEF Init, TypeOK, Answers
<1>3. TurnsLeft /\ RoundHasRoom /\ LastRoundIsShown /\ PatienceBounded
  BY DEF Init, TurnsLeft, RoundHasRoom, LastRoundIsShown, PatienceBounded
<1>4. AskedIsSent
  BY DEF Init, AskedIsSent
<1>5. ForcedInTurn /\ GivesUpForAReason /\ AnswerIsLast
  BY DEF Init, ForcedInTurn, GivesUpForAReason, AnswerIsLast
<1>6. UnmetAreOpen
  BY DEF Init, UnmetAreOpen
<1> QED BY <1>1, <1>2, <1>3, <1>4, <1>5, <1>6 DEF LoopInv

\* A text never makes a task absent, so that the limit stands or grows.
LEMMA TextsKeepTheLimit ==
  ASSUME TypeOK, NEW said \in Outputs
  PROVE  /\ StatusAfter(said) \in [Tasks -> {"absent", "open", "covered"}]
         /\ EffectiveLimit(status) <= EffectiveLimit(StatusAfter(said))
<1>1. Active(status) \subseteq Active(StatusAfter(said))
  BY DEF Active, StatusAfter, TypeOK
<1>2. StatusAfter(said) \in [Tasks -> {"absent", "open", "covered"}]
  BY DEF StatusAfter, TypeOK
<1> QED BY <1>1, <1>2, LimitGrows

\* A text with tags, whether the model wrote it or the loop searches anyway.
LEMMA ActKeeps ==
  ASSUME LoopInv, pc = "model", turn' = turn + 1, NEW said \in Outputs, Act(said)
  PROVE  LoopInv'
<1> DEFINE searches == Allowed(said)
           gated == said.answer /\ searches = {} /\ ~said.fetch
<1>0. /\ TypeOK /\ TurnsLeft /\ rounds <= EffectiveLimit(status) /\ RoundHasRoom
      /\ LastRoundIsShown /\ AskedIsSent /\ PatienceBounded /\ ForcedInTurn
      /\ GivesUpForAReason /\ AnswerIsLast /\ UnmetAreOpen
  BY DEF LoopInv
<1>1. /\ formatErrors' = 0 /\ status' = StatusAfter(said)
      /\ declared' = said.declared /\ UNCHANGED <<evidence, attempted, asked>>
      /\ decision' = IF said.decision = "absent" THEN decision
                                                ELSE said.decision = "answer"
  BY DEF Act
<1>2. /\ status' \in [Tasks -> {"absent", "open", "covered"}]
      /\ EffectiveLimit(status) <= EffectiveLimit(status')
      /\ EffectiveLimit(status) \in Nat /\ EffectiveLimit(status') \in Nat
  BY <1>0, <1>1, TextsKeepTheLimit, LimitIsNat
<1>3. searches \subseteq Specs
  BY DEF Allowed, Outputs
<1>4. turn' \in 0 .. MaxTurns /\ turn' = turn + 1
  BY <1>0 DEF TypeOK, TurnsLeft
<1>5. rounds' <= EffectiveLimit(status') /\ LastRoundIsShown'
  BY <1>0, <1>1, <1>2 DEF evidence, LastRoundIsShown, TypeOK
<1>6. asked' = 0 /\ ~attempted' /\ attempted' \in BOOLEAN
  BY <1>0, <1>1 DEF ForcedInTurn, TypeOK
<1>7. /\ rounds' \in Nat /\ found' \in Nat /\ score' \in Scores /\ withheld' \in BOOLEAN
      /\ evaluation' \in {"none", "insufficient", "sufficient"}
      /\ previous' \subseteq Queries /\ cached' \subseteq Queries
  BY <1>0, <1>1 DEF TypeOK, evidence
<1>8. declared' \subseteq Tasks /\ decision' \in BOOLEAN /\ unmet' \subseteq Tasks
  <2>1. NamedIn(said) \subseteq Tasks
    BY DEF NamedIn, Outputs, Specs
  <2> QED BY <1>0, <1>1, <2>1 DEF TypeOK, Outputs, Act
<1>9. formatErrors' \in 0 .. MaxFormatErrors /\ formatErrors' < MaxFormatErrors
  BY <1>1
<1>10. asked' \in Nat /\ attempted' \in BOOLEAN
  BY <1>6
<1>11. UnmetAreOpen'
  <2>1. /\ said.declared \subseteq Tasks /\ NamedIn(said) \subseteq Tasks
        /\ unmet' = unmet \union said.declared \union {k \in NamedIn(said) : status[k] = "absent"}
    BY DEF Act, Outputs, NamedIn, Specs
  <2>2. \A k \in Tasks : status'[k] = "open" <=>
          k \in said.declared \/ (k \in NamedIn(said) /\ status[k] = "absent") \/ status[k] = "open"
    BY <1>1 DEF StatusAfter
  <2> QED BY <1>0, <2>1, <2>2 DEF UnmetAreOpen
<1>12. CASE gated
  <2>1. Gate /\ UNCHANGED pending
    BY <1>12 DEF Act
  <2>2. /\ answer' \in Answers
        /\ pc' \in {"ended", "model"}
        /\ exit' \in {"max_turns", "answered", "format_error_limit", "no_action"}
    BY <1>0, <2>1 DEF Gate, Break, NextTurn, TypeOK, Answers
  <2>3. rejections' \in Nat /\ rejections' <= MaxRejections
    BY <1>0, <2>1 DEF Gate, Patient, PatienceBounded, TypeOK
  <2>4. pending' \subseteq Specs
    BY <1>0, <2>1 DEF TypeOK
  <2>5. TypeOK'
    BY <1>2, <1>4, <1>7, <1>8, <1>9, <1>10, <2>2, <2>3, <2>4 DEF TypeOK
  <2>6. TurnsLeft'
    BY <1>4, <1>9, <2>1, <2>2 DEF Gate, Break, NextTurn, TurnsLeft
  <2>7. AnswerIsLast'
    <3>1. CASE answer' = "internal"
      BY <2>1, <3>1, <1>1 DEF Gate, Internal, AnswerIsLast, Break, evidence
    <3>2. CASE answer' = "accepted"
      BY <2>1, <3>2, <1>1 DEF Gate, Convinced, AnswerIsLast, Break, evidence
    <3>3. CASE answer' = "overruled"
      BY <1>0, <2>1, <3>3 DEF Gate, Patient, PatienceBounded, AnswerIsLast, Break, TypeOK
    <3>4. CASE answer' = "none"
      BY <3>4 DEF AnswerIsLast
    <3> QED BY <2>1, <3>1, <3>2, <3>3, <3>4 DEF Gate
  <2>8. AskedIsSent'
    BY <1>0, <1>1, <2>1 DEF AskedIsSent, evidence
  <2>9. RoundHasRoom' /\ GivesUpForAReason'
    BY <1>6, <2>2 DEF RoundHasRoom, GivesUpForAReason
  <2>10. ForcedInTurn'
    BY <1>6, <2>2 DEF ForcedInTurn
  <2> QED BY <1>5, <2>3, <2>5, <2>6, <2>7, <2>8, <2>9, <2>10, <1>11 DEF LoopInv, PatienceBounded
<1>13. CASE ~gated
  <2>1. /\ answer' = IF said.answer THEN "candidate" ELSE answer
        /\ UNCHANGED <<rejections, exit>>
        /\ IF searches = {}
           THEN NextTurn(turn + 1) /\ UNCHANGED pending
           ELSE pc' = "retrieving" /\ pending' = searches
    BY <1>13 DEF Act
  <2>2. AnswerIsLast'
    BY <1>0, <2>1 DEF AnswerIsLast
  <2>3. answer' \in Answers /\ rejections' \in Nat /\ PatienceBounded'
    BY <1>0, <2>1 DEF TypeOK, Answers, PatienceBounded
  <2>4. exit' \in {"max_turns", "answered", "format_error_limit", "no_action"}
    BY <1>0, <2>1 DEF TypeOK
  <2>5. pc' \in {"ended", "model", "retrieving"} /\ pending' \subseteq Specs
    BY <1>0, <1>3, <2>1 DEF NextTurn, TypeOK
  <2>6. TypeOK'
    BY <1>2, <1>4, <1>7, <1>8, <1>9, <1>10, <2>3, <2>4, <2>5 DEF TypeOK
  <2>7. TurnsLeft'
    BY <1>4, <1>9, <2>1 DEF NextTurn, TurnsLeft
  <2>8. RoundHasRoom' /\ AskedIsSent'
    <3>1. CASE searches = {}
      BY <1>0, <1>1, <2>1, <3>1 DEF RoundHasRoom, AskedIsSent, evidence, NextTurn
    <3>2. CASE searches # {}
      <4>1. rounds < EffectiveLimit(status') /\ \A s \in searches : s.query \notin previous
        BY <3>2, <1>0, <1>1, <1>2 DEF Allowed, TypeOK
      <4>2. pending' = searches /\ cached' = cached /\ previous' = previous /\ rounds' = rounds
        BY <1>1, <2>1, <3>2 DEF evidence
      <4> HIDE DEF searches
      <4> QED BY <1>0, <4>1, <4>2 DEF RoundHasRoom, AskedIsSent
    <3> QED BY <3>1, <3>2
  <2>9. GivesUpForAReason'
    BY <1>6, <2>5 DEF GivesUpForAReason
  <2>10. ForcedInTurn'
    BY <1>6, <2>5 DEF ForcedInTurn
  <2> QED BY <1>5, <2>2, <2>3, <2>6, <2>7, <2>8, <2>9, <2>10, <1>11 DEF LoopInv
<1> QED BY <1>12, <1>13

\* A text without a tag.
LEMMA SilenceKeeps ==
  ASSUME LoopInv, Silence
  PROVE  LoopInv'
<1>0. /\ TypeOK /\ TurnsLeft /\ rounds <= EffectiveLimit(status) /\ RoundHasRoom
      /\ LastRoundIsShown /\ AskedIsSent /\ PatienceBounded /\ ForcedInTurn
      /\ GivesUpForAReason /\ AnswerIsLast /\ UnmetAreOpen
  BY DEF LoopInv
<1>1. /\ pc = "model" /\ turn' = turn + 1 /\ formatErrors' = formatErrors + 1
      /\ declared' = {}
      /\ UNCHANGED <<status, unmet, decision, evidence, pending, answer, asked>>
  BY DEF Silence
<1>2. /\ pc' \in {"model", "ended", "forcing"}
      /\ rejections' \in Nat /\ rejections' <= MaxRejections
      /\ attempted' \in BOOLEAN
      /\ exit' \in {"max_turns", "answered", "format_error_limit", "no_action"}
  <2>1. /\ rejections' = rejections \/ (Patient /\ rejections' = rejections + 1)
        /\ attempted' = attempted \/ attempted' = TRUE
        /\ pc' \in {"model", "ended", "forcing"}
        /\ exit' = exit \/ exit' = "format_error_limit" \/ exit' = "no_action"
    <3>1. CASE LastError
      BY <3>1 DEF Silence, DeadEnd
    <3>2. CASE ~LastError /\ ~Convinced(status) /\ Patient
      BY <3>2 DEF Silence, NextTurn
    <3>3. CASE ~LastError /\ (Convinced(status) \/ ~Patient)
      BY <3>3 DEF Silence, DeadEnd
    <3> QED BY <3>1, <3>2, <3>3
  <2>2. rejections' \in Nat /\ rejections' <= MaxRejections
    <3>1. rejections \in Nat /\ rejections <= MaxRejections
      BY <1>0 DEF PatienceBounded, TypeOK
    <3>2. rejections' = rejections \/ (rejections < MaxRejections /\ rejections' = rejections + 1)
      BY <2>1 DEF Patient
    <3> QED BY <3>1, <3>2
  <2>3. attempted' \in BOOLEAN
    BY <1>0, <2>1 DEF TypeOK
  <2>4. exit' \in {"max_turns", "answered", "format_error_limit", "no_action"}
    BY <1>0, <2>1 DEF TypeOK
  <2> QED BY <2>1, <2>2, <2>3, <2>4
<1>3. turn' \in 0 .. MaxTurns /\ formatErrors' \in 0 .. MaxFormatErrors
  BY <1>0, <1>1 DEF TypeOK, TurnsLeft
<1>4. TypeOK'
  BY <1>0, <1>1, <1>2, <1>3 DEF TypeOK, evidence
<1>5. TurnsLeft'
  BY <1>0, <1>1, <1>3 DEF Silence, DeadEnd, NextTurn, LastError, TurnsLeft, TypeOK
<1>6. rounds' <= EffectiveLimit(status') /\ LastRoundIsShown' /\ RoundHasRoom'
  BY <1>0, <1>1, <1>2 DEF evidence, LastRoundIsShown, RoundHasRoom
<1>7. AskedIsSent' /\ GivesUpForAReason'
  BY <1>0, <1>1, <1>2 DEF AskedIsSent, GivesUpForAReason, evidence
<1>8. ForcedInTurn'
  <2>1. asked' = 0 /\ found' = found /\ answer' = answer /\ ~attempted
    BY <1>0, <1>1 DEF ForcedInTurn, evidence
  <2>2. \/ pc' \in {"model", "ended"} /\ attempted' = attempted
        \/ pc' = "ended" /\ found = 0
        \/ pc' = "forcing" /\ attempted' = TRUE /\ found # 0 /\ answer = "none"
    <3>1. CASE LastError
      BY <3>1 DEF Silence, DeadEnd
    <3>2. CASE ~LastError /\ ~Convinced(status) /\ Patient
      BY <3>2 DEF Silence, NextTurn
    <3>3. CASE ~LastError /\ (Convinced(status) \/ ~Patient)
      BY <3>3 DEF Silence, DeadEnd
    <3> QED BY <3>1, <3>2, <3>3
  <2>3. CASE pc' \in {"model", "ended"} /\ attempted' = attempted
    BY <2>1, <2>3 DEF ForcedInTurn
  <2>4. CASE pc' = "ended" /\ found = 0
    BY <2>1, <2>4 DEF ForcedInTurn
  <2>5. CASE pc' = "forcing" /\ attempted' = TRUE /\ found # 0 /\ answer = "none"
    <3>1. found \in Nat
      BY <1>0 DEF TypeOK
    <3>2. found' > 0 /\ answer' = "none" /\ attempted' /\ asked' = 0
      BY <2>1, <2>5, <3>1
    <3> QED BY <2>5, <3>2 DEF ForcedInTurn
  <2> QED BY <2>2, <2>3, <2>4, <2>5
<1>9. AnswerIsLast'
  BY <1>0, <1>1 DEF AnswerIsLast
<1>10. UnmetAreOpen'
  BY <1>0, <1>1 DEF UnmetAreOpen
<1> QED BY <1>2, <1>4, <1>5, <1>6, <1>7, <1>8, <1>9, <1>10 DEF LoopInv, PatienceBounded

\* A round never makes a task absent either.
LEMMA RoundsKeepTheLimit ==
  ASSUME TypeOK, NEW results \in Findings,
         status' = Judged(results) \/ status' = status
  PROVE  /\ status' \in [Tasks -> {"absent", "open", "covered"}]
         /\ EffectiveLimit(status) <= EffectiveLimit(status')
<1>1. status' \in [Tasks -> {"absent", "open", "covered"}]
  BY DEF Judged, TypeOK
<1>2. Active(status) \subseteq Active(status')
  <2>1. CASE status' = Judged(results)
    BY <2>1 DEF Active, Judged
  <2>2. CASE status' = status
    BY <2>2
  <2> QED BY <2>1, <2>2
<1> QED BY <1>1, <1>2, LimitGrows

\* A round of searches.
LEMMA RetrieveKeeps ==
  ASSUME LoopInv, NEW results \in Findings,
         NEW judgement \in {"insufficient", "sufficient"}, NEW level \in Scores,
         Retrieve(results, judgement, level)
  PROVE  LoopInv'
<1>0. /\ TypeOK /\ TurnsLeft /\ rounds <= EffectiveLimit(status) /\ RoundHasRoom
      /\ LastRoundIsShown /\ AskedIsSent /\ PatienceBounded /\ ForcedInTurn
      /\ GivesUpForAReason /\ AnswerIsLast /\ UnmetAreOpen
  BY DEF LoopInv
<1>1. /\ pc = "retrieving" /\ rounds' = rounds + 1 /\ rejections' = 0 /\ pending' = {}
      /\ previous' = previous \union {s.query : s \in pending}
      /\ cached' = cached \union {s.query : s \in pending}
      /\ NextTurn(turn)
      /\ UNCHANGED <<turn, declared, decision, formatErrors, answer, ending>>
  BY DEF Retrieve, AskedIn
<1>2. status' = Judged(results) \/ status' = status
  BY DEF Retrieve
<1>3. /\ status' \in [Tasks -> {"absent", "open", "covered"}]
      /\ EffectiveLimit(status) <= EffectiveLimit(status')
      /\ EffectiveLimit(status) \in Nat /\ EffectiveLimit(status') \in Nat
  BY <1>0, <1>2, RoundsKeepTheLimit, LimitIsNat
<1>4. rounds' <= EffectiveLimit(status')
  BY <1>0, <1>1, <1>3 DEF RoundHasRoom, TypeOK
<1>5. LastRoundIsShown'
  <2>1. withheld' = Plateau(rounds', score' - score, evaluation', status')
    BY DEF Retrieve
  <2> QED BY <2>1 DEF Plateau, LastRoundIsShown
<1>6. /\ evaluation' \in {"none", "insufficient", "sufficient"}
      /\ found' \in Nat /\ score' \in Scores
  BY <1>0 DEF Retrieve, TypeOK
<1>7. withheld' \in BOOLEAN
  <2>1. withheld' = Plateau(rounds', score' - score, evaluation', status')
    BY DEF Retrieve
  <2> QED BY <2>1 DEF Plateau
<1>8. previous' \subseteq Queries /\ cached' \subseteq Queries
  BY <1>0, <1>1 DEF TypeOK, Specs
<1>9. pc' \in {"model", "ended"} /\ (pc' = "model" => turn' < MaxTurns)
  BY <1>0, <1>1 DEF NextTurn, TypeOK
<1>10. unmet' \subseteq Tasks /\ UnmetAreOpen'
  <2>1. Searched \subseteq Tasks /\ Met(results) \subseteq Searched
    BY <1>0 DEF Searched, Met, TypeOK, Specs
  <2>2. CASE status' = Judged(results) /\ unmet' = (unmet \union Searched) \ Met(results)
    <3>1. ASSUME NEW k \in Tasks
          PROVE  status'[k] = "open" <=> k \in unmet'
      <4>1. k \in Searched <=> \E s \in pending : s.task = k
        BY NoTaskAssumption DEF Searched
      <4>2. k \in Met(results) <=>
              k \in Searched /\ \A s \in pending : s.task = k => results[s] = "strong"
        BY DEF Met
      <4>3. status'[k] = IF k \in Searched
                         THEN IF k \in Met(results) THEN "covered" ELSE "open"
                         ELSE status[k]
        BY <2>2, <4>1, <4>2 DEF Judged
      <4>4. status[k] = "open" <=> k \in unmet
        BY <1>0 DEF UnmetAreOpen
      <4> QED BY <2>1, <2>2, <4>3, <4>4
    <3> QED BY <1>0, <2>1, <2>2, <3>1 DEF UnmetAreOpen, TypeOK
  <2>3. CASE status' = status /\ unmet' = unmet
    BY <1>0, <2>3 DEF UnmetAreOpen, TypeOK
  <2> QED BY <2>2, <2>3 DEF Retrieve
<1>11. TypeOK'
  <2>1. /\ turn' \in 0 .. MaxTurns /\ declared' \subseteq Tasks /\ decision' \in BOOLEAN
        /\ formatErrors' \in 0 .. MaxFormatErrors /\ answer' \in Answers
    BY <1>0, <1>1 DEF TypeOK
  <2>2. /\ attempted' \in BOOLEAN /\ asked' \in Nat
        /\ exit' \in {"max_turns", "answered", "format_error_limit", "no_action"}
    BY <1>0, <1>1 DEF TypeOK, ending
  <2>3. rounds' \in Nat /\ rejections' \in Nat /\ pending' \subseteq Specs
    BY <1>0, <1>1 DEF TypeOK
  <2> QED BY <1>3, <1>6, <1>7, <1>8, <1>9, <1>10, <2>1, <2>2, <2>3 DEF TypeOK
<1>12. TurnsLeft'
  BY <1>0, <1>1, <1>9 DEF TurnsLeft
<1>13. RoundHasRoom' /\ AskedIsSent' /\ PatienceBounded'
  BY <1>0, <1>1, <1>9 DEF RoundHasRoom, AskedIsSent, PatienceBounded
<1>14. asked' = 0 /\ ~attempted'
  BY <1>0, <1>1 DEF ForcedInTurn, ending
<1>15. ForcedInTurn'
  BY <1>9, <1>14 DEF ForcedInTurn
<1>16. GivesUpForAReason'
  BY <1>9, <1>14 DEF GivesUpForAReason
<1>17. AnswerIsLast'
  BY <1>0, <1>1 DEF AnswerIsLast
<1> QED BY <1>4, <1>5, <1>11, <1>12, <1>13, <1>15, <1>16, <1>17, <1>10 DEF LoopInv

\* The end of the run, by any of its steps.
LEMMA EndingKeeps ==
  ASSUME LoopInv, ForcedAtDeadEnd \/ LoopEnds \/ ForcedAtLast \/ Raise
  PROVE  LoopInv'
<1>0. /\ TypeOK /\ TurnsLeft /\ rounds <= EffectiveLimit(status) /\ RoundHasRoom
      /\ LastRoundIsShown /\ AskedIsSent /\ PatienceBounded /\ ForcedInTurn
      /\ GivesUpForAReason /\ AnswerIsLast /\ UnmetAreOpen
  BY DEF LoopInv
<1>1. UNCHANGED <<turn, status, declared, unmet, decision, rejections, formatErrors,
                  evidence, pending, attempted, exit>>
  BY DEF ForcedAtDeadEnd, LoopEnds, ForcedAtLast, Raise, Forced, ending
<1>2. /\ pc' \in {"ended", "last_call", "done", "raised"}
      /\ answer' = answer \/ answer' = "forced" \/ answer' = "none"
      /\ asked' = asked \/ asked' = asked + 1
  BY DEF ForcedAtDeadEnd, LoopEnds, ForcedAtLast, Raise, Forced, ending
<1>3. TypeOK'
  <2>1. answer' \in Answers /\ asked' \in Nat
    <3>1. answer \in Answers /\ asked \in Nat
      BY <1>0 DEF TypeOK
    <3>2. asked' \in Nat
      <4>1. asked' = asked \/ asked' = asked + 1
        BY <1>2
      <4> QED BY <3>1, <4>1
    <3>3. answer' \in Answers
      BY <1>2, <3>1 DEF Answers
    <3> QED BY <3>2, <3>3
  <2> QED BY <1>0, <1>1, <1>2, <2>1 DEF TypeOK, evidence
<1>4. TurnsLeft' /\ rounds' <= EffectiveLimit(status') /\ RoundHasRoom'
      /\ LastRoundIsShown' /\ AskedIsSent' /\ PatienceBounded' /\ UnmetAreOpen'
  BY <1>0, <1>1, <1>2 DEF TurnsLeft, RoundHasRoom, LastRoundIsShown, AskedIsSent,
                          PatienceBounded, UnmetAreOpen, evidence
<1>5. found' = found /\ found \in Nat /\ attempted' = attempted /\ asked \in Nat
  BY <1>0, <1>1 DEF evidence, TypeOK
<1>6. ForcedInTurn' /\ GivesUpForAReason' /\ AnswerIsLast'
  <2>1. ASSUME NEW place \in {"ended", "done"}, NEW given \in BOOLEAN,
               Forced(given, place), found > 0, asked = 0,
               place = "ended" => attempted
        PROVE  ForcedInTurn' /\ GivesUpForAReason' /\ AnswerIsLast'
    <3>1. /\ pc' = place /\ asked' = 1
          /\ answer' = "forced" \/ answer' = "none"
      BY <2>1 DEF Forced
    <3>2. ForcedInTurn'
      BY <1>5, <2>1, <3>1 DEF ForcedInTurn
    <3>3. GivesUpForAReason'
      BY <3>1 DEF GivesUpForAReason
    <3>4. AnswerIsLast'
      BY <1>5, <2>1, <3>1 DEF AnswerIsLast
    <3> QED BY <3>2, <3>3, <3>4
  <2>2. CASE ForcedAtDeadEnd
    BY <1>0, <2>1, <2>2 DEF ForcedAtDeadEnd, ForcedInTurn
  <2>3. CASE ForcedAtLast
    BY <1>0, <2>1, <2>3 DEF ForcedAtLast, ForcedInTurn
  <2>4. CASE LoopEnds
    <3>1. pc = "ended" /\ asked' = asked /\ answer' = answer
      BY <2>4 DEF LoopEnds, ending
    <3>2. AnswerIsLast'
      <4>1. Active(status') = Active(status) /\ rounds' = rounds /\ evaluation' = evaluation
            /\ rejections' = rejections /\ status' = status
        BY <1>1 DEF evidence
      <4>2. answer # "none" => pc' = "done"
        BY <2>4 DEF LoopEnds, MissingAnswer
      <4> QED BY <1>0, <1>5, <3>1, <4>1, <4>2 DEF AnswerIsLast
    <3>3. CASE pc' = "last_call"
      <4>1. asked = 0 /\ found > 0 /\ answer = "none"
        BY <1>0, <2>4, <3>1, <3>3 DEF LoopEnds, MissingAnswer, ForcedInTurn
      <4>2. asked' = 0 /\ found' > 0 /\ answer' = "none"
        BY <1>5, <3>1, <4>1
      <4> QED BY <3>2, <3>3, <4>2 DEF ForcedInTurn, GivesUpForAReason
    <3>4. CASE pc' = "done"
      <4>1. ForceAnswer /\ answer = "none" => found = 0 \/ asked = 1
        BY <1>0, <1>5, <2>4, <3>1, <3>4 DEF LoopEnds, MissingAnswer, ForcedInTurn
      <4>2. GivesUpForAReason'
        BY <1>0, <1>5, <3>1, <3>4, <4>1 DEF GivesUpForAReason
      <4> QED BY <3>2, <3>4, <4>2 DEF ForcedInTurn
    <3> QED BY <2>4, <3>3, <3>4 DEF LoopEnds
  <2>5. CASE Raise
    <3>1. /\ pc' = "raised" /\ asked' = asked /\ answer' = answer
          /\ pc \in {"model", "retrieving", "forcing", "last_call"}
      BY <2>5 DEF Raise, ending
    <3>2. answer \notin {"internal", "accepted", "overruled", "forced"}
      BY <1>0, <3>1 DEF AnswerIsLast
    <3>3. ForcedInTurn' /\ AnswerIsLast'
      BY <3>1, <3>2 DEF ForcedInTurn, AnswerIsLast
    <3>4. GivesUpForAReason'
      BY <1>0, <1>5, <3>1 DEF GivesUpForAReason
    <3> QED BY <3>3, <3>4
  <2> QED BY <2>2, <2>3, <2>4, <2>5
<1> QED BY <1>3, <1>4, <1>6 DEF LoopInv

LEMMA StutterKeeps == LoopInv /\ UNCHANGED vars => LoopInv'
<1> SUFFICES ASSUME LoopInv, UNCHANGED vars PROVE LoopInv'
  OBVIOUS
<1>1. UNCHANGED <<pc, turn, status, declared, unmet, decision, rejections, formatErrors>>
      /\ UNCHANGED <<rounds, found, evaluation, score, withheld, previous, cached>>
      /\ UNCHANGED <<pending, answer, attempted, asked, exit>>
  BY DEF vars, evidence, ending
<1>2. TypeOK' /\ TurnsLeft' /\ PatienceBounded' /\ UnmetAreOpen'
  BY <1>1 DEF LoopInv, TypeOK, TurnsLeft, PatienceBounded, UnmetAreOpen
<1>3. rounds' <= EffectiveLimit(status') /\ RoundHasRoom' /\ LastRoundIsShown'
  BY <1>1 DEF LoopInv, RoundHasRoom, LastRoundIsShown
<1>4. AskedIsSent' /\ GivesUpForAReason'
  BY <1>1 DEF LoopInv, AskedIsSent, GivesUpForAReason
<1>5. ForcedInTurn'
  BY <1>1 DEF LoopInv, ForcedInTurn
<1>6. AnswerIsLast'
  BY <1>1 DEF LoopInv, AnswerIsLast
<1> QED BY <1>2, <1>3, <1>4, <1>5, <1>6 DEF LoopInv

\* The inductive invariant: typing, room for the round under way, what was
\* sent is what was asked, and where each kind of answer can still stand.
THEOREM LoopInvariant == Spec => []LoopInv
<1>1. LoopInv /\ [Next]_vars => LoopInv'
  <2> SUFFICES ASSUME LoopInv, [Next]_vars PROVE LoopInv'
    OBVIOUS
  <2>1. ASSUME NEW said \in Texts, Speak(said) PROVE LoopInv'
    BY <2>1, TextsAssumption, ActKeeps DEF Speak
  <2>2. CASE SearchAnyway
    <3>1. AutoSearch \in Outputs
      BY QuestionAssumption DEF AutoSearch, Outputs, Specs
    <3> QED BY <2>2, <3>1, ActKeeps DEF SearchAnyway
  <2>3. CASE Silence
    BY <2>3, SilenceKeeps
  <2>4. CASE Search
    BY <2>4, RetrieveKeeps DEF Search
  <2>5. CASE ForcedAtDeadEnd \/ LoopEnds \/ ForcedAtLast \/ Raise
    BY <2>5, EndingKeeps
  <2>6. CASE UNCHANGED vars
    BY <2>6, StutterKeeps
  <2> QED BY <2>1, <2>2, <2>3, <2>4, <2>5, <2>6 DEF Next
<1> QED BY <1>1, InitLoopInv, PTL DEF Spec

-----------------------------------------------------------------------------
(* What follows *)

\* Every state of a run is well typed; the loop never outlives MaxTurns.
THEOREM TypeCorrect == Spec => []TypeOK
<1>1. LoopInv => TypeOK
  BY DEF LoopInv
<1> QED BY <1>1, LoopInvariant, PTL

\* The rounds stay within the budget, however many tasks the texts name.
THEOREM RoundsAreBudgeted == Spec => []BudgetHolds
<1>1. LoopInv => BudgetHolds
  <2> SUFFICES ASSUME LoopInv PROVE BudgetHolds
    OBVIOUS
  <2>1. rounds \in Nat /\ rounds <= EffectiveLimit(status) /\ EffectiveLimit(status) \in Nat
    BY LimitIsNat DEF LoopInv, TypeOK
  <2> QED BY <2>1, LimitIsBounded DEF BudgetHolds
<1> QED BY <1>1, LoopInvariant, PTL

\* No two rounds retrieve the same query, so that search_cache is never hit; one
\* round may send a query twice, under two prefixes.
THEOREM SearchCacheIsNeverHit == Spec => []NothingAskedTwice
<1>1. LoopInv => NothingAskedTwice
  BY DEF LoopInv, AskedIsSent, NothingAskedTwice
<1> QED BY <1>1, LoopInvariant, PTL

\* The model is sent back at most MaxRejections times between two rounds.
THEOREM PatienceEnds == Spec => []PatienceBounded
<1>1. LoopInv => PatienceBounded
  BY DEF LoopInv
<1> QED BY <1>1, LoopInvariant, PTL

\* The documents of the last round within the budget reach the model.
THEOREM LastRoundReachesModel == Spec => []LastRoundIsShown
<1>1. LoopInv => LastRoundIsShown
  BY DEF LoopInv
<1> QED BY <1>1, LoopInvariant, PTL

\* An answer without sufficient evidence has one of four reasons; a task that a
\* text declared or named is covered only by a round that answered it since.
THEOREM AnswersHaveGrounds == Spec => []AnswersAreEarned
<1>1. LoopInv => AnswersAreEarned
  <2> SUFFICES ASSUME LoopInv, RequireEvidence, ~(evaluation = "sufficient" /\ unmet = {})
               PROVE  /\ answer = "internal" => rounds = 0 /\ Active(status) = {}
                      /\ answer = "overruled" => rejections = MaxRejections
                      /\ answer = "forced" => found > 0
                      /\ answer # "accepted"
    BY DEF AnswersAreEarned
  <2>1. ~Sufficient(evaluation, status)
    <3>1. UnmetAreOpen
      BY DEF LoopInv
    <3>2. CASE unmet # {}
      <4>1. PICK k \in Tasks : status[k] = "open"
        BY <3>1, <3>2 DEF UnmetAreOpen
      <4> QED BY <4>1 DEF Sufficient, Active
    <3> QED BY <3>2 DEF Sufficient
  <2> QED BY <2>1 DEF LoopInv, AnswerIsLast
<1> QED BY <1>1, LoopInvariant, PTL

\* A run gives up only on an empty hand, or once the model declined.
THEOREM RunsGiveUpForAReason == Spec => []GivesUpForAReason
<1>1. LoopInv => GivesUpForAReason
  BY DEF LoopInv
<1> QED BY <1>1, LoopInvariant, PTL

\* A text that declares no subquestion and names no new one leaves them alone.
LEMMA QuietTextsKeepTasks ==
  ASSUME TypeOK, NEW said \in Outputs, said.declared = {},
         Active(StatusAfter(said)) = Active(status)
  PROVE  StatusAfter(said) = status
<1> SUFFICES ASSUME NEW k \in Tasks PROVE StatusAfter(said)[k] = status[k]
  BY DEF StatusAfter, TypeOK
<1>1. CASE k \in NamedIn(said) /\ status[k] = "absent"
  <2>1. k \in Active(StatusAfter(said))
    BY <1>1 DEF Active, StatusAfter
  <2>2. k \notin Active(status)
    BY <1>1 DEF Active
  <2> QED BY <2>1, <2>2
<1>2. CASE ~(k \in NamedIn(said) /\ status[k] = "absent")
  BY <1>2 DEF StatusAfter
<1> QED BY <1>1, <1>2

\* Sufficient evidence is given up for a new round or for new subquestions
\* only: no text that just repeats itself, and no dead end, undoes it.
THEOREM SufficientEvidenceIsKept == Spec => EvidenceIsKept
<1> DEFINE Kept ==
      Sufficient(evaluation, status) /\ ~Sufficient(evaluation, status)' =>
        \/ rounds' > rounds
        \/ Active(status') # Active(status)
        \/ declared' # {}
<1>1. LoopInv /\ [Next]_vars => [Kept]_vars
  <2> SUFFICES ASSUME LoopInv, Next PROVE Kept
    OBVIOUS
  <2>1. ASSUME NEW said \in Outputs, Act(said) PROVE Kept
    <3>1. /\ status' = StatusAfter(said) /\ declared' = said.declared
          /\ evaluation' = evaluation
      BY <2>1 DEF Act, evidence
    <3>2. CASE said.declared = {} /\ Active(StatusAfter(said)) = Active(status)
      <4>1. status' = status
        BY <3>1, <3>2, QuietTextsKeepTasks DEF LoopInv
      <4> QED BY <3>1, <4>1
    <3>3. CASE ~(said.declared = {} /\ Active(StatusAfter(said)) = Active(status))
      BY <3>1, <3>3
    <3> QED BY <3>2, <3>3
  <2>2. ASSUME NEW said \in Texts, Speak(said) PROVE Kept
    BY <2>1, <2>2, TextsAssumption DEF Speak
  <2>3. CASE SearchAnyway
    <3>1. AutoSearch \in Outputs
      BY QuestionAssumption DEF AutoSearch, Outputs, Specs
    <3> QED BY <2>1, <2>3, <3>1 DEF SearchAnyway
  <2>4. CASE Search
    <3>1. rounds' = rounds + 1
      BY <2>4 DEF Search, Retrieve
    <3> QED BY <3>1 DEF LoopInv, TypeOK
  <2>5. CASE Silence \/ ForcedAtDeadEnd \/ LoopEnds \/ ForcedAtLast \/ Raise
    <3>1. evaluation' = evaluation /\ status' = status
      BY <2>5 DEF Silence, ForcedAtDeadEnd, LoopEnds, ForcedAtLast, Raise, Forced, evidence
    <3> QED BY <3>1
  <2> QED BY <2>2, <2>3, <2>4, <2>5 DEF Next
<1> QED BY <1>1, LoopInvariant, PTL DEF Spec, EvidenceIsKept
=============================================================================
