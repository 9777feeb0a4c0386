---------------------------- MODULE MCSearchLoop ----------------------------
(***************************************************************************)
(* Two subquestions and a budget of one round: the second subquestion      *)
(* raises it by two, which the cap cuts to one.  Three queries, so that    *)
(* there is something left to ask when the budget is used up; at most two  *)
(* searches in a text.                                                     *)
(***************************************************************************)
EXTENDS SearchLoop

\* A fetch counts only beside an answer; the third query has no prefix.
const_Texts ==
  {said \in Outputs :
     /\ Cardinality(said.specs) <= 2
     /\ said.fetch => said.answer
     /\ \A s \in said.specs : s.query = "q3" => s.task = NoTask}
const_Scores == 0 .. 2
=============================================================================
