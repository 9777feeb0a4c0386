--------------------------- MODULE MCMemoryIndex ---------------------------
(****************************************************************************)
(* Two memories to begin with, near-duplicates, near-duplicates labelled as *)
(* constraints or exact duplicates of a constraint, and one more to come;   *)
(* two curators, so that capture, of two memories at a time, meets a        *)
(* consolidation of either kind or a recall, and two consolidations meet;   *)
(* one write of the user's at any point, a new memory being classified by   *)
(* the store.                                                               *)
(****************************************************************************)
EXTENDS MemoryIndex

const_Ids == {"m1", "m2", "m3"}
const_Beginnings ==
  {[m1 |-> [text |-> b[1], cat |-> b[3]], m2 |-> [text |-> b[2], cat |-> b[3]]] :
     b \in {<<"likes tea", "loves tea", "general">>,
            <<"likes tea", "loves tea", "constraints">>,
            <<"no nuts", "no nuts", "general">>}}
const_Said == {}
const_Extractions == {<<<<"loves tea", "preferences">>, <<"no nuts", "general">>>>}
const_JobsOf == [c1 |-> {"capture", "after_turn"}, c2 |-> {"after_turn", "manual", "recall"}]
const_Curators == {"c1", "c2"}
const_Texts == {"likes tea", "loves tea", "no nuts"}
const_Fact == [t \in const_Texts |-> IF t = "no nuts" THEN "nuts" ELSE "tea"]
const_Tag == [t \in const_Texts |-> IF t = "no nuts" THEN Null ELSE "tea"]
const_ConstraintTexts == {"no nuts"}
const_Categories == {"constraints", "general", "preferences"}
=============================================================================
