---------------------------- MODULE MCWebSearch ----------------------------
(***************************************************************************)
(* Two lookups of one query share a cache of one entry, so that the legs   *)
(* evict each other's pages; a copy lives one tick fresh and one more in   *)
(* its grace window, a request lasts at most one, and an open breaker      *)
(* refuses for one.                                                        *)
(***************************************************************************)
EXTENDS WebSearch

CONSTANTS l1, l2, q1

const_Lookups == {l1, l2}
const_Queries == {q1}

=============================================================================
