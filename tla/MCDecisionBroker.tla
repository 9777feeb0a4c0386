-------------------------- MODULE MCDecisionBroker --------------------------
(***************************************************************************)
(* Three requests of two users: r1 and r2 share an id, so registration     *)
(* conflicts and reuse of a freed id happen; r3 has one of its own.  Two   *)
(* decisions, as in approval.  Two rejected submissions may be counted.    *)
(***************************************************************************)
EXTENDS DecisionBroker, TLC

CONSTANTS r1, r2, r3, i1, i2, alice, bob

const_IdOf == (r1 :> i1) @@ (r2 :> i1) @@ (r3 :> i2)
const_OwnerOf == (r1 :> alice) @@ (r2 :> bob) @@ (r3 :> alice)
=============================================================================
