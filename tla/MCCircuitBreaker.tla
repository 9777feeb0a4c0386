-------------------------- MODULE MCCircuitBreaker --------------------------
(***************************************************************************)
(* Three callers: one to trip the breaker, one to probe and one whose      *)
(* result arrives late.  A threshold of 2 tells "consecutive" from "any";  *)
(* OpenSeconds = 2 leaves an instant strictly inside the window.           *)
(***************************************************************************)
EXTENDS CircuitBreaker

CONSTANTS c1, c2, c3

const_Callers == {c1, c2, c3}
=============================================================================
