---------------------------- MODULE MCRunEvents ----------------------------
(***************************************************************************)
(* Two calls per batch and a queue of two: both questions fill it, or a    *)
(* trace takes the place one of them waits for.  Four events are started,  *)
(* so that two batches, or a batch among turns and traces, fit in a run.   *)
(***************************************************************************)
EXTENDS RunEvents, TLC

CONSTANTS c1, c2
=============================================================================
