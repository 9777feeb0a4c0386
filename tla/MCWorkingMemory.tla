-------------------------- MODULE MCWorkingMemory --------------------------
(***************************************************************************)
(* Two overlapping turns, in one process or in two, and four messages of   *)
(* which at least the newest one is kept: a span can be cut, outrun, and   *)
(* deleted with the session while it is summarized.                        *)
(***************************************************************************)
EXTENDS WorkingMemory

CONSTANTS p1, p2, t1, t2
=============================================================================
