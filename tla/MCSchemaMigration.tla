------------------------- MODULE MCSchemaMigration -------------------------
(***************************************************************************)
(* Three processes and builds of schema 1, 2 and 3, so that two builds     *)
(* race while a third opens what they leave; step 2 breaks older readers.  *)
(* The build of schema 4 has no migration to it.                           *)
(***************************************************************************)
EXTENDS SchemaMigration, TLC

CONSTANTS web, mcp, job

OpenerSymmetry == Permutations(Openers)
=============================================================================
