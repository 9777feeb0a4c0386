----------------------------- MODULE MCToolLoop -----------------------------
(***************************************************************************)
(* Two parallel calls and two rounds of tools.  "lookup" is read-only,     *)
(* "corpus" is read-only and retries internally, "send" has side effects   *)
(* and "ghost" is a name the model made up.                                *)
(***************************************************************************)
EXTENDS ToolLoop

const_Tools == {"lookup", "corpus", "send", "ghost"}
const_Registered == const_Tools \ {"ghost"}
const_ReadOnly == {"lookup", "corpus"}
const_RetriesInternally == {"corpus"}
=============================================================================
