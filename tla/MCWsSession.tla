---------------------------- MODULE MCWsSession ----------------------------
(***************************************************************************)
(* Three runs on one socket: one to be cancelled, one that is started      *)
(* while the first unwinds, one after it.                                  *)
(***************************************************************************)
EXTENDS WsSession

CONSTANTS r1, r2, r3
=============================================================================
