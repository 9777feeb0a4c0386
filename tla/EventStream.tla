----------------------------- MODULE EventStream -----------------------------
(***************************************************************************)
(* What the client of an agent run relies on (the promise of               *)
(* AgentRunDriver.run() in internal/servers/web/run_driver.py behind       *)
(* _with_heartbeat() of internal/servers/sse.py, free of queues, polls,    *)
(* yields and heartbeats).  The run makes events and ends in one of three  *)
(* ways.  The client receives the events in the order they were made, and, *)
(* when it has all of them, is told how the run ended: an answer only of a *)
(* run that returned, an error only of one that raised.  A stream is       *)
(* complete only behind that; until then the client may leave.             *)
(***************************************************************************)
EXTENDS Naturals

VARIABLES
  made,     \* the number of events the run has made
  run,      \* "running", or how the run ended
  got,      \* the number of events the client has received
  stage     \* "open"; what the client was told last; "complete" or "left"

streamVars == <<made, run, got, stage>>

Init ==
  /\ made = 0
  /\ run = "running"
  /\ got = 0
  /\ stage = "open"

Make ==
  /\ run = "running"
  /\ made' = made + 1
  /\ UNCHANGED <<run, got, stage>>

\* The run ends, by itself or cancelled, whoever is still there to hear of it.
End ==
  /\ run = "running"
  /\ run' \in {"returned", "raised", "cancelled"}
  /\ UNCHANGED <<made, got, stage>>

Deliver ==
  /\ stage = "open"
  /\ got < made
  /\ got' = got + 1
  /\ UNCHANGED <<made, run, stage>>

\* The client has every event there will be.
AllDelivered == run # "running" /\ got = made

\* finalize() makes two events of a result, on_error() one of a failure.
Tell ==
  \/ /\ stage = "open"
     /\ AllDelivered
     /\ \/ run = "returned" /\ stage' = "answer"
        \/ run = "raised" /\ stage' = "error"
     /\ UNCHANGED <<made, run, got>>
  \/ /\ stage = "answer"
     /\ stage' = "done"
     /\ UNCHANGED <<made, run, got>>

\* A run that was cancelled ends its stream without a word.
Complete ==
  /\ \/ stage \in {"done", "error"}
     \/ stage = "open" /\ AllDelivered /\ run = "cancelled"
  /\ stage' = "complete"
  /\ UNCHANGED <<made, run, got>>

Leave ==
  /\ stage \in {"open", "answer", "done", "error"}
  /\ stage' = "left"
  /\ UNCHANGED <<made, run, got>>

Next == Make \/ End \/ Deliver \/ Tell \/ Complete \/ Leave

Spec == Init /\ [][Next]_streamVars
=============================================================================
