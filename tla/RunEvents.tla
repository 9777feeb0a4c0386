----------------------------- MODULE RunEvents -----------------------------
(***************************************************************************)
(* The events of one agent run on their way to a browser: AgentRunDriver   *)
(* of internal/servers/web/run_driver.py with its bounded queue,           *)
(* _request_human_decision() of app.py, which publishes a question on that *)
(* queue while the question's own timer runs, and _with_heartbeat() of     *)
(* internal/servers/sse.py, which carries the events out.                  *)
(*                                                                         *)
(* A step is what a task does between two awaits.  driver.run() is an      *)
(* async generator: it moves only while somebody waits for its next event, *)
(* and stands at its yield until the transport asks again.  wait_for() on  *)
(* queue.get() takes nothing from the queue when it times out.             *)
(*                                                                         *)
(* The agent is reduced to what it does to the queue: progress (waits for  *)
(* room), traces and claims (dropped without room), and batches of calls   *)
(* that each may ask the user.  The broker is DecisionBroker's; here a     *)
(* request is open until it is decided or expires.                         *)
(***************************************************************************)
EXTENDS Integers, Sequences

CONSTANTS
  Calls,        \* the tool calls of a batch, which run in parallel
  Capacity,     \* MAX_QUEUED_EVENTS
  MaxEvents     \* bound on the events the agent starts

ASSUME CapacityAssumption == Capacity \in Nat \ {0}
ASSUME MaxEventsAssumption == MaxEvents \in Nat

VARIABLES
  agent,        \* the agent task
  call,         \* where each call of the current batch is
  request,      \* the broker's request of each call
  publish,      \* the task that puts the question of each call
  queue,        \* driver.queue
  serial,       \* auxiliary: the number of events put on the queue
  dropped,      \* dropped_trace_events + dropped_claim_events
  gen,          \* where driver.run() is
  held,         \* what it has yielded and nobody has taken
  beat,         \* where _with_heartbeat() is
  frame,        \* the event it is sending
  sent,         \* auxiliary: the number of queued events the client received
  seen          \* auxiliary: the calls whose question the client received

vars == <<agent, call, request, publish, queue, serial, dropped,
          gen, held, beat, frame, sent, seen>>
runVars == <<agent, call, request, publish>>
genVars == <<gen, held>>
outVars == <<beat, frame, sent, seen>>

Ended == {"returned", "raised", "cancelled"}

\* An event of the queue has a serial number, and the call that asks with it;
\* the terminal events never were on the queue.
Events == [n : Nat \ {0}, what : Calls \union {"plain"}]
Nothing == [n |-> 0, what |-> "nothing"]
Terminal(what) == [n |-> 0, what |-> what]
Frames == Events \union {Nothing} \union {Terminal(w) : w \in {"answer", "done", "error"}}

ASSUME CallsAssumption ==
  Calls \intersect {"plain", "nothing", "answer", "done", "error"} = {}

TypeOK ==
  /\ agent \in {"running", "putting", "batch", "cancelling"} \union Ended
  /\ call \in [Calls -> {"idle", "calling", "asking", "finished"}]
  /\ request \in [Calls -> {"none", "new", "open", "closed"}]
  /\ publish \in [Calls -> {"none", "new", "blocked", "done"}]
  /\ queue \in Seq(Events)
  /\ Len(queue) <= Capacity
  /\ serial \in Nat
  /\ dropped \in Nat
  /\ gen \in {"getting", "yielded", "drained", "answered", "done", "erred",
              "closing", "over"}
  /\ held \in Frames
  /\ beat \in {"waiting", "comment", "sending", "exhausted", "leaving", "closed"}
  /\ frame \in Frames
  /\ sent \in Nat
  /\ seen \subseteq Calls

Init ==
  /\ agent = "running"
  /\ call = [c \in Calls |-> "idle"]
  /\ request = [c \in Calls |-> "none"]
  /\ publish = [c \in Calls |-> "none"]
  /\ queue = <<>>
  /\ serial = 0
  /\ dropped = 0
  /\ gen = "getting"
  /\ held = Nothing
  /\ beat = "waiting"
  /\ frame = Nothing
  /\ sent = 0
  /\ seen = {}

-----------------------------------------------------------------------------
(* The queue *)

HasRoom == Len(queue) < Capacity

Put(what) ==
  /\ queue' = Append(queue, [n |-> serial + 1, what |-> what])
  /\ serial' = serial + 1

MayStart == serial + dropped < MaxEvents

-----------------------------------------------------------------------------
(* The agent and its callbacks *)

\* on_turn: waits for room.
OnTurn ==
  /\ agent = "running"
  /\ MayStart
  /\ IF HasRoom THEN Put("plain") /\ UNCHANGED agent
                ELSE agent' = "putting" /\ UNCHANGED <<queue, serial>>
  /\ UNCHANGED <<call, request, publish, dropped, genVars, outVars>>

TurnPut ==
  /\ agent = "putting"
  /\ HasRoom
  /\ Put("plain")
  /\ agent' = "running"
  /\ UNCHANGED <<call, request, publish, dropped, genVars, outVars>>

\* Mutant: a trace or claim of a full queue replaces what was put last.
OfferReplacing ==
  IF HasRoom
  THEN Put("plain") /\ UNCHANGED dropped
  ELSE /\ queue' = [queue EXCEPT ![Len(queue)] = [n |-> serial + 1, what |-> "plain"]]
       /\ serial' = serial + 1
       /\ UNCHANGED dropped

\* put_nowait, or the drop is counted.
Offer ==
  IF HasRoom THEN Put("plain") /\ UNCHANGED dropped
             ELSE dropped' = dropped + 1 /\ UNCHANGED <<queue, serial>>

\* on_trace, and on_claim by way of the loop.
OnTraceOrClaim ==
  /\ agent \in {"running", "batch"}
  /\ MayStart
  /\ Offer
  /\ UNCHANGED <<runVars, genVars, outVars>>

StartBatch ==
  /\ agent = "running"
  /\ MayStart
  /\ agent' = "batch"
  /\ call' = [c \in Calls |-> "calling"]
  /\ request' = [c \in Calls |-> "none"]
  /\ publish' = [c \in Calls |-> "none"]
  /\ seen' = {}
  /\ UNCHANGED <<queue, serial, dropped, genVars, beat, frame, sent>>

\* A call that needs no answer, or has it, ends; gather() ends with the last,
\* and the loop reports the batch with on_turn.
CallEnds(c) ==
  /\ agent = "batch"
  /\ call[c] = "calling"
  /\ call' = [call EXCEPT ![c] = "finished"]
  /\ agent' = IF \A d \in Calls : call'[d] = "finished" THEN "putting" ELSE agent
  /\ UNCHANGED <<request, publish, queue, serial, dropped, genVars, outVars>>

\* The agent answers, fails, or a CancelledError of its own doing (a shutdown,
\* a library) ends its task as cancelled.
AgentEnds ==
  /\ agent = "running"
  /\ agent' \in Ended
  /\ UNCHANGED <<call, request, publish, queue, serial, dropped, genVars, outVars>>

-----------------------------------------------------------------------------
(* _request_human_decision *)

\* request_task and registration_task are created; a call asks once.
Ask(c) ==
  /\ agent = "batch"
  /\ call[c] = "calling"
  /\ request[c] = "none"
  /\ call' = [call EXCEPT ![c] = "asking"]
  /\ request' = [request EXCEPT ![c] = "new"]
  /\ UNCHANGED <<agent, publish, queue, serial, dropped, genVars, outVars>>

\* The broker registers the request and calls on_registered, which creates
\* the task that puts the question on the queue; or it refuses the id.
Register(c) ==
  /\ request[c] = "new"
  /\ \/ /\ request' = [request EXCEPT ![c] = "open"]
        /\ publish' = [publish EXCEPT ![c] = "new"]
     \/ /\ request' = [request EXCEPT ![c] = "closed"]
        /\ UNCHANGED publish
  /\ UNCHANGED <<agent, call, queue, serial, dropped, genVars, outVars>>

\* queue.put(event(view)), at once or when there is room again.
Publish(c) ==
  /\ publish[c] \in {"new", "blocked"}
  /\ IF HasRoom
     THEN Put(c) /\ publish' = [publish EXCEPT ![c] = "done"]
     ELSE /\ publish[c] = "new"
          /\ publish' = [publish EXCEPT ![c] = "blocked"]
          /\ UNCHANGED <<queue, serial>>
  /\ UNCHANGED <<agent, call, request, dropped, genVars, outVars>>

\* The user decides what the client showed.
Decide(c) ==
  /\ request[c] = "open"
  /\ c \in seen
  /\ request' = [request EXCEPT ![c] = "closed"]
  /\ UNCHANGED <<agent, call, publish, queue, serial, dropped, genVars, outVars>>

\* The broker's timer runs from the registration, whoever saw the question.
Expire(c) ==
  /\ request[c] = "open"
  /\ request' = [request EXCEPT ![c] = "closed"]
  /\ UNCHANGED <<agent, call, publish, queue, serial, dropped, genVars, outVars>>

\* Mutant: the question is left to be put later.
CancelledPublishKept(p) == p

\* The finally clause: a put that is not done is cancelled.
CancelledPublish(p) == IF p = "done" THEN p ELSE "none"

\* The request ended, and with it the wait for it or for the publication.
AskReturns(c) ==
  /\ agent = "batch"
  /\ call[c] = "asking"
  /\ request[c] = "closed"
  /\ call' = [call EXCEPT ![c] = "calling"]
  /\ publish' = [publish EXCEPT ![c] = CancelledPublish(publish[c])]
  /\ UNCHANGED <<agent, request, queue, serial, dropped, genVars, outVars>>

-----------------------------------------------------------------------------
(* The agent task is cancelled *)

\* CancelledError where the agent waits: a put is withdrawn, gather() cancels
\* its calls, and the finally of each question cancels its tasks.
AgentCancelled ==
  /\ agent = "cancelling"
  /\ agent' = "cancelled"
  /\ call' = [c \in Calls |-> "idle"]
  /\ request' = [c \in Calls |->
                   IF request[c] \in {"new", "open"} THEN "closed" ELSE request[c]]
  /\ publish' = [c \in Calls |-> CancelledPublish(publish[c])]
  /\ UNCHANGED <<queue, serial, dropped, genVars, outVars>>

-----------------------------------------------------------------------------
(* AgentRunDriver.run *)

\* Somebody waits for the next event: the generator may leave its yield.
Wanted == beat \in {"waiting", "comment"} /\ held = Nothing

\* Mutant: an agent that was cancelled is taken for one that returned.
ConcludeUnlessRaised ==
  \/ /\ agent # "raised"
     /\ held' = Terminal("answer")
     /\ gen' = "answered"
  \/ /\ agent = "raised"
     /\ held' = Terminal("error")
     /\ gen' = "erred"

\* Behind the loops: finalize(task.result()), on_error, or nothing at all.
Conclude ==
  \/ /\ agent = "returned"
     /\ held' = Terminal("answer")
     /\ gen' = "answered"
  \/ /\ agent = "raised"
     /\ held' = Terminal("error")
     /\ gen' = "erred"
  \/ /\ agent = "cancelled"
     /\ gen' = "over"
     /\ UNCHANGED held

\* Mutant: what is left in the queue is not drained.
DrainNothing == Conclude /\ UNCHANGED queue

\* while not queue.empty(): yield queue.get_nowait()
Drain ==
  IF queue = <<>>
  THEN Conclude /\ UNCHANGED queue
  ELSE /\ held' = Head(queue)
       /\ queue' = Tail(queue)
       /\ gen' = "drained"

\* wait_for(queue.get(), 0.05) gets an event.
Get ==
  /\ gen = "getting"
  /\ Wanted
  /\ queue # <<>>
  /\ held' = Head(queue)
  /\ queue' = Tail(queue)
  /\ gen' = "yielded"
  /\ UNCHANGED <<runVars, serial, dropped, outVars>>

\* Mutant: the queue is awaited without a timeout.
PollEndsNever == FALSE

\* wait_for() times out, and the agent task is done.
PollEnds ==
  /\ gen = "getting"
  /\ Wanted
  /\ agent \in Ended
  /\ Drain
  /\ UNCHANGED <<runVars, serial, dropped, outVars>>

\* The generator goes on behind a yield.
Advance ==
  /\ Wanted
  /\ \/ /\ gen = "yielded"
        /\ agent \notin Ended
        /\ gen' = "getting"
        /\ UNCHANGED <<queue, held>>
     \/ /\ gen = "yielded"
        /\ agent \in Ended
        /\ Drain
     \/ /\ gen = "drained"
        /\ Drain
     \/ /\ gen = "answered"
        /\ held' = Terminal("done")
        /\ gen' = "done"
        /\ UNCHANGED queue
     \/ /\ gen \in {"done", "erred"}
        /\ gen' = "over"
        /\ UNCHANGED <<queue, held>>
  /\ UNCHANGED <<runVars, serial, dropped, outVars>>

\* Mutant: the agent is left running.
CancelAgentNot == UNCHANGED agent

\* task.cancel()
CancelAgent == agent' = IF agent \in Ended THEN agent ELSE "cancelling"

\* The generator stands at one of its yields.
AtYield == gen \in {"yielded", "drained", "answered", "done", "erred"}

\* The client left: the transport's wait is cancelled, a CancelledError at the
\* generator's own await; or, at a yield, the generator was dropped with the
\* one around it, and the event loop closes it later.
Interrupt ==
  /\ IF AtYield THEN beat = "closed" ELSE beat = "leaving"
  /\ gen \notin {"closing", "over"}
  /\ CancelAgent
  /\ gen' = "closing"
  /\ held' = Nothing
  /\ UNCHANGED <<call, request, publish, queue, serial, dropped, outVars>>

\* await task
Unwound == agent \in Ended

Closed ==
  /\ gen = "closing"
  /\ Unwound
  /\ gen' = "over"
  /\ UNCHANGED <<runVars, queue, serial, dropped, held, outVars>>

-----------------------------------------------------------------------------
(* _with_heartbeat and the client *)

\* wait_for(shield(pending), interval) returns the event.
Frame ==
  /\ beat = "waiting"
  /\ held # Nothing
  /\ frame' = held
  /\ held' = Nothing
  /\ beat' = "sending"
  /\ UNCHANGED <<runVars, queue, serial, dropped, gen, sent, seen>>

\* It times out: a comment frame, while the generator goes on.
Heartbeat ==
  /\ beat = "waiting"
  /\ held = Nothing
  /\ gen # "over"
  /\ beat' = "comment"
  /\ UNCHANGED <<runVars, queue, serial, dropped, genVars, frame, sent, seen>>

\* The client takes a comment or an event.
Receive ==
  /\ beat \in {"comment", "sending"}
  /\ beat' = "waiting"
  /\ frame' = Nothing
  /\ sent' = IF frame.n > 0 THEN sent + 1 ELSE sent
  /\ seen' = seen \union ({frame.what} \intersect Calls)
  /\ UNCHANGED <<runVars, queue, serial, dropped, genVars>>

\* StopAsyncIteration
Exhausted ==
  /\ beat = "waiting"
  /\ gen = "over"
  /\ beat' = "exhausted"
  /\ UNCHANGED <<runVars, queue, serial, dropped, genVars, frame, sent, seen>>

\* The client disconnects; the finally clause closes the generator.
Leave ==
  /\ beat \in {"waiting", "comment", "sending"}
  /\ beat' = "leaving"
  /\ frame' = Nothing
  /\ UNCHANGED <<runVars, queue, serial, dropped, genVars, sent, seen>>

\* The wait that was cancelled is over, or there was none.
Left ==
  /\ beat = "leaving"
  /\ gen = "over" \/ AtYield
  /\ beat' = "closed"
  /\ UNCHANGED <<runVars, queue, serial, dropped, genVars, frame, sent, seen>>

-----------------------------------------------------------------------------

Asking(c) == Ask(c) \/ Register(c) \/ Publish(c) \/ Decide(c) \/ Expire(c) \/ AskReturns(c)
Agent == OnTurn \/ TurnPut \/ OnTraceOrClaim \/ StartBatch \/ AgentEnds \/ AgentCancelled
Driver == Get \/ PollEnds \/ Advance \/ Interrupt \/ Closed
Transport == Frame \/ Heartbeat \/ Receive \/ Exhausted \/ Leave \/ Left

Next ==
  \/ Agent \/ Driver \/ Transport
  \/ \E c \in Calls : CallEnds(c) \/ Asking(c)

Spec == Init /\ [][Next]_vars

\* Tasks that can run do; the broker's timer fires; the agent ends by itself
\* when it does nothing else; a client takes what is sent to it or leaves.
\* Nobody has to answer a question.
Fairness ==
  /\ WF_vars(TurnPut) /\ WF_vars(AgentEnds) /\ WF_vars(AgentCancelled)
  /\ WF_vars(Driver)
  /\ WF_vars(Frame) /\ WF_vars(Receive) /\ WF_vars(Exhausted) /\ WF_vars(Left)
  /\ \A c \in Calls :
       /\ WF_vars(CallEnds(c)) /\ WF_vars(Register(c)) /\ WF_vars(Publish(c))
       /\ WF_vars(Expire(c)) /\ WF_vars(AskReturns(c))

FairSpec == Spec /\ Fairness

-----------------------------------------------------------------------------
(* Safety *)

\* The events that left the queue: received, being sent, or yielded.
Taken ==
  sent + (IF frame.n > 0 THEN 1 ELSE 0) + (IF held.n > 0 THEN 1 ELSE 0)

\* What was put on the queue reaches a client that stays in the order it was
\* put, without a gap or a repetition, whatever timed out on the way.
InOrder ==
  beat \notin {"leaving", "closed"} =>
    /\ Taken + Len(queue) = serial
    /\ frame.n > 0 => frame.n = sent + 1
    /\ held.n > 0 => held.n = Taken
    /\ \A i \in DOMAIN queue : queue[i].n = Taken + i

\* The terminal events come when the agent has ended and after everything it
\* put: a run's last progress is not swallowed by its answer.
TerminalIsLast ==
  gen \in {"answered", "done", "erred"} => agent \in Ended /\ queue = <<>>

\* A tool call that does not wait for a decision has no open request with the
\* broker and no question on its way to the queue, however the wait ended:
\* answered, expired, refused, or cancelled with the run.
NothingAskedInVain ==
  \A c \in Calls :
    request[c] \in {"new", "open"} \/ publish[c] \in {"new", "blocked"}
      => call[c] = "asking" /\ agent \in {"batch", "cancelling"}

\* When the stream is over, so is the agent task, whoever ended it.
NoOrphanAgent == gen = "over" => agent \in Ended

-----------------------------------------------------------------------------
(* What the client relies on *)

\* An event, or a terminal one, is between the generator and the client.
OnItsWay == held # Nothing \/ frame # Nothing

\* What a client that stays was told last, from where the generator is and
\* what has not arrived yet.
Told ==
  CASE gen = "answered" -> IF OnItsWay THEN "open" ELSE "answer"
    [] gen = "done" -> IF OnItsWay THEN "answer" ELSE "done"
    [] gen = "erred" -> IF OnItsWay THEN "open" ELSE "error"
    [] gen = "over" /\ agent = "returned" -> "done"
    [] gen = "over" /\ agent = "raised" -> "error"
    [] OTHER -> "open"

Stage ==
  CASE beat = "exhausted" -> "complete"
    [] beat \in {"leaving", "closed"} -> "left"
    [] OTHER -> Told

Stream == INSTANCE EventStream WITH
  made <- serial, got <- sent, stage <- Stage,
  run <- IF agent \in Ended THEN agent ELSE "running"

\* Driver and transport together keep the promise of EventStream: behind
\* polls that time out, heartbeats, a full queue, questions that expire and a
\* client that leaves anywhere.
ImplementsEventStream == Stream!Spec

-----------------------------------------------------------------------------
(* Liveness *)

\* A client that takes what it is sent reaches the end of the stream, though
\* the queue is full and no question is ever answered.
StreamEnds == <>(beat \in {"exhausted", "closed"})

\* A client that leaves stops the agent.
LeavingStopsTheAgent == beat = "leaving" ~> agent \in Ended
=============================================================================
