----------------------------- MODULE WsSession -----------------------------
(***************************************************************************)
(* One WebSocket of /api/agent/ws and the agent runs it carries: serve()   *)
(* and _cancel() of internal/servers/web/ws_channel.py, start_run() and    *)
(* pump() of agent_ws in app.py, and AgentRunDriver.run() of               *)
(* run_driver.py as far as the life of the run's two tasks goes.           *)
(*                                                                         *)
(* Three kinds of task share the event loop.  The handler reads client     *)
(* events one after the other; each run has a pump task, which forwards    *)
(* the driver's events to the socket, and the agent task the driver wraps. *)
(* A step is what a task does between two awaits.  task.cancel() only      *)
(* marks the task (doomed); the CancelledError is raised where the task is *)
(* waiting, at its next step, and what happens then depends on the place.  *)
(*                                                                         *)
(* Events that only answer (ping, malformed or unknown events, decisions,  *)
(* a session.start refused with 409 or 400, a session.cancel with no run)  *)
(* leave this state alone.                                                 *)
(*                                                                         *)
(* The general names begin with Ws, since the theorems about a run and its *)
(* transports are about this module and RunEvents together.                *)
(***************************************************************************)
EXTENDS FiniteSets

CONSTANT Runs       \* the run ids start_run() draws; each is used once

ASSUME RunsAssumption == "none" \notin Runs

VARIABLES
  handler,    \* where serve() is
  busy,       \* the run whose event the handler is sending, or "none"
  slot,       \* session._run: the run id of the RunHandle, or "none"
  connected,  \* sends on the socket still succeed
  pump,       \* where the pump task of each run is
  agent_task, \* the agent task of each run
  doomed,     \* runs whose pump task was cancelled
  told        \* runs answered with {"type": "done", "cancelled": true}
wsVars == <<handler, busy, slot, connected, pump, agent_task, doomed, told>>

WsTypeOK ==
  /\ handler \in {"receiving", "starting", "answering", "closed"}
  /\ busy \in Runs \union {"none"}
  /\ slot \in Runs \union {"none"}
  /\ connected \in BOOLEAN
  /\ pump \in [Runs -> {"unused", "scheduled", "waiting", "sending",
                        "closing", "unwinding", "finished"}]
  /\ agent_task \in [Runs -> {"unused", "running", "cancelling", "ended"}]
  /\ doomed \subseteq Runs
  /\ told \subseteq Runs

WsInit ==
  /\ handler = "receiving"
  /\ busy = "none"
  /\ slot = "none"
  /\ connected = TRUE
  /\ pump = [r \in Runs |-> "unused"]
  /\ agent_task = [r \in Runs |-> "unused"]
  /\ doomed = {}
  /\ told = {}

-----------------------------------------------------------------------------
(* The handler *)

\* Mutant: the run in flight is not looked at.
StartAnyway(r) ==
  /\ handler = "receiving"
  /\ pump[r] = "unused"
  /\ handler' = "starting"
  /\ busy' = r
  /\ UNCHANGED <<slot, connected, pump, agent_task, doomed, told>>

\* session.start, accepted: start_run() draws a run id and sends
\* session.started; the run does not exist while that send is awaited.
Start(r) ==
  /\ handler = "receiving"
  /\ slot = "none"
  /\ pump[r] = "unused"
  /\ handler' = "starting"
  /\ busy' = r
  /\ UNCHANGED <<slot, connected, pump, agent_task, doomed, told>>

\* session.started is sent: create_task(pump()) and the handle.
Launch ==
  /\ handler = "starting"
  /\ connected
  /\ slot' = busy
  /\ pump' = [pump EXCEPT ![busy] = "scheduled"]
  /\ handler' = "receiving"
  /\ busy' = "none"
  /\ UNCHANGED <<connected, agent_task, doomed, told>>

\* Mutant: the task is not cancelled.
DoomNobody(r) == UNCHANGED doomed

\* RunHandle.cancel()
Doom(r) == doomed' = IF pump[r] = "finished" THEN doomed ELSE doomed \union {r}

\* session.cancel with a run in flight: the answer is written in this step,
\* and the handler waits until the socket took it.
Cancel ==
  /\ handler = "receiving"
  /\ slot # "none"
  /\ Doom(slot)
  /\ told' = told \union {slot}
  /\ slot' = "none"
  /\ busy' = slot
  /\ handler' = "answering"
  /\ UNCHANGED <<connected, pump, agent_task>>

Answered ==
  /\ handler = "answering"
  /\ connected
  /\ handler' = "receiving"
  /\ busy' = "none"
  /\ UNCHANGED <<slot, connected, pump, agent_task, doomed, told>>

\* The client is gone, or an event made the handler raise (a request that is
\* no object): serve() cancels the run in its slot and the socket is closed.
CloseSocket ==
  /\ handler # "closed"
  /\ handler' = "closed"
  /\ busy' = "none"
  /\ connected' = FALSE
  /\ IF slot = "none" THEN doomed' = doomed ELSE Doom(slot)
  /\ UNCHANGED <<slot, pump, agent_task, told>>

\* The connection is lost; the handler has not read the disconnect yet.
Disconnect ==
  /\ connected
  /\ connected' = FALSE
  /\ UNCHANGED <<handler, busy, slot, pump, agent_task, doomed, told>>

-----------------------------------------------------------------------------
(* The pump of run r and the driver's generator it iterates *)

\* driver.run() creates the agent task and waits for the first event.
Begin(r) ==
  /\ pump[r] = "scheduled"
  /\ r \notin doomed
  /\ pump' = [pump EXCEPT ![r] = "waiting"]
  /\ agent_task' = [agent_task EXCEPT ![r] = "running"]
  /\ UNCHANGED <<handler, busy, slot, connected, doomed, told>>

\* A task cancelled before its first step runs none of its code, not even
\* pump()'s finally.
NeverBegin(r) ==
  /\ pump[r] = "scheduled"
  /\ r \in doomed
  /\ pump' = [pump EXCEPT ![r] = "finished"]
  /\ UNCHANGED <<handler, busy, slot, connected, agent_task, doomed, told>>

\* An event of the running agent is on its way to the client.
Forward(r) ==
  /\ pump[r] = "waiting"
  /\ agent_task[r] = "running"
  /\ r \notin doomed
  /\ pump' = [pump EXCEPT ![r] = "sending"]
  /\ UNCHANGED <<handler, busy, slot, connected, agent_task, doomed, told>>

Forwarded(r) ==
  /\ pump[r] = "sending"
  /\ connected
  /\ r \notin doomed
  /\ pump' = [pump EXCEPT ![r] = "waiting"]
  /\ UNCHANGED <<handler, busy, slot, connected, agent_task, doomed, told>>

\* The agent is done: what is left in the queue and the terminal events.
SendLast(r) ==
  /\ pump[r] = "waiting"
  /\ agent_task[r] = "ended"
  /\ r \notin doomed
  /\ pump' = [pump EXCEPT ![r] = "closing"]
  /\ UNCHANGED <<handler, busy, slot, connected, agent_task, doomed, told>>

\* Mutant: the slot keeps the run that ended.
PumpEndsInSlot(r) ==
  /\ pump' = [pump EXCEPT ![r] = "finished"]
  /\ slot' = slot

\* pump() ends, and its finally clears the slot, whatever run that names.
PumpEnds(r) ==
  /\ pump' = [pump EXCEPT ![r] = "finished"]
  /\ slot' = "none"

\* The last event is sent and the generator is exhausted.
Complete(r) ==
  /\ pump[r] = "closing"
  /\ connected
  /\ r \notin doomed
  /\ PumpEnds(r)
  /\ UNCHANGED <<handler, busy, connected, agent_task, doomed, told>>

\* session.send() raises, because the connection or the task is gone.  The
\* generator is left where it yielded.
BreakOff(r) ==
  /\ pump[r] \in {"sending", "closing"}
  /\ ~connected \/ r \in doomed
  /\ PumpEnds(r)
  /\ UNCHANGED <<handler, busy, connected, agent_task, doomed, told>>

\* CancelledError inside the generator: it cancels the agent and waits for
\* it to unwind.
CancelRun(r) ==
  /\ pump[r] = "waiting"
  /\ r \in doomed
  /\ agent_task[r] = "running"
  /\ pump' = [pump EXCEPT ![r] = "unwinding"]
  /\ agent_task' = [agent_task EXCEPT ![r] = "cancelling"]
  /\ UNCHANGED <<handler, busy, slot, connected, doomed, told>>

\* The cancelled generator returns without another event.
ReturnCancelled(r) ==
  /\ \/ pump[r] = "unwinding"
     \/ pump[r] = "waiting" /\ r \in doomed
  /\ agent_task[r] = "ended"
  /\ PumpEnds(r)
  /\ UNCHANGED <<handler, busy, connected, agent_task, doomed, told>>

\* Mutant: the generator handles CancelledError only.
CloseQuietly(r) ==
  /\ pump[r] = "finished"
  /\ UNCHANGED wsVars

\* The event loop closes a generator nobody refers to any more; the
\* GeneratorExit reaches the same handler and cancels the agent.
CloseGenerator(r) ==
  /\ pump[r] = "finished"
  /\ agent_task[r] = "running"
  /\ agent_task' = [agent_task EXCEPT ![r] = "cancelling"]
  /\ UNCHANGED <<handler, busy, slot, connected, pump, doomed, told>>

\* The agent returns or raises.
AgentReturns(r) ==
  /\ agent_task[r] = "running"
  /\ agent_task' = [agent_task EXCEPT ![r] = "ended"]
  /\ UNCHANGED <<handler, busy, slot, connected, pump, doomed, told>>

\* The cancelled agent has unwound.
AgentUnwinds(r) ==
  /\ agent_task[r] = "cancelling"
  /\ agent_task' = [agent_task EXCEPT ![r] = "ended"]
  /\ UNCHANGED <<handler, busy, slot, connected, pump, doomed, told>>

PumpStep(r) ==
  \/ Begin(r)
  \/ NeverBegin(r)
  \/ Forward(r)
  \/ Forwarded(r)
  \/ SendLast(r)
  \/ Complete(r)
  \/ BreakOff(r)
  \/ CancelRun(r)
  \/ ReturnCancelled(r)

HandlerStep ==
  \/ \E r \in Runs : Start(r)
  \/ Launch
  \/ Cancel
  \/ Answered
  \/ CloseSocket

WsNext ==
  \/ HandlerStep
  \/ Disconnect
  \/ \E r \in Runs :
       \/ PumpStep(r)
       \/ CloseGenerator(r)
       \/ AgentReturns(r)
       \/ AgentUnwinds(r)

WsSpec == WsInit /\ [][WsNext]_wsVars

\* The event loop runs every task that can go on, a cancelled agent unwinds,
\* and an unreferenced generator is closed.  A send ends or fails, and the
\* handler reads the disconnect.  Nothing is assumed of an agent nobody
\* cancels, and nothing of the client.
WsFairness ==
  /\ WF_wsVars(Launch)
  /\ WF_wsVars(Answered)
  /\ WF_wsVars(~connected /\ CloseSocket)
  /\ \A r \in Runs :
       /\ WF_wsVars(PumpStep(r))
       /\ WF_wsVars(CloseGenerator(r))
       /\ WF_wsVars(AgentUnwinds(r))

WsFairSpec == WsSpec /\ WsFairness

-----------------------------------------------------------------------------
(* Properties *)

\* A run in progress: its pump or its agent has still something to do.
Live(r) ==
  \/ pump[r] \notin {"unused", "finished"}
  \/ agent_task[r] \in {"running", "cancelling"}

\* While the socket is served, its slot names a run that is still pumped: a
\* new session.start is never refused with 409 on behalf of a run that has
\* ended, however it ended.
RefusalIsHonest ==
  handler # "closed" /\ slot # "none" =>
    pump[slot] \notin {"unused", "finished"}

\* Until the client cancels a run, the socket carries one run at a time, and
\* that run can be cancelled: it is the one in the slot, unless its
\* connection is lost.
OneRunUntilCancelled ==
  told = {} /\ handler # "closed" =>
    /\ \A r, s \in Runs : Live(r) /\ Live(s) => r = s
    /\ connected => \A r \in Runs : Live(r) => slot = r

\* The answer to session.cancel is the last the client hears of the run.
SilentOnceCancelled ==
  [][\A r \in told : pump'[r] \in {"sending", "closing"} =>
       pump'[r] = pump[r]]_wsVars

\* A run reported as cancelled stops for good, wherever its pump and its
\* agent were: before their first step, between two events, while an event
\* is being sent, or after the agent returned.
CancelStopsTheAgent ==
  \A r \in Runs :
    (r \in told) ~> [](agent_task[r] \in {"unused", "ended"})

\* A run whose agent has ended frees the slot for the next one.
SlotIsFreed ==
  \A r \in Runs :
    (slot = r /\ agent_task[r] = "ended") ~> (slot # r \/ handler = "closed")

\* docs/api-reference.md:172-173: "One run at a time per socket: a second
\* session.start gets an error with code: 409."  Runs that were cancelled and
\* are still unwinding do not count.
OneRunAtATime ==
  \A r, s \in Runs \ doomed :
    agent_task[r] = "running" /\ agent_task[s] = "running" => r = s
=============================================================================
