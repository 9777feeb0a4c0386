--------------------------- MODULE RunEventsProofs ---------------------------
(***************************************************************************)
(* What becomes of an agent run on its way to the client, over server-sent *)
(* events (RunEvents, for any calls, any capacity and any number of        *)
(* events) and on a WebSocket (WsSession, for every set of runs).          *)
(*                                                                         *)
(* EventsInv says where an event may be while it is on its way: nothing is *)
(* held by the generator while the transport sends, and nothing is sent    *)
(* while it waits.  Without it an event that is taken twice could not be   *)
(* told from one that is taken once.  SessionInv says what the slot of a   *)
(* socket means, and where its meaning ends (the first session.cancel).    *)
(***************************************************************************)
EXTENDS RunEvents, WsSession, TLAPS

\* The places of an event on its way agree with those of the two generators.
OneAtATime ==
  /\ beat # "sending" => frame = Nothing
  /\ beat = "sending" => held = Nothing
  /\ gen \in {"getting", "closing", "over"} => held = Nothing

\* The queue is drained only behind the agent's end.
DrainedAtTheEnd == gen = "drained" => agent \in Ended

EventsInv ==
  /\ TypeOK
  /\ OneAtATime
  /\ DrainedAtTheEnd
  /\ NothingAskedInVain
  /\ TerminalIsLast
  /\ NoOrphanAgent
  /\ InOrder

-----------------------------------------------------------------------------
(* Types *)

\* An event put in the room there is keeps the queue well typed and bounded.
LEMMA PutTyped ==
  ASSUME queue \in Seq(Events), Len(queue) <= Capacity, serial \in Nat,
         NEW what \in Calls \union {"plain"}, HasRoom, Put(what)
  PROVE  queue' \in Seq(Events) /\ Len(queue') <= Capacity /\ serial' \in Nat
<1>1. [n |-> serial + 1, what |-> what] \in Events
  BY SMT DEF Events
<1>2. QED
  BY <1>1, CapacityAssumption, SMT DEF HasRoom, Put

\* What Drain yields is a frame, and what it leaves is a queue.
LEMMA DrainTyped ==
  ASSUME TypeOK, Drain
  PROVE  /\ queue' \in Seq(Events) /\ Len(queue') <= Capacity
         /\ held' \in Frames
         /\ gen' \in {"drained", "answered", "erred", "over"}
<1>1. CASE queue = <<>>
  BY <1>1, SMT DEF TypeOK, Drain, Conclude, Frames, Terminal
<1>2. CASE queue # <<>>
  <2>1. Head(queue) \in Events /\ Tail(queue) \in Seq(Events)
        /\ Len(Tail(queue)) <= Capacity
    BY <1>2, CapacityAssumption, SMT DEF TypeOK
  <2>2. QED
    BY <1>2, <2>1, Zenon DEF Drain, Frames
<1>3. QED
  BY <1>1, <1>2

LEMMA TypeInit == Init => TypeOK
  BY CapacityAssumption, SMT DEF Init, TypeOK, Frames

LEMMA TypeStep ==
  ASSUME TypeOK, [Next]_vars
  PROVE  TypeOK'
<1>1. CASE OnTurn
  <2>1. CASE HasRoom
    <3>1. "plain" \in Calls \union {"plain"}
      OBVIOUS
    <3>2. Put("plain")
      BY <1>1, <2>1 DEF OnTurn
    <3>3. queue' \in Seq(Events) /\ Len(queue') <= Capacity /\ serial' \in Nat
      BY <2>1, <3>1, <3>2, PutTyped DEF TypeOK
    <3>4. QED
      BY <1>1, <2>1, <3>3, SMT DEF OnTurn, TypeOK, genVars, outVars
  <2>2. CASE ~HasRoom
    BY <1>1, <2>2, SMT DEF OnTurn, TypeOK, genVars, outVars
  <2>3. QED
    BY <2>1, <2>2
<1>2. CASE TurnPut
  <2>1. queue' \in Seq(Events) /\ Len(queue') <= Capacity /\ serial' \in Nat
    BY <1>2, PutTyped DEF TurnPut, TypeOK
  <2>2. QED
    BY <1>2, <2>1, SMT DEF TurnPut, TypeOK, genVars, outVars
<1>3. CASE OnTraceOrClaim
  <2>1. CASE HasRoom
    <3>1. queue' \in Seq(Events) /\ Len(queue') <= Capacity /\ serial' \in Nat
      BY <1>3, <2>1, PutTyped DEF OnTraceOrClaim, Offer, TypeOK
    <3>2. QED
      BY <1>3, <2>1, <3>1, SMT DEF OnTraceOrClaim, Offer, TypeOK, runVars, genVars, outVars
  <2>2. CASE ~HasRoom
    BY <1>3, <2>2, SMT DEF OnTraceOrClaim, Offer, TypeOK, runVars, genVars, outVars
  <2>3. QED
    BY <2>1, <2>2
<1>4. CASE StartBatch
  BY <1>4, SMT DEF StartBatch, TypeOK, genVars
<1>5. CASE AgentEnds
  BY <1>5, SMT DEF AgentEnds, TypeOK, genVars, outVars
<1>6. CASE AgentCancelled
  <2>1. publish' \in [Calls -> {"none", "new", "blocked", "done"}]
    BY <1>6, Zenon DEF AgentCancelled, TypeOK, CancelledPublish
  <2>2. request' \in [Calls -> {"none", "new", "open", "closed"}]
    BY <1>6, Zenon DEF AgentCancelled, TypeOK
  <2>3. call' \in [Calls -> {"idle", "calling", "asking", "finished"}]
    BY <1>6, Zenon DEF AgentCancelled
  <2>4. QED
    BY <1>6, <2>1, <2>2, <2>3, SMT DEF AgentCancelled, TypeOK, genVars, outVars, Ended
<1>7. CASE Get
  <2>1. Head(queue) \in Events /\ Tail(queue) \in Seq(Events)
        /\ Len(Tail(queue)) <= Capacity
    BY <1>7, CapacityAssumption, SMT DEF Get, TypeOK
  <2>2. held' \in Frames
    BY <1>7, <2>1, Zenon DEF Get, Frames
  <2>3. QED
    BY <1>7, <2>1, <2>2, SMT DEF Get, TypeOK, runVars, outVars
<1>8. CASE PollEnds
  <2>1. Drain
    BY <1>8 DEF PollEnds
  <2>2. QED
    BY <1>8, <2>1, DrainTyped, SMT DEF PollEnds, TypeOK, runVars, outVars
<1>9. CASE Advance
  <2>1. CASE Drain
    BY <1>9, <2>1, DrainTyped, SMT DEF Advance, TypeOK, runVars, outVars
  <2>2. CASE ~Drain
    BY <1>9, <2>2, SMT DEF Advance, TypeOK, runVars, outVars, Frames, Terminal
  <2>3. QED
    BY <2>1, <2>2
<1>10. CASE Interrupt
  BY <1>10, SMT DEF Interrupt, CancelAgent, TypeOK, outVars, Ended, Frames
<1>11. CASE Closed
  BY <1>11, SMT DEF Closed, TypeOK, runVars, outVars
<1>12. CASE Frame
  BY <1>12, SMT DEF Frame, TypeOK, runVars, Frames
<1>13. CASE Heartbeat
  BY <1>13, SMT DEF Heartbeat, TypeOK, runVars, genVars
<1>14. CASE Receive
  BY <1>14, SMT DEF Receive, TypeOK, runVars, genVars, Frames
<1>15. CASE Exhausted
  BY <1>15, SMT DEF Exhausted, TypeOK, runVars, genVars
<1>16. CASE Leave
  BY <1>16, SMT DEF Leave, TypeOK, runVars, genVars, Frames
<1>17. CASE Left
  BY <1>17, SMT DEF Left, TypeOK, runVars, genVars
<1>18. ASSUME NEW c \in Calls, CallEnds(c) \/ Asking(c)
       PROVE  TypeOK'
  <2>1. CASE CallEnds(c)
    BY <2>1, SMT DEF CallEnds, TypeOK, genVars, outVars
  <2>2. CASE Ask(c)
    BY <2>2, SMT DEF Ask, TypeOK, genVars, outVars
  <2>3. CASE Register(c)
    BY <2>3, SMT DEF Register, TypeOK, genVars, outVars
  <2>4. CASE Publish(c)
    <3>1. CASE HasRoom
      <4>1. queue' \in Seq(Events) /\ Len(queue') <= Capacity /\ serial' \in Nat
        BY <2>4, <3>1, PutTyped DEF Publish, TypeOK
      <4>2. QED
        BY <2>4, <3>1, <4>1, SMT DEF Publish, TypeOK, genVars, outVars
    <3>2. CASE ~HasRoom
      BY <2>4, <3>2, SMT DEF Publish, TypeOK, genVars, outVars
    <3>3. QED
      BY <3>1, <3>2
  <2>5. CASE Decide(c)
    BY <2>5, SMT DEF Decide, TypeOK, genVars, outVars
  <2>6. CASE Expire(c)
    BY <2>6, SMT DEF Expire, TypeOK, genVars, outVars
  <2>7. CASE AskReturns(c)
    BY <2>7, SMT DEF AskReturns, CancelledPublish, TypeOK, genVars, outVars
  <2>8. QED
    BY <1>18, <2>1, <2>2, <2>3, <2>4, <2>5, <2>6, <2>7 DEF Asking
<1>19. CASE UNCHANGED vars
  BY <1>19, SMT DEF vars, TypeOK
<1>20. QED
  BY <1>1, <1>2, <1>3, <1>4, <1>5, <1>6, <1>7, <1>8, <1>9, <1>10, <1>11, <1>12,
     <1>13, <1>14, <1>15, <1>16, <1>17, <1>18, <1>19
     DEF Next, Agent, Driver, Transport

\* The state of a run is well typed and its queue bounded, for any calls and
\* any capacity.
THEOREM TypeCorrect == Spec => []TypeOK
<1>1. Init => TypeOK
  BY TypeInit
<1>2. TypeOK /\ [Next]_vars => TypeOK'
  BY TypeStep
<1>3. QED
  BY <1>1, <1>2, PTL DEF Spec

-----------------------------------------------------------------------------
(* Questions *)

\* A question that is withdrawn is not on its way any more.
LEMMA Withdrawn ==
  ASSUME NEW p
  PROVE  CancelledPublish(p) \notin {"new", "blocked"}
  BY DEF CancelledPublish

LEMMA AskInit == Init => NothingAskedInVain
  BY DEF Init, NothingAskedInVain

LEMMA AskStep ==
  ASSUME TypeOK, NothingAskedInVain, [Next]_vars
  PROVE  NothingAskedInVain'
<1>1. CASE OnTurn \/ TurnPut \/ OnTraceOrClaim \/ AgentEnds
  BY <1>1, SMT DEF OnTurn, TurnPut, OnTraceOrClaim, AgentEnds, NothingAskedInVain, runVars
<1>2. CASE StartBatch
  BY <1>2, SMT DEF StartBatch, NothingAskedInVain
<1>3. CASE AgentCancelled
  <2>1. \A c \in Calls : /\ request'[c] \notin {"new", "open"}
                         /\ publish'[c] \notin {"new", "blocked"}
    BY <1>3, Withdrawn, Zenon DEF AgentCancelled
  <2>2. QED
    BY <2>1 DEF NothingAskedInVain
<1>4. CASE Get \/ PollEnds \/ Advance \/ Closed
  BY <1>4, SMT DEF Get, PollEnds, Advance, Closed, NothingAskedInVain, runVars
<1>5. CASE Interrupt
  BY <1>5, SMT DEF Interrupt, CancelAgent, NothingAskedInVain, Ended
<1>6. CASE Transport
  BY <1>6, SMT DEF Transport, Frame, Heartbeat, Receive, Exhausted, Leave, Left,
     NothingAskedInVain, runVars
<1>7. ASSUME NEW c \in Calls, CallEnds(c) \/ Asking(c)
      PROVE  NothingAskedInVain'
  <2>1. CASE CallEnds(c)
    BY <1>7, <2>1, SMT DEF CallEnds, NothingAskedInVain, TypeOK
  <2>2. CASE Ask(c)
    BY <1>7, <2>2, SMT DEF Ask, NothingAskedInVain, TypeOK
  <2>3. CASE Register(c)
    BY <1>7, <2>3, SMT DEF Register, NothingAskedInVain, TypeOK
  <2>4. CASE Publish(c)
    BY <1>7, <2>4, SMT DEF Publish, NothingAskedInVain, TypeOK
  <2>5. CASE Decide(c) \/ Expire(c)
    BY <1>7, <2>5, SMT DEF Decide, Expire, NothingAskedInVain, TypeOK
  <2>6. CASE AskReturns(c)
    BY <1>7, <2>6, Withdrawn, SMT DEF AskReturns, NothingAskedInVain, TypeOK
  <2>7. QED
    BY <1>7, <2>1, <2>2, <2>3, <2>4, <2>5, <2>6 DEF Asking
<1>8. CASE UNCHANGED vars
  BY <1>8, SMT DEF vars, NothingAskedInVain
<1>9. QED
  BY <1>1, <1>2, <1>3, <1>4, <1>5, <1>6, <1>7, <1>8 DEF Next, Agent, Driver

-----------------------------------------------------------------------------
(* The end of a run *)

\* An agent that has ended stays so, and nothing is put on the queue then.
LEMMA EndedStays ==
  ASSUME NothingAskedInVain, [Next]_vars, agent \in Ended
  PROVE  agent' = agent /\ serial' = serial /\ (queue' = queue \/ queue # <<>>)
<1>1. CASE Agent
  BY <1>1, SMT DEF Agent, OnTurn, TurnPut, OnTraceOrClaim, StartBatch, AgentEnds,
     AgentCancelled, Ended
<1>2. CASE Driver
  BY <1>2, SMT DEF Driver, Get, PollEnds, Advance, Drain, Interrupt, CancelAgent, Closed,
     runVars
<1>3. CASE Transport
  BY <1>3, SMT DEF Transport, Frame, Heartbeat, Receive, Exhausted, Leave, Left, runVars
<1>4. ASSUME NEW c \in Calls, CallEnds(c) \/ Asking(c)
      PROVE  agent' = agent /\ serial' = serial /\ (queue' = queue \/ queue # <<>>)
  BY <1>4, SMT DEF CallEnds, Asking, Ask, Register, Publish, Decide, Expire, AskReturns,
     NothingAskedInVain, Ended
<1>5. QED
  BY <1>1, <1>2, <1>3, <1>4, SMT DEF Next, vars

\* Behind the drain the agent has ended and the queue is empty.
LEMMA DrainEnds ==
  ASSUME Drain, agent \in Ended
  PROVE  /\ gen' \in {"answered", "erred"} => queue' = <<>>
         /\ gen' \in {"drained", "answered", "erred", "over"}
         /\ gen' = "over" => held' = held
  BY SMT DEF Drain, Conclude

LEMMA EndInit ==
  Init => OneAtATime /\ DrainedAtTheEnd /\ TerminalIsLast /\ NoOrphanAgent
  BY SMT DEF Init, OneAtATime, DrainedAtTheEnd, TerminalIsLast, NoOrphanAgent

\* The terminal events come last and the agent is not left behind.
LEMMA EndStep ==
  ASSUME EventsInv, [Next]_vars
  PROVE  TerminalIsLast' /\ NoOrphanAgent' /\ DrainedAtTheEnd'
<1> USE DEF EventsInv, TerminalIsLast, NoOrphanAgent, DrainedAtTheEnd
<1>1. CASE gen' = gen
  BY <1>1, EndedStays, SMT
<1>2. CASE PollEnds
  BY <1>2, DrainEnds, EndedStays, SMT DEF PollEnds, runVars
<1>3. CASE Advance
  <2>1. CASE Drain /\ agent \in Ended
    BY <1>3, <2>1, DrainEnds, SMT DEF Advance, runVars
  <2>2. CASE ~(Drain /\ agent \in Ended)
    BY <1>3, <2>2, SMT DEF Advance, runVars
  <2>3. QED
    BY <2>1, <2>2
<1>4. CASE Get \/ Interrupt
  BY <1>4, SMT DEF Get, Interrupt
<1>5. CASE Closed
  BY <1>5, SMT DEF Closed, Unwound, runVars
<1>6. QED
  BY <1>1, <1>2, <1>3, <1>4, <1>5, SMT
     DEF Next, vars, genVars, Agent, OnTurn, TurnPut, OnTraceOrClaim, StartBatch,
         AgentEnds, AgentCancelled, Driver, Transport, Frame, Heartbeat, Receive,
         Exhausted, Leave, Left, CallEnds, Asking, Ask, Register, Publish, Decide,
         Expire, AskReturns

-----------------------------------------------------------------------------
(* The order of the events *)

\* What Drain takes is the head of the queue.
LEMMA DrainTakes ==
  ASSUME Drain, held = Nothing
  PROVE  \/ queue # <<>> /\ held' = Head(queue) /\ queue' = Tail(queue)
         \/ queue' = queue /\ held'.n = 0
  BY SMT DEF Drain, Conclude, Terminal, Nothing

LEMMA PlacesStep ==
  ASSUME EventsInv, [Next]_vars
  PROVE  OneAtATime'
<1> USE DEF EventsInv, OneAtATime
<1>1. CASE Get
  BY <1>1, SMT DEF Get, Wanted, outVars
<1>2. CASE PollEnds
  <2>1. gen' \in {"drained", "answered", "erred"} \/ (gen' = "over" /\ held' = Nothing)
    BY <1>2, DrainEnds, SMT DEF PollEnds, Wanted
  <2>2. QED
    BY <1>2, <2>1, SMT DEF PollEnds, Wanted, outVars
<1>3. CASE Advance
  <2>1. CASE Drain /\ agent \in Ended
    <3>1. gen' \in {"drained", "answered", "erred"} \/ (gen' = "over" /\ held' = Nothing)
      BY <1>3, <2>1, DrainEnds, SMT DEF Advance, Wanted
    <3>2. QED
      BY <1>3, <3>1, SMT DEF Advance, Wanted, outVars
  <2>2. CASE ~(Drain /\ agent \in Ended)
    BY <1>3, <2>2, SMT DEF Advance, Wanted, outVars, DrainedAtTheEnd
  <2>3. QED
    BY <2>1, <2>2
<1>4. CASE Interrupt \/ Closed
  BY <1>4, SMT DEF Interrupt, Closed, outVars
<1>5. CASE Transport
  BY <1>5, SMT DEF Transport, Frame, Heartbeat, Receive, Exhausted, Leave, Left, genVars
<1>6. CASE UNCHANGED <<genVars, beat, frame>>
  BY <1>6, SMT DEF genVars
<1>7. QED
  BY <1>1, <1>2, <1>3, <1>4, <1>5, <1>6, SMT
     DEF Next, vars, genVars, outVars, Agent, OnTurn, TurnPut, OnTraceOrClaim,
         StartBatch, AgentEnds, AgentCancelled, Driver, CallEnds, Asking, Ask, Register,
         Publish, Decide, Expire, AskReturns

\* An event on its way to the client is numbered; the rest has the number 0.
LEMMA Numbered ==
  ASSUME TypeOK
  PROVE  /\ frame.n \in Nat /\ held.n \in Nat /\ sent \in Nat /\ serial \in Nat
         /\ Taken \in Nat
         /\ Nothing.n = 0
<1>1. \A f \in Frames : f.n \in Nat
  BY SMT DEF Frames, Events, Nothing, Terminal
<1>2. frame.n \in Nat /\ held.n \in Nat
  BY <1>1, Zenon DEF TypeOK
<1>3. QED
  BY <1>2, SMT DEF TypeOK, Taken, Nothing

LEMMA PutInOrder ==
  ASSUME TypeOK, InOrder, NEW what, Put(what), UNCHANGED <<held, outVars>>
  PROVE  InOrder'
<1>1. SUFFICES ASSUME beat \notin {"leaving", "closed"}
               PROVE  InOrder'
  BY SMT DEF InOrder, outVars
<1> DEFINE e == [n |-> serial + 1, what |-> what]
<1>2. /\ queue' = Append(queue, e) /\ serial' = serial + 1
      /\ Taken' = Taken /\ frame' = frame /\ held' = held /\ sent' = sent
  BY SMT DEF Put, Taken, outVars
<1>3. e.n = serial + 1
  OBVIOUS
<1> HIDE DEF e
<1>4. queue \in Seq(Events) /\ Taken \in Nat /\ Taken + Len(queue) = serial
  BY <1>1, Numbered DEF InOrder, TypeOK
<1>5. /\ Len(queue') = Len(queue) + 1
      /\ \A i \in 1..Len(queue) : queue'[i] = queue[i]
      /\ queue'[Len(queue) + 1] = e
      /\ DOMAIN queue' = 1..(Len(queue) + 1)
      /\ DOMAIN queue = 1..Len(queue)
      /\ Len(queue) \in Nat
  BY <1>2, <1>4, SMT
<1>6. \A i \in 1..Len(queue) : queue[i].n = Taken + i
  BY <1>1, <1>5, SMT DEF InOrder
<1>7. \A i \in DOMAIN queue' : queue'[i].n = Taken' + i
  <2>1. TAKE i \in DOMAIN queue'
  <2>2. CASE i \in 1..Len(queue)
    BY <2>2, <1>2, <1>5, <1>6
  <2>3. CASE i = Len(queue) + 1
    BY <2>3, <1>2, <1>3, <1>4, <1>5, SMT
  <2>4. QED
    BY <1>5, <2>1, <2>2, <2>3, SMT
<1>8. QED
  BY <1>1, <1>2, <1>4, <1>5, <1>7, SMT DEF InOrder

LEMMA TakeInOrder ==
  ASSUME TypeOK, InOrder, queue # <<>>, frame = Nothing, held = Nothing,
         held' = Head(queue), queue' = Tail(queue), UNCHANGED <<serial, outVars>>
  PROVE  InOrder'
<1>1. SUFFICES ASSUME beat \notin {"leaving", "closed"}
               PROVE  InOrder'
  BY SMT DEF InOrder, outVars
<1>2. /\ queue \in Seq(Events) /\ sent \in Nat
      /\ frame.n = 0 /\ held.n = 0 /\ Taken = sent
      /\ frame' = frame /\ sent' = sent /\ serial' = serial
  BY Numbered, SMT DEF TypeOK, Taken, Nothing, outVars
<1>3. \A i \in 1..Len(queue) : queue[i].n = sent + i
  BY <1>1, <1>2, SMT DEF InOrder
<1>4. /\ Len(queue) \in Nat \ {0}
      /\ Head(queue) = queue[1]
      /\ Len(Tail(queue)) = Len(queue) - 1
      /\ \A i \in 1..(Len(queue) - 1) : Tail(queue)[i] = queue[i + 1]
      /\ DOMAIN Tail(queue) = 1..(Len(queue) - 1)
  BY <1>2, SMT
<1>5. held'.n = sent + 1
  BY <1>3, <1>4, SMT
<1>6. Taken' = sent + 1
  BY <1>2, <1>5, SMT DEF Taken
<1>7. \A i \in DOMAIN queue' : queue'[i].n = Taken' + i
  BY <1>2, <1>3, <1>4, <1>6, SMT
<1>8. Taken' + Len(queue') = serial'
  BY <1>1, <1>2, <1>4, <1>6, SMT DEF InOrder
<1>9. QED
  BY <1>2, <1>5, <1>6, <1>7, <1>8, SMT DEF InOrder

\* A step that moves no numbered event keeps the order.
LEMMA IdleInOrder ==
  ASSUME TypeOK, InOrder, UNCHANGED <<queue, serial, frame, sent>>,
         beat \in {"leaving", "closed"} => beat' \in {"leaving", "closed"},
         held' = held \/ (held.n = 0 /\ held'.n = 0)
  PROVE  InOrder'
<1>1. Taken' = Taken
  BY SMT DEF Taken
<1>2. QED
  BY <1>1, SMT DEF InOrder

LEMMA OrderInit == Init => InOrder
  BY SMT DEF Init, InOrder, Taken, Nothing

LEMMA OrderStep ==
  ASSUME EventsInv, [Next]_vars
  PROVE  InOrder'
<1> USE DEF EventsInv
<1>1. ASSUME NEW what, Put(what), UNCHANGED <<held, outVars>>
      PROVE  InOrder'
  BY <1>1, PutInOrder
<1>2. CASE UNCHANGED <<queue, serial, held, beat, frame, sent>>
  BY <1>2, IdleInOrder, SMT
<1>3. CASE Get
  BY <1>3, TakeInOrder, SMT DEF Get, Wanted, OneAtATime, outVars
<1>4. CASE Drain /\ Wanted /\ UNCHANGED <<serial, outVars>>
  <2>1. CASE queue # <<>> /\ held' = Head(queue) /\ queue' = Tail(queue)
    BY <1>4, <2>1, TakeInOrder, SMT DEF Wanted, OneAtATime
  <2>2. CASE queue' = queue /\ held'.n = 0
    BY <1>4, <2>2, IdleInOrder, Numbered, SMT DEF Wanted, outVars
  <2>3. QED
    BY <1>4, <2>1, <2>2, DrainTakes DEF Wanted
<1>5. CASE PollEnds
  BY <1>4, <1>5 DEF PollEnds
<1>6. CASE Advance
  <2>1. CASE Drain
    BY <1>4, <1>6, <2>1 DEF Advance
  <2>2. CASE ~Drain
    BY <1>6, <2>2, IdleInOrder, Numbered, SMT DEF Advance, Wanted, Terminal, outVars
  <2>3. QED
    BY <2>1, <2>2
<1>7. CASE Interrupt
  BY <1>7, SMT DEF Interrupt, InOrder, outVars
<1>8. CASE Frame
  <2>1. frame.n = 0 /\ held'.n = 0 /\ frame' = held /\ sent' = sent
    BY <1>8, Numbered, SMT DEF Frame, OneAtATime
  <2>2. Taken' = Taken
    BY <2>1, Numbered, SMT DEF Taken
  <2>3. held.n > 0 => held.n = sent + 1
    BY <1>8, <2>1, Numbered, SMT DEF Frame, InOrder, Taken
  <2>4. QED
    BY <1>8, <2>1, <2>2, <2>3, SMT DEF Frame, InOrder
<1>9. CASE Receive
  <2>1. frame'.n = 0 /\ held' = held
    BY <1>9, Numbered, SMT DEF Receive, genVars
  <2>2. Taken' = Taken
    BY <1>9, <2>1, Numbered, SMT DEF Receive, Taken
  <2>3. QED
    BY <1>9, <2>1, <2>2, SMT DEF Receive, InOrder
<1>10. CASE Heartbeat \/ Exhausted \/ Left
  BY <1>10, IdleInOrder, SMT DEF Heartbeat, Exhausted, Left, genVars
<1>11. CASE Leave
  BY <1>11, SMT DEF Leave, InOrder
<1>12. CASE Agent
  BY <1>1, <1>2, <1>12, SMT DEF Agent, OnTurn, TurnPut, OnTraceOrClaim, Offer, StartBatch,
     AgentEnds, AgentCancelled, genVars, outVars
<1>13. QED
  BY <1>1, <1>2, <1>3, <1>5, <1>6, <1>7, <1>8, <1>9, <1>10, <1>11, <1>12, SMT
     DEF Next, vars, genVars, outVars, Driver, Closed, Transport, CallEnds, Asking, Ask,
         Register, Publish, Decide, Expire, AskReturns

-----------------------------------------------------------------------------
(* The invariant and what follows from it *)

LEMMA EventsStep ==
  ASSUME EventsInv, [Next]_vars
  PROVE  EventsInv'
  BY TypeStep, AskStep, EndStep, PlacesStep, OrderStep DEF EventsInv

LEMMA EventsCorrect == Spec => []EventsInv
<1>1. Init => EventsInv
  BY TypeInit, AskInit, EndInit, OrderInit DEF EventsInv
<1>2. EventsInv /\ [Next]_vars => EventsInv'
  BY EventsStep
<1>3. QED
  BY <1>1, <1>2, PTL DEF Spec

\* What driver.queue got reaches a client that stays in order, each event
\* once, however many polls and heartbeats timed out meanwhile.
THEOREM EventsInOrder == Spec => []InOrder
<1>1. EventsInv => InOrder
  BY DEF EventsInv
<1>2. QED
  BY <1>1, EventsCorrect, PTL

\* run() yields its terminal events after everything the agent put.
THEOREM TerminalComesLast == Spec => []TerminalIsLast
<1>1. EventsInv => TerminalIsLast
  BY DEF EventsInv
<1>2. QED
  BY <1>1, EventsCorrect, PTL

\* A question that nobody waits for is neither with the broker nor on its way.
THEOREM QuestionsAreWanted == Spec => []NothingAskedInVain
<1>1. EventsInv => NothingAskedInVain
  BY DEF EventsInv
<1>2. QED
  BY <1>1, EventsCorrect, PTL

\* run() does not end before its agent task, whoever ended it.
THEOREM NoAgentLeftBehind == Spec => []NoOrphanAgent
<1>1. EventsInv => NoOrphanAgent
  BY DEF EventsInv
<1>2. QED
  BY <1>1, EventsCorrect, PTL

-----------------------------------------------------------------------------
(* The stream the client sees *)

\* While the client stays, the generator is not closed under it; what it
\* yields behind its loops fits the way the agent ended, and is numbered as no
\* event of the queue; and the queue is empty when the generator is over.
EndFits ==
  beat \notin {"leaving", "closed"} =>
    /\ gen # "closing"
    /\ gen \in {"answered", "done"} => agent = "returned"
    /\ gen = "erred" => agent = "raised"
    /\ gen = "over" => queue = <<>> /\ beat # "sending"
    /\ gen \in {"answered", "done", "erred"} => held.n = 0 /\ frame.n = 0
    /\ beat = "exhausted" => gen = "over"

StreamInv == EventsInv /\ EndFits

\* What Drain does when it has nothing left to yield.
LEMMA DrainConcludes ==
  ASSUME Drain, held = Nothing
  PROVE  \/ gen' = "drained"
         \/ /\ queue = <<>> /\ queue' = <<>>
            /\ held'.n = 0
            /\ \/ gen' = "answered" /\ agent = "returned" /\ held' = Terminal("answer")
               \/ gen' = "erred" /\ agent = "raised" /\ held' = Terminal("error")
               \/ gen' = "over" /\ agent = "cancelled" /\ held' = Nothing
  BY SMT DEF Drain, Conclude, Terminal, Nothing

LEMMA EndFitsInit == Init => EndFits
  BY SMT DEF Init, EndFits

LEMMA EndFitsStep ==
  ASSUME EventsInv, EndFits, [Next]_vars
  PROVE  EndFits'
<1> USE DEF EndFits
<1>1. CASE Get
  BY <1>1, SMT DEF Get, Wanted, outVars
<1>2. CASE Drain /\ Wanted /\ UNCHANGED <<runVars, outVars>>
  BY <1>2, DrainConcludes, SMT DEF EventsInv, OneAtATime, Wanted, Nothing, runVars, outVars
<1>3. CASE PollEnds
  BY <1>2, <1>3 DEF PollEnds
<1>4. CASE Advance
  <2>1. CASE Drain
    BY <1>2, <1>4, <2>1 DEF Advance
  <2>2. CASE ~Drain
    BY <1>4, <2>2, SMT DEF Advance, Wanted, EventsInv, OneAtATime, TerminalIsLast,
       Nothing, Terminal, runVars, outVars
  <2>3. QED
    BY <2>1, <2>2
<1>5. CASE Interrupt
  BY <1>5, SMT DEF Interrupt, outVars
<1>6. CASE Closed
  BY <1>6, SMT DEF Closed, outVars
<1>7. CASE Frame
  BY <1>7, SMT DEF Frame, EventsInv, OneAtATime, Nothing, runVars
<1>8. CASE Heartbeat \/ Receive \/ Exhausted \/ Leave \/ Left
  BY <1>8, SMT DEF Heartbeat, Receive, Exhausted, Leave, Left, EventsInv, OneAtATime,
     Nothing, runVars, genVars
<1>9. CASE UNCHANGED <<gen, held, beat, frame>>
  BY <1>9, EndedStays, SMT DEF EventsInv, TerminalIsLast, NoOrphanAgent, Ended
<1>10. QED
  BY <1>1, <1>3, <1>4, <1>5, <1>6, <1>7, <1>8, <1>9, SMT
     DEF Next, vars, genVars, outVars, Agent, OnTurn, TurnPut, OnTraceOrClaim, StartBatch,
         AgentEnds, AgentCancelled, Driver, Transport, CallEnds, Asking, Ask, Register,
         Publish, Decide, Expire, AskReturns

LEMMA StreamCorrect == Spec => []StreamInv
<1>1. Init => StreamInv
  BY TypeInit, AskInit, EndInit, OrderInit, EndFitsInit DEF EventsInv, StreamInv
<1>2. StreamInv /\ [Next]_vars => StreamInv'
  BY EventsStep, EndFitsStep DEF StreamInv
<1>3. QED
  BY <1>1, <1>2, PTL DEF Spec

\* Told says nothing of an agent that is still there.
LEMMA ToldAlone ==
  ASSUME UNCHANGED <<gen, held, frame>>, gen = "over" => agent' = agent
  PROVE  Told' = Told
  BY SMT DEF Told, OnItsWay

\* Nothing is on its way behind a generator that may move.
LEMMA NothingOnItsWay ==
  ASSUME EventsInv, Wanted
  PROVE  ~OnItsWay
  BY DEF EventsInv, OneAtATime, Wanted, OnItsWay

\* What was put is received when the terminal events come.
LEMMA AllReceived ==
  ASSUME StreamInv, beat \notin {"leaving", "closed"}, frame.n = 0, held.n = 0, queue = <<>>
  PROVE  sent = serial
<1>1. Taken = sent
  BY Numbered, SMT DEF StreamInv, EventsInv, Taken
<1>2. QED
  BY <1>1, Numbered, SMT DEF StreamInv, EventsInv, InOrder

LEMMA StreamInit == Init => Stream!Init
  BY SMT DEF Init, Stream!Init, Stage, Told, OnItsWay, Ended

\* The agent and its callbacks make events, end the run, or do nothing that
\* the client can tell.
LEMMA AgentStreams ==
  ASSUME StreamInv, [Next]_vars, UNCHANGED <<genVars, beat, frame, sent>>
  PROVE  [Stream!Next]_Stream!streamVars
<1> USE DEF StreamInv, EventsInv
<1>1. Told' = Told /\ Stage' = Stage
  BY ToldAlone, EndedStays, SMT DEF NoOrphanAgent, genVars, Stage
<1>2. serial' = serial \/ (serial' = serial + 1 /\ agent' \notin Ended)
  <2>1. CASE Agent
    BY <2>1, SMT DEF Agent, OnTurn, TurnPut, OnTraceOrClaim, Offer, StartBatch, AgentEnds,
       AgentCancelled, Put, runVars, Ended
  <2>2. ASSUME NEW c \in Calls, Publish(c)
        PROVE  serial' = serial \/ (serial' = serial + 1 /\ agent' \notin Ended)
    BY <2>2, EndedStays, SMT DEF Publish, Put
  <2>3. CASE UNCHANGED serial
    BY <2>3
  <2>4. QED
    BY <2>1, <2>2, <2>3, Zenon
       DEF Next, vars, Driver, Get, PollEnds, Advance, Interrupt, Closed, Transport,
           Frame, Heartbeat, Receive, Exhausted, Leave, Left, CallEnds, Asking, Ask,
           Register, Decide, Expire, AskReturns
<1>3. CASE agent \in Ended
  BY <1>1, <1>3, EndedStays, SMT DEF Stream!streamVars
<1>4. CASE agent \notin Ended /\ agent' \in Ended
  <2>1. Stream!End
    BY <1>1, <1>2, <1>4, SMT DEF Stream!End, Ended
  <2>2. QED
    BY <2>1 DEF Stream!Next
<1>5. CASE agent \notin Ended /\ agent' \notin Ended
  <2>1. CASE serial' = serial
    BY <1>1, <1>5, <2>1 DEF Stream!streamVars
  <2>2. CASE serial' = serial + 1
    <3>1. Stream!Make
      BY <1>1, <1>5, <2>2 DEF Stream!Make
    <3>2. QED
      BY <3>1 DEF Stream!Next
  <2>3. QED
    BY <1>2, <2>1, <2>2
<1>6. QED
  BY <1>3, <1>4, <1>5

\* The generator takes from the queue and yields: the client sees none of it.
LEMMA DriverStreams ==
  ASSUME StreamInv, Driver
  PROVE  UNCHANGED Stream!streamVars
<1> USE DEF StreamInv
<1>1. CASE Drain /\ Wanted /\ gen \in {"getting", "yielded", "drained"}
           /\ UNCHANGED <<runVars, serial, outVars>>
  <2>1. ~OnItsWay
    BY <1>1, NothingOnItsWay
  <2>2. Told = "open"
    BY <1>1, <2>1, SMT DEF Told
  <2>3. Told' = "open"
    BY <1>1, DrainConcludes, SMT DEF Wanted, Told, OnItsWay, Terminal, Nothing, runVars
  <2>4. QED
    BY <1>1, <2>2, <2>3, SMT DEF Stream!streamVars, Stage, runVars, outVars
<1>2. CASE Get
  BY <1>2, SMT DEF Get, Stream!streamVars, Stage, Told, runVars, outVars
<1>3. CASE PollEnds
  BY <1>1, <1>3 DEF PollEnds
<1>4. CASE Advance
  <2>1. ~OnItsWay
    BY <1>4, NothingOnItsWay DEF Advance
  <2>2. CASE Drain /\ gen \in {"yielded", "drained"}
    BY <1>1, <1>4, <2>2 DEF Advance
  <2>3. CASE ~(Drain /\ gen \in {"yielded", "drained"})
    <3>1. Told' = Told
      BY <1>4, <2>1, <2>3, SMT
         DEF Advance, Wanted, EndFits, Told, OnItsWay, Terminal, Nothing, runVars
    <3>2. QED
      BY <1>4, <2>3, <3>1, SMT DEF Advance, Stream!streamVars, Stage, runVars, outVars
  <2>4. QED
    BY <2>2, <2>3
<1>5. CASE Interrupt
  BY <1>5, SMT DEF Interrupt, CancelAgent, Stream!streamVars, Stage, Ended, outVars
<1>6. CASE Closed
  BY <1>6, SMT DEF Closed, EndFits, Stream!streamVars, Stage, runVars, outVars
<1>7. QED
  BY <1>2, <1>3, <1>4, <1>5, <1>6 DEF Driver

\* What a client that stays is told is one of five.
LEMMA ToldValues == Told \in {"open", "answer", "done", "error"}
  BY SMT DEF Told

\* Each frame the transport delivers is the next event or the next thing told.
LEMMA ReceiveStreams ==
  ASSUME StreamInv, Receive
  PROVE  [Stream!Next]_Stream!streamVars
<1> USE DEF StreamInv
<1>1. /\ Stage = Told /\ Stage' = Told'
      /\ UNCHANGED <<agent, gen, held, queue, serial>>
      /\ frame' = Nothing
  BY SMT DEF Receive, Stage, runVars, genVars
<1>2. CASE frame.n > 0
  <2>1. gen \notin {"answered", "done", "erred"}
    BY <1>2, SMT DEF Receive, EndFits
  <2>2. gen # "over"
    BY <1>2, Numbered, SMT DEF Receive, EventsInv, OneAtATime, EndFits
  <2>3. Told = "open" /\ Told' = "open"
    BY <1>1, <2>1, <2>2, SMT DEF Told
  <2>4. sent < serial /\ sent' = sent + 1
    BY <1>2, Numbered, SMT DEF Receive, EventsInv, TypeOK, InOrder, Taken
  <2>5. Stream!Deliver
    BY <1>1, <2>3, <2>4, SMT DEF Stream!Deliver
  <2>6. QED
    BY <2>5 DEF Stream!Next
<1>3. CASE frame.n = 0 /\ Told' = Told
  BY <1>1, <1>3, SMT DEF Receive, Stream!streamVars
<1>4. CASE frame.n = 0 /\ Told' # Told
  <2>1. gen \in {"answered", "done", "erred"} /\ beat \notin {"leaving", "closed"}
    BY <1>1, <1>4, SMT DEF Told, Receive
  <2>2. held = Nothing /\ frame # Nothing
    BY <1>1, <1>4, <2>1, SMT DEF Told, OnItsWay, Receive, EventsInv, OneAtATime
  <2>3. /\ Told = IF gen = "done" THEN "answer" ELSE "open"
        /\ Told' = CASE gen = "answered" -> "answer" [] gen = "done" -> "done"
                     [] gen = "erred" -> "error"
    BY <1>1, <2>1, <2>2, SMT DEF Told, OnItsWay
  <2>4. agent \in Ended /\ queue = <<>> /\ sent' = sent
    BY <1>4, <2>1, SMT DEF EventsInv, TerminalIsLast, Receive
  <2>5. sent = serial
    BY <1>4, <2>1, <2>2, <2>4, AllReceived, SMT DEF EndFits
  <2>6. Stream!Tell
    BY <1>1, <2>1, <2>3, <2>4, <2>5, SMT
       DEF Stream!Tell, Stream!AllDelivered, EndFits, Ended
  <2>7. QED
    BY <2>6 DEF Stream!Next
<1>5. QED
  BY <1>2, <1>3, <1>4, Numbered, SMT DEF EventsInv

\* The stream ends behind everything, or its client leaves.
LEMMA TransportStreams ==
  ASSUME StreamInv, Transport
  PROVE  [Stream!Next]_Stream!streamVars
<1> USE DEF StreamInv
<1>1. CASE Frame
  BY <1>1, SMT DEF Frame, EventsInv, OneAtATime, Stream!streamVars, Stage, Told, OnItsWay, runVars
<1>2. CASE Heartbeat
  BY <1>2, SMT DEF Heartbeat, Stream!streamVars, Stage, Told, OnItsWay, runVars, genVars
<1>3. CASE Receive
  BY <1>3, ReceiveStreams
<1>4. CASE Exhausted
  <2>1. /\ agent \in Ended /\ queue = <<>> /\ held = Nothing /\ frame = Nothing
        /\ Stage = Told /\ Stage' = "complete"
    BY <1>4, SMT DEF Exhausted, EventsInv, OneAtATime, NoOrphanAgent, EndFits, Stage
  <2>2. sent = serial
    BY <1>4, <2>1, AllReceived, Numbered, SMT DEF Exhausted, EventsInv
  <2>3. Told \in {"done", "error"} \/ (Told = "open" /\ agent = "cancelled")
    BY <1>4, <2>1, SMT DEF Exhausted, Told, Ended
  <2>4. Stream!Complete
    BY <1>4, <2>1, <2>2, <2>3, SMT
       DEF Exhausted, Stream!Complete, Stream!AllDelivered, Ended, runVars
  <2>5. QED
    BY <2>4 DEF Stream!Next
<1>5. CASE Leave
  <2>1. Stage \in {"open", "answer", "done", "error"} /\ Stage' = "left"
    BY <1>5, ToldValues, SMT DEF Leave, Stage
  <2>2. Stream!Leave
    BY <1>5, <2>1, SMT DEF Leave, Stream!Leave, runVars
  <2>3. QED
    BY <2>2 DEF Stream!Next
<1>6. CASE Left
  BY <1>6, SMT DEF Left, Stream!streamVars, Stage, runVars
<1>7. QED
  BY <1>1, <1>2, <1>3, <1>4, <1>5, <1>6 DEF Transport

\* RunEvents implements EventStream, for any calls, any capacity of the queue
\* and any number of events: a client that stays gets every event in order,
\* then the answer of a run that returned or the error of one that raised, and
\* its stream does not end before that.
THEOREM RunImplementsEventStream == Spec => ImplementsEventStream
<1>1. Init => Stream!Init
  BY StreamInit
<1>2. StreamInv /\ [Next]_vars => [Stream!Next]_Stream!streamVars
  <2>1. SUFFICES ASSUME StreamInv, [Next]_vars
                 PROVE  [Stream!Next]_Stream!streamVars
    OBVIOUS
  <2>2. CASE UNCHANGED <<genVars, beat, frame, sent>>
    BY <2>1, <2>2, AgentStreams
  <2>3. CASE Driver
    BY <2>1, <2>3, DriverStreams
  <2>4. CASE Transport
    BY <2>1, <2>4, TransportStreams
  <2>5. QED
    BY <2>1, <2>2, <2>3, <2>4, SMT
       DEF Next, vars, genVars, outVars, Agent, OnTurn, TurnPut, OnTraceOrClaim,
           StartBatch, AgentEnds, AgentCancelled, CallEnds, Asking, Ask, Register,
           Publish, Decide, Expire, AskReturns
<1>3. QED
  BY <1>1, <1>2, StreamCorrect, PTL DEF Spec, ImplementsEventStream, Stream!Spec

-----------------------------------------------------------------------------
(* The runs of a WebSocket *)

USE RunsAssumption

\* The run that is announced but not yet launched has no task.
StartingIsFresh ==
  handler = "starting" =>
    busy \in Runs /\ slot = "none" /\ pump[busy] = "unused"

\* How far the agent of a run can be, given its pump.
PumpAndAgent ==
  \A r \in Runs :
    /\ pump[r] \in {"unused", "scheduled"} => agent_task[r] = "unused"
    /\ pump[r] = "closing" => agent_task[r] = "ended"

\* Only a launched run is cancelled, by its client or by the closing handler;
\* nothing else marks a run, and a marked run leaves the slot.
DoomedRuns ==
  /\ \A r \in doomed : pump[r] # "unused"
  /\ \A r \in told : r \in doomed \/ pump[r] = "finished"
  /\ \A r \in Runs : pump[r] = "unwinding" => r \in doomed
  /\ handler # "closed" => slot \notin doomed
  /\ handler # "closed" /\ told = {} => doomed = {}

SessionInv ==
  /\ WsTypeOK
  /\ StartingIsFresh
  /\ PumpAndAgent
  /\ DoomedRuns
  /\ RefusalIsHonest
  /\ OneRunUntilCancelled

\* The step shape shared by the proofs: the handler, the connection, or one
\* of the tasks of one run moves.
LEMMA SessionCases ==
  ASSUME [WsNext]_wsVars, NEW P,
         \A r \in Runs : Start(r) => P,
         Launch => P, Cancel => P, Answered => P, CloseSocket => P, Disconnect => P,
         \A r \in Runs : PumpStep(r) => P,
         \A r \in Runs : CloseGenerator(r) => P,
         \A r \in Runs : AgentReturns(r) \/ AgentUnwinds(r) => P,
         UNCHANGED wsVars => P
  PROVE  P
BY DEF WsNext, HandlerStep

LEMMA SessionInvInit == WsInit => SessionInv
BY DEF WsInit, SessionInv, WsTypeOK, StartingIsFresh, PumpAndAgent, DoomedRuns,
       RefusalIsHonest, OneRunUntilCancelled, Live

\* The pump of a run never disturbs the invariant.
LEMMA PumpKeepsInv ==
  ASSUME SessionInv, NEW r \in Runs, PumpStep(r)
  PROVE  SessionInv'
<1> USE DEF SessionInv, WsTypeOK, StartingIsFresh, PumpAndAgent, DoomedRuns,
            RefusalIsHonest, OneRunUntilCancelled, Live
<1>1. CASE Begin(r)
  BY <1>1 DEF Begin
<1>2. CASE NeverBegin(r)
  BY <1>2 DEF NeverBegin
<1>3. CASE Forward(r)
  BY <1>3 DEF Forward
<1>4. CASE Forwarded(r)
  BY <1>4 DEF Forwarded
<1>5. CASE SendLast(r)
  BY <1>5 DEF SendLast
<1>6. CASE Complete(r)
  BY <1>6 DEF Complete, PumpEnds
<1>7. CASE BreakOff(r)
  BY <1>7 DEF BreakOff, PumpEnds
<1>8. CASE CancelRun(r)
  BY <1>8 DEF CancelRun
<1>9. CASE ReturnCancelled(r)
  BY <1>9 DEF ReturnCancelled, PumpEnds
<1> QED BY <1>1, <1>2, <1>3, <1>4, <1>5, <1>6, <1>7, <1>8, <1>9 DEF PumpStep

LEMMA SessionInvStep ==
  ASSUME SessionInv, [WsNext]_wsVars
  PROVE  SessionInv'
<1> USE DEF SessionInv, WsTypeOK, StartingIsFresh, PumpAndAgent, DoomedRuns,
            RefusalIsHonest, OneRunUntilCancelled, Live
<1>1. ASSUME NEW r \in Runs, Start(r) PROVE SessionInv'
  BY <1>1 DEF Start
<1>2. CASE Launch
  BY <1>2 DEF Launch
<1>3. CASE Cancel
  BY <1>3 DEF Cancel, Doom
<1>4. CASE Answered
  BY <1>4 DEF Answered
<1>5. CASE CloseSocket
  BY <1>5 DEF CloseSocket, Doom
<1>6. CASE Disconnect
  BY <1>6 DEF Disconnect
<1>7. ASSUME NEW r \in Runs, PumpStep(r) PROVE SessionInv'
  BY <1>7, PumpKeepsInv
<1>8. ASSUME NEW r \in Runs, CloseGenerator(r) PROVE SessionInv'
  BY <1>8 DEF CloseGenerator
<1>9. ASSUME NEW r \in Runs, AgentReturns(r) \/ AgentUnwinds(r) PROVE SessionInv'
  BY <1>9 DEF AgentReturns, AgentUnwinds
<1>10. CASE UNCHANGED wsVars
  BY <1>10 DEF wsVars
<1> QED BY <1>1, <1>2, <1>3, <1>4, <1>5, <1>6, <1>7, <1>8, <1>9, <1>10, SessionCases

\* The inductive invariant holds throughout.
THEOREM SessionInvariant == WsSpec => []SessionInv
BY SessionInvInit, SessionInvStep, PTL DEF WsSpec

-----------------------------------------------------------------------------
(* What it says about the socket *)

\* Every reachable state is well typed.
THEOREM SessionTypes == WsSpec => []WsTypeOK
<1>1. SessionInv => WsTypeOK
  BY DEF SessionInv
<1> QED BY <1>1, SessionInvariant, PTL

\* While the socket is served its slot never names a run that has ended, so
\* nobody is refused a run on behalf of a dead one.
THEOREM RefusalsAreHonest == WsSpec => []RefusalIsHonest
<1>1. SessionInv => RefusalIsHonest
  BY DEF SessionInv
<1> QED BY <1>1, SessionInvariant, PTL

\* One run at a time, and that one cancellable, as long as no run of the
\* socket was cancelled.
THEOREM OneRunBeforeCancel == WsSpec => []OneRunUntilCancelled
<1>1. SessionInv => OneRunUntilCancelled
  BY DEF SessionInv
<1> QED BY <1>1, SessionInvariant, PTL

\* After the answer to session.cancel no event of the run is sent.
THEOREM CancelledRunsAreSilent == WsSpec => SilentOnceCancelled
<1> DEFINE Silent ==
      \A r \in told : pump'[r] \in {"sending", "closing"} => pump'[r] = pump[r]
<1>1. SessionInv /\ [WsNext]_wsVars => [Silent]_wsVars
  <2> SUFFICES ASSUME SessionInv, WsNext, NEW q \in told,
                      pump'[q] \in {"sending", "closing"}
               PROVE  pump'[q] = pump[q]
    OBVIOUS
  <2>1. q \in Runs /\ (q \in doomed \/ pump[q] = "finished")
    BY DEF SessionInv, WsTypeOK, DoomedRuns
  <2> USE DEF SessionInv, WsTypeOK
  <2>2. ASSUME NEW r \in Runs, PumpStep(r) PROVE pump'[q] = pump[q]
    BY <2>1, <2>2
    DEF PumpStep, Begin, NeverBegin, Forward, Forwarded, SendLast, Complete,
        BreakOff, CancelRun, ReturnCancelled, PumpEnds
  <2>3. CASE Launch
    BY <2>1, <2>3 DEF Launch
  <2>4. CASE UNCHANGED pump
    BY <2>4
  <2>5. UNCHANGED pump \/ Launch \/ \E r \in Runs : PumpStep(r)
    BY DEF WsNext, HandlerStep, Start, Cancel, Answered, CloseSocket, Disconnect,
           CloseGenerator, AgentReturns, AgentUnwinds
  <2> QED BY <2>2, <2>3, <2>4, <2>5
<1> QED BY <1>1, SessionInvariant, PTL DEF WsSpec, SilentOnceCancelled
=============================================================================
