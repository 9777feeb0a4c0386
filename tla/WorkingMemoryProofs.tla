------------------------ MODULE WorkingMemoryProofs ------------------------
(***************************************************************************)
(* Theorems about WorkingMemory, for every number of turns, processes and  *)
(* messages: who may summarize a session, what its summary covers, when    *)
(* its cursor moves back, and what a deleted session leaves.              *)
(***************************************************************************)
EXTENDS WorkingMemory, TLAPS

USE NoTurnAssumption, KeepLastAssumption, MaxMessagesAssumption,
    CacheFailsAssumption

\* The step shape shared by the proofs.
LEMMA NextCases ==
  ASSUME [Next]_vars, NEW P,
         AddMessage => P, Forget => P, LeaseEnds => P,
         \A t \in Turns : Load(t) => P,
         \A t \in Turns : Begin(t) => P,
         \A t \in Turns : Skip(t) => P,
         \A t \in Turns : Summarized(t) => P,
         \A t \in Turns : GiveUp(t) => P,
         \A t \in Turns : Curated(t) => P,
         \A t \in Turns : NotCurated(t) => P,
         \A p \in Processes : Crash(p) => P,
         UNCHANGED vars => P
  PROVE  P
BY DEF Next, SummaryReturns, CurationReturns

-----------------------------------------------------------------------------
(* Type correctness *)

\* A turn that waits, and a compression that runs, have a span.
SpansExist ==
  \A t \in Turns :
    /\ at[t] = "answering" => pending[t] \in Spans
    /\ at[t] \in Active => span[t] \in Spans /\ pending[t] \in Spans

LEMMA BlankIsState == Blank \in States
BY DEF Blank, States, Messages

LEMMA TrimIsSpan ==
  ASSUME NEW state \in States, NEW loaded \in Spans
  PROVE  /\ Trim(state, loaded).first \in Nat \ {0}
         /\ Trim(state, loaded).first >= loaded.first
         /\ Trim(state, loaded).last = loaded.last
         /\ Trim(state, loaded) = [first |-> Trim(state, loaded).first,
                                   last |-> loaded.last]
BY DEF Trim, States, Spans, Messages

LEMMA FoldedIsState ==
  ASSUME NEW t \in Turns, NEW state \in States, prior[t] \in States,
         span[t] \in Spans
  PROVE  /\ Folded(t, state) \in States
         /\ Folded(t, state).through = span[t].last
         /\ Folded(t, state).covers =
              prior[t].covers \union span[t].first .. span[t].last
<1> DEFINE folded == prior[t].covers \union span[t].first .. span[t].last
<1>1. folded \in SUBSET Messages /\ span[t].last \in 0 .. MaxMessages
  BY DEF States, Spans, Messages
<1>2. state.curated \in 0 .. MaxMessages
  BY DEF States
<1> QED BY <1>1, <1>2 DEF Folded, States

LEMMA UncoveredIsSpan ==
  ASSUME NEW state \in States, NEW dropped \in 0 .. MaxMessages,
         Uncovered(state, dropped).first <= Uncovered(state, dropped).last
  PROVE  Uncovered(state, dropped) \in Spans
<1>1. Uncovered(state, dropped).first \in 1 .. MaxMessages
  BY DEF Uncovered, States
<1>2. Uncovered(state, dropped).last \in 1 .. MaxMessages
  BY <1>1 DEF Uncovered, States
<1> QED BY <1>1, <1>2 DEF Uncovered, Spans, Messages

Typed == TypeOK /\ SpansExist

LEMMA InitTyped == Init => Typed
<1> SUFFICES ASSUME Init PROVE Typed
  OBVIOUS
<1>1. count \in 0 .. MaxMessages
  BY DEF Init
<1>2. /\ stored \in States
      /\ prior \in [Turns -> States]
  BY BlankIsState DEF Init
<1>3. /\ pending \in [Turns -> Spans \union {NoSpan}]
      /\ span \in [Turns -> Spans \union {NoSpan}]
  BY DEF Init
<1>4. /\ at \in [Turns -> {"new", "answering", "done"} \union Active]
      /\ \A t \in Turns : at[t] = "new"
  BY DEF Init
<1>5. SpansExist
  BY <1>4 DEF SpansExist, Active
<1>6. TypeOK
  BY <1>1, <1>2, <1>3, <1>4 DEF Init, TypeOK
<1> QED BY <1>5, <1>6 DEF Typed

LEMMA TypedStep ==
  ASSUME Typed, [Next]_vars
  PROVE  Typed'
<1> USE DEF Typed, TypeOK, SpansExist, session, locks, Active
<1>1. CASE AddMessage
  BY <1>1 DEF AddMessage
<1>2. CASE Forget
  BY <1>2, BlankIsState DEF Forget
<1>3. CASE LeaseEnds
  BY <1>3 DEF LeaseEnds
<1>4. ASSUME NEW t \in Turns, Load(t) PROVE Typed'
  <2>1. PICK dropped \in 0 .. count - 1, state \in {stored, Blank} :
          Schedule(t, Uncovered(state, dropped))
    BY <1>4 DEF Load
  <2>2. state \in States /\ dropped \in 0 .. MaxMessages
    BY <2>1, BlankIsState
  <2>3. /\ pending' \in [Turns -> Spans \union {NoSpan}]
        /\ at' \in [Turns -> {"new", "answering", "done"} \union Active]
        /\ \A u \in Turns :
             /\ at'[u] = "answering" => pending'[u] \in Spans
             /\ at'[u] \in Active =>
                  at[u] = at'[u] /\ pending'[u] = pending[u]
    BY <1>4, <2>1, <2>2, UncoveredIsSpan DEF Schedule, Load
  <2> QED BY <1>4, <2>3 DEF Load
<1>5. ASSUME NEW t \in Turns, Begin(t) PROVE Typed'
  <2>1. PICK state \in {stored, Blank} :
          /\ \E last \in Trim(state, pending[t]).first .. Trim(state, pending[t]).last :
               span' = [span EXCEPT ![t] =
                         [first |-> Trim(state, pending[t]).first, last |-> last]]
          /\ prior' = [prior EXCEPT ![t] = state]
    BY <1>5 DEF Begin
  <2>2. state \in States /\ pending[t] \in Spans
    BY <1>5, <2>1, BlankIsState DEF Begin
  <2>3. Trim(state, pending[t]).last = pending[t].last
    BY <2>2, TrimIsSpan
  <2>4. \A last \in Trim(state, pending[t]).first .. pending[t].last :
          [first |-> Trim(state, pending[t]).first, last |-> last] \in Spans
    BY <2>2, TrimIsSpan DEF Spans, Messages
  <2>5. span' \in [Turns -> Spans \union {NoSpan}] /\ span'[t] \in Spans
    BY <2>1, <2>3, <2>4
  <2>6. prior' \in [Turns -> States]
    BY <2>1, <2>2
  <2>7. at' = [at EXCEPT ![t] = "summarizing"] /\ pending' = pending
    BY <1>5 DEF Begin
  <2>8. \A u \in Turns : u # t => span'[u] = span[u]
    BY <2>1
  <2>9. SpansExist'
    BY <2>2, <2>5, <2>7, <2>8
  <2>10. TypeOK'
    BY <1>5, <2>5, <2>6 DEF Begin
  <2> QED BY <2>9, <2>10
<1>6. ASSUME NEW t \in Turns, Skip(t) PROVE Typed'
  BY <1>6 DEF Skip
<1>7. ASSUME NEW t \in Turns, Summarized(t) PROVE Typed'
  <2>1. PICK current \in {stored, Blank} : stored' = Folded(t, current)
    BY <1>7 DEF Summarized
  <2>2. stored' \in States
    BY <1>7, <2>1, FoldedIsState, BlankIsState DEF Summarized
  <2> QED BY <1>7, <2>2 DEF Summarized, Release
<1>8. ASSUME NEW t \in Turns, GiveUp(t) PROVE Typed'
  BY <1>8 DEF GiveUp, Release
<1>9. ASSUME NEW t \in Turns, Curated(t) PROVE Typed'
  <2>1. stored' \in States
    BY <1>9 DEF Curated, States, Spans, Messages
  <2> QED BY <1>9, <2>1 DEF Curated, Release
<1>10. ASSUME NEW t \in Turns, NotCurated(t) PROVE Typed'
  BY <1>10 DEF NotCurated, Release
<1>11. ASSUME NEW p \in Processes, Crash(p) PROVE Typed'
  BY <1>11 DEF Crash
<1>12. CASE UNCHANGED vars
  BY <1>12 DEF vars
<1> HIDE DEF Typed
<1> QED BY <1>1, <1>2, <1>3, <1>4, <1>5, <1>6, <1>7, <1>8, <1>9, <1>10, <1>11,
           <1>12, NextCases

\* Every reachable state is well typed: above all, no compression is started
\* on an empty span.
THEOREM TypeCorrect == Spec => []TypeOK
<1>1. Typed => TypeOK
  BY DEF Typed
<1> QED BY <1>1, InitTyped, TypedStep, PTL DEF Spec

-----------------------------------------------------------------------------
(* Mutual exclusion *)

\* What a running compression holds.  A lease that runs out under one is the
\* only way to run without the lock.
Holds ==
  \A t \in Turns : at[t] \in Active =>
    /\ process[t] \in inflight
    /\ ~lapsed => holder = t

LockInv == Typed /\ Holds /\ OneCompression

LEMMA LockInvStep ==
  ASSUME LockInv, [Next]_vars
  PROVE  LockInv'
<1> Typed'
  BY TypedStep DEF LockInv
<1> USE DEF LockInv, Typed, TypeOK, Holds, OneCompression, session, locks, Active
<1>1. CASE AddMessage
  BY <1>1 DEF AddMessage
<1>2. CASE Forget
  BY <1>2 DEF Forget
<1>3. CASE LeaseEnds
  BY <1>3 DEF LeaseEnds
<1>4. ASSUME NEW t \in Turns, Load(t) PROVE LockInv'
  <2>1. \A u \in Turns : at'[u] \in Active => at[u] = at'[u]
    BY <1>4 DEF Load, Schedule
  <2> QED BY <1>4, <2>1 DEF Load
<1>5. ASSUME NEW t \in Turns, Begin(t) PROVE LockInv'
  BY <1>5 DEF Begin, Free
<1>6. ASSUME NEW t \in Turns, Skip(t) PROVE LockInv'
  BY <1>6 DEF Skip
<1>7. ASSUME NEW t \in Turns, Summarized(t) PROVE LockInv'
  BY <1>7 DEF Summarized, Release
<1>8. ASSUME NEW t \in Turns, GiveUp(t) PROVE LockInv'
  BY <1>8 DEF GiveUp, Release
<1>9. ASSUME NEW t \in Turns, Curated(t) PROVE LockInv'
  BY <1>9 DEF Curated, Release
<1>10. ASSUME NEW t \in Turns, NotCurated(t) PROVE LockInv'
  BY <1>10 DEF NotCurated, Release
<1>11. ASSUME NEW p \in Processes, Crash(p) PROVE LockInv'
  BY <1>11 DEF Crash
<1>12. CASE UNCHANGED vars
  BY <1>12 DEF vars
<1> HIDE DEF LockInv
<1> QED BY <1>1, <1>2, <1>3, <1>4, <1>5, <1>6, <1>7, <1>8, <1>9, <1>10, <1>11,
           <1>12, NextCases

LEMMA InitLockInv == Init => LockInv
<1> SUFFICES ASSUME Init PROVE LockInv
  OBVIOUS
<1>1. \A t \in Turns : at[t] \notin Active
  BY DEF Init, Active
<1> QED BY <1>1, InitTyped DEF LockInv, Holds, OneCompression

LEMMA LockInvariant == Spec => []LockInv
<1> QED BY InitLockInv, LockInvStep, PTL DEF Spec

\* Two compressions of a session run at the same time only in two processes,
\* and only after a lease ran out under one of them.
THEOREM CompressionsExclude == Spec => []OneCompression
<1>1. LockInv => OneCompression
  BY DEF LockInv
<1> QED BY <1>1, LockInvariant, PTL

-----------------------------------------------------------------------------
(* What the summary covers, while the cache answers *)

\* A compression that runs alone has read the state it will replace.
PriorIsStored ==
  ~forgotten /\ ~lapsed =>
    \A t \in Turns : at[t] = "summarizing" =>
      prior[t].through = stored.through /\ prior[t].covers = stored.covers

\* The messages before a pending or summarized span are already covered.
SpansStartCovered ==
  ~forgotten /\ ~lapsed =>
    \A t \in Turns :
      /\ at[t] = "answering" => 1 .. pending[t].first - 1 \subseteq stored.covers
      /\ at[t] = "summarizing" => 1 .. span[t].first - 1 \subseteq stored.covers

GapInv == LockInv /\ PriorIsStored /\ SpansStartCovered /\ SummaryHasNoGap

LEMMA GapInvStep ==
  ASSUME GapInv, ~CacheFails, [Next]_vars
  PROVE  GapInv'
<1> LockInv'
  BY LockInvStep DEF GapInv
<1> USE DEF GapInv, PriorIsStored, SpansStartCovered, SummaryHasNoGap, session,
            locks, Active
<1> Typed
  BY DEF LockInv
<1>1. CASE AddMessage
  BY <1>1 DEF AddMessage
<1>2. CASE Forget
  BY <1>2 DEF Forget
<1>3. CASE LeaseEnds
  BY <1>3 DEF LeaseEnds
<1>4. ASSUME NEW t \in Turns, Load(t) PROVE GapInv'
  <2>1. PICK dropped \in 0 .. count - 1 : Schedule(t, Uncovered(stored, dropped))
    BY <1>4 DEF Load, Read
  <2>2. ~lapsed => 1 .. Uncovered(stored, dropped).first - 1 \subseteq stored.covers
    BY <1>4, <2>1 DEF Uncovered, Load, Typed, TypeOK, States
  <2>3. \A u \in Turns :
          /\ at'[u] = "summarizing" => at[u] = "summarizing"
          /\ at'[u] = "answering" =>
               \/ at[u] = "answering" /\ pending'[u] = pending[u]
               \/ pending'[u] = Uncovered(stored, dropped)
    BY <1>4, <2>1 DEF Schedule, Load, Typed, TypeOK
  <2> QED BY <1>4, <2>2, <2>3 DEF Load
<1>5. ASSUME NEW t \in Turns, Begin(t) PROVE GapInv'
  <2>1. PICK last \in Trim(stored, pending[t]).first .. Trim(stored, pending[t]).last :
          /\ span' = [span EXCEPT ![t] =
                       [first |-> Trim(stored, pending[t]).first, last |-> last]]
          /\ prior' = [prior EXCEPT ![t] = stored]
    BY <1>5 DEF Begin, Read
  <2>2. pending[t] \in Spans /\ stored \in States
    BY <1>5 DEF Begin, Typed, TypeOK, SpansExist
  <2>3. span'[t].first = Trim(stored, pending[t]).first /\ prior'[t] = stored
    BY <2>1, <2>2, TrimIsSpan DEF Typed, TypeOK
  <2>4. \/ span'[t].first = pending[t].first
        \/ span'[t].first - 1 = stored.through
    BY <2>2, <2>3 DEF Trim, States, Spans, Messages
  <2>5. \A u \in Turns : u # t =>
          at'[u] = at[u] /\ span'[u] = span[u] /\ prior'[u] = prior[u]
    BY <1>5, <2>1 DEF Begin, Typed, TypeOK
  <2>6. ~forgotten /\ ~lapsed => 1 .. span'[t].first - 1 \subseteq stored.covers
    BY <1>5, <2>4 DEF Begin
  <2>7. at'[t] = "summarizing"
    BY <1>5 DEF Begin, Typed, TypeOK
  <2> QED BY <1>5, <2>3, <2>5, <2>6, <2>7 DEF Begin
<1>6. ASSUME NEW t \in Turns, Skip(t) PROVE GapInv'
  BY <1>6 DEF Skip, Typed, TypeOK
<1>7. ASSUME NEW t \in Turns, Summarized(t) PROVE GapInv'
  <2>1. stored' = Folded(t, stored)
    BY <1>7 DEF Summarized, Read
  <2>2. /\ span[t] \in Spans /\ stored \in States /\ prior[t] \in States
        /\ at[t] = "summarizing"
    BY <1>7 DEF Summarized, Typed, TypeOK, SpansExist
  <2>3. /\ stored'.through = span[t].last
        /\ stored'.covers = prior[t].covers \union span[t].first .. span[t].last
    BY <2>1, <2>2, FoldedIsState
  <2>4. forgotten' = forgotten /\ lapsed' = lapsed /\ pending' = pending
        /\ span' = span
    BY <1>7 DEF Summarized, Release
  <2>5. at' \in [Turns -> {"new", "answering", "done"} \union Active]
        /\ at'[t] # "summarizing" /\ at'[t] # "answering"
        /\ \A u \in Turns : u # t => at'[u] = at[u]
    BY <1>7 DEF Summarized, Release, Typed, TypeOK
  <2>6. ~lapsed => \A u \in Turns : u # t => at[u] # "summarizing"
    BY <2>2 DEF LockInv, OneCompression
  <2>7. ASSUME ~forgotten, ~lapsed
        PROVE  /\ stored.covers \subseteq stored'.covers
               /\ 1 .. span[t].last \subseteq stored'.covers
    BY <2>2, <2>3, <2>7 DEF Spans, Messages
  <2> QED BY <2>3, <2>4, <2>5, <2>6, <2>7
<1>8. ASSUME NEW t \in Turns, GiveUp(t) PROVE GapInv'
  BY <1>8 DEF GiveUp, Release, Typed, TypeOK
<1>9. ASSUME NEW t \in Turns, Curated(t) PROVE GapInv'
  <2>1. stored'.through = stored.through /\ stored'.covers = stored.covers
    BY <1>9 DEF Curated, Typed, TypeOK, States
  <2> QED BY <1>9, <2>1 DEF Curated, Release, Typed, TypeOK
<1>10. ASSUME NEW t \in Turns, NotCurated(t) PROVE GapInv'
  BY <1>10 DEF NotCurated, Release, Typed, TypeOK
<1>11. ASSUME NEW p \in Processes, Crash(p) PROVE GapInv'
  BY <1>11 DEF Crash, Typed, TypeOK
<1>12. CASE UNCHANGED vars
  BY <1>12 DEF vars
<1> HIDE DEF GapInv
<1> QED BY <1>1, <1>2, <1>3, <1>4, <1>5, <1>6, <1>7, <1>8, <1>9, <1>10, <1>11,
           <1>12, NextCases

\* While reads of the cache succeed and no lease runs out under a compression,
\* every message before the cursor went into the summary.
THEOREM SummaryIsComplete ==
  ASSUME ~CacheFails
  PROVE  Spec => []SummaryHasNoGap
<1>1. Init => GapInv
  <2> SUFFICES ASSUME Init PROVE GapInv
    OBVIOUS
  <2>1. \A t \in Turns : at[t] = "new"
    BY DEF Init
  <2>2. stored.through = 0 /\ stored.covers = {}
    BY DEF Init, Blank
  <2>3. SummaryHasNoGap
    BY <2>2 DEF SummaryHasNoGap
  <2>4. PriorIsStored /\ SpansStartCovered
    BY <2>1 DEF PriorIsStored, SpansStartCovered
  <2> QED BY <2>3, <2>4, InitLockInv DEF GapInv
<1>2. GapInv /\ [Next]_vars => GapInv'
  BY GapInvStep
<1>3. GapInv => SummaryHasNoGap
  BY DEF GapInv
<1> QED BY <1>1, <1>2, <1>3, PTL DEF Spec

-----------------------------------------------------------------------------
(* When the cursor can move back *)

\* A compression whose span ends before the cursor it read was outrun.
OutrunSpans ==
  \A t \in Turns :
    at[t] = "summarizing" /\ span[t].last <= prior[t].through =>
      pending[t].last < prior[t].through

OutrunInv == Typed /\ OutrunSpans

LEMMA OutrunStep ==
  ASSUME OutrunInv, ~CacheFails, [Next]_vars
  PROVE  OutrunInv'
<1> Typed /\ Typed'
  BY TypedStep DEF OutrunInv
<1> USE DEF OutrunInv, OutrunSpans, session, locks
<1>1. CASE AddMessage
  BY <1>1 DEF AddMessage
<1>2. CASE Forget
  BY <1>2 DEF Forget
<1>3. CASE LeaseEnds
  BY <1>3 DEF LeaseEnds
<1>4. ASSUME NEW t \in Turns, Load(t) PROVE OutrunInv'
  <2>1. \A u \in Turns : at'[u] = "summarizing" =>
          at[u] = "summarizing" /\ pending'[u] = pending[u]
    BY <1>4 DEF Load, Schedule, Typed, TypeOK
  <2> QED BY <1>4, <2>1 DEF Load
<1>5. ASSUME NEW t \in Turns, Begin(t) PROVE OutrunInv'
  <2>1. PICK last \in Trim(stored, pending[t]).first .. Trim(stored, pending[t]).last :
          /\ span' = [span EXCEPT ![t] =
                       [first |-> Trim(stored, pending[t]).first, last |-> last]]
          /\ prior' = [prior EXCEPT ![t] = stored]
    BY <1>5 DEF Begin, Read
  <2>2. pending[t] \in Spans /\ stored \in States
    BY <1>5 DEF Begin, Typed, TypeOK, SpansExist
  <2>3. span'[t].last = last /\ prior'[t] = stored
    BY <2>1 DEF Typed, TypeOK
  <2>4. last <= stored.through => pending[t].last < stored.through
    BY <2>1, <2>2 DEF Trim, States, Spans, Messages
  <2>5. \A u \in Turns : u # t =>
          at'[u] = at[u] /\ span'[u] = span[u] /\ prior'[u] = prior[u]
    BY <1>5, <2>1 DEF Begin, Typed, TypeOK
  <2>6. pending' = pending
    BY <1>5 DEF Begin
  <2> QED BY <2>3, <2>4, <2>5, <2>6
<1>6. ASSUME NEW t \in Turns, Skip(t) PROVE OutrunInv'
  BY <1>6 DEF Skip, Typed, TypeOK
<1>7. ASSUME NEW t \in Turns, Summarized(t) PROVE OutrunInv'
  BY <1>7 DEF Summarized, Release, Typed, TypeOK
<1>8. ASSUME NEW t \in Turns, GiveUp(t) PROVE OutrunInv'
  BY <1>8 DEF GiveUp, Release, Typed, TypeOK
<1>9. ASSUME NEW t \in Turns, Curated(t) PROVE OutrunInv'
  BY <1>9 DEF Curated, Release, Typed, TypeOK
<1>10. ASSUME NEW t \in Turns, NotCurated(t) PROVE OutrunInv'
  BY <1>10 DEF NotCurated, Release, Typed, TypeOK
<1>11. ASSUME NEW p \in Processes, Crash(p) PROVE OutrunInv'
  BY <1>11 DEF Crash, Typed, TypeOK
<1>12. CASE UNCHANGED vars
  BY <1>12 DEF vars
<1> HIDE DEF OutrunInv
<1> QED BY <1>1, <1>2, <1>3, <1>4, <1>5, <1>6, <1>7, <1>8, <1>9, <1>10, <1>11,
           <1>12, NextCases

\* What a step may do to the cursor.
RollsBackOnlyOutrun ==
  stored'.through < stored.through /\ forgotten' = forgotten =>
    \E t \in Turns :
      /\ at[t] = "summarizing" /\ stored'.through = span[t].last
      /\ pending[t].last < stored.through

LEMMA RollBackStep ==
  ASSUME OutrunInv, ~CacheFails, [Next]_vars
  PROVE  RollsBackOnlyOutrun
<1> Typed
  BY DEF OutrunInv
<1>1. stored \in States /\ stored.through \in Nat
  BY DEF Typed, TypeOK, States
<1>2. stored' = stored => RollsBackOnlyOutrun
  BY <1>1 DEF RollsBackOnlyOutrun
<1>3. CASE Forget
  BY <1>3 DEF Forget, RollsBackOnlyOutrun
<1>4. ASSUME NEW t \in Turns, Summarized(t) PROVE RollsBackOnlyOutrun
  <2>1. /\ at[t] = "summarizing"
        /\ stored.through = prior[t].through
        /\ stored' = Folded(t, stored)
    BY <1>4 DEF Summarized, Read
  <2>2. /\ stored'.through = span[t].last
        /\ span[t].last \in Nat
    BY <1>1, <2>1, FoldedIsState
    DEF Typed, TypeOK, SpansExist, Active, Spans, Messages
  <2>3. span[t].last <= stored.through => pending[t].last < stored.through
    BY <2>1 DEF OutrunInv, OutrunSpans
  <2> QED BY <1>1, <2>1, <2>2, <2>3 DEF RollsBackOnlyOutrun
<1>5. ASSUME NEW t \in Turns, Curated(t) PROVE RollsBackOnlyOutrun
  <2>1. stored'.through = stored.through
    BY <1>1, <1>5 DEF Curated, States
  <2> QED BY <1>1, <2>1 DEF RollsBackOnlyOutrun
<1>6. CASE AddMessage
  BY <1>2, <1>6 DEF AddMessage
<1>7. CASE LeaseEnds
  BY <1>2, <1>7 DEF LeaseEnds
<1>8. ASSUME NEW t \in Turns, Load(t) PROVE RollsBackOnlyOutrun
  BY <1>2, <1>8 DEF Load
<1>9. ASSUME NEW t \in Turns, Begin(t) PROVE RollsBackOnlyOutrun
  BY <1>2, <1>9 DEF Begin
<1>10. ASSUME NEW t \in Turns, Skip(t) PROVE RollsBackOnlyOutrun
  BY <1>2, <1>10 DEF Skip
<1>11. ASSUME NEW t \in Turns, GiveUp(t) PROVE RollsBackOnlyOutrun
  BY <1>2, <1>11 DEF GiveUp
<1>12. ASSUME NEW t \in Turns, NotCurated(t) PROVE RollsBackOnlyOutrun
  BY <1>2, <1>12 DEF NotCurated
<1>13. ASSUME NEW p \in Processes, Crash(p) PROVE RollsBackOnlyOutrun
  BY <1>2, <1>13 DEF Crash
<1>14. CASE UNCHANGED vars
  BY <1>2, <1>14 DEF vars
<1> QED BY <1>3, <1>4, <1>5, <1>6, <1>7, <1>8, <1>9, <1>10, <1>11, <1>12, <1>13,
           <1>14, NextCases

\* While reads of the cache succeed, only a turn that was outrun, the whole of
\* its span summarized before and more after it, moves the cursor back; a
\* compression that lost its lease, or its process, never does.
THEOREM RollBackNeedsOutrunTurn ==
  ASSUME ~CacheFails
  PROVE  Spec => OnlyOutrunTurnsRollBack
<1>1. Init => OutrunInv
  <2> SUFFICES ASSUME Init PROVE OutrunInv
    OBVIOUS
  <2>1. \A t \in Turns : at[t] = "new"
    BY DEF Init
  <2> QED BY <2>1, InitTyped DEF OutrunInv, OutrunSpans
<1>2. OutrunInv /\ [Next]_vars => OutrunInv'
  BY OutrunStep
<1>3. OutrunInv /\ [Next]_vars => RollsBackOnlyOutrun
  BY RollBackStep
<1> QED BY <1>1, <1>2, <1>3, PTL
        DEF Spec, OnlyOutrunTurnsRollBack, RollsBackOnlyOutrun

-----------------------------------------------------------------------------
(* What comes back after the session is deleted, whatever the cache does *)

\* Without a cursor there is no summary.
NoCursorNoSummary ==
  /\ stored.through = 0 => stored.covers = {}
  /\ \A t \in Turns : prior[t].through = 0 => prior[t].covers = {}

\* The summary a compression has read is covered by the stored one, or the
\* stored one is gone.
PriorIsKept ==
  ~lapsed =>
    \A t \in Turns : at[t] = "summarizing" =>
      prior[t].covers \subseteq stored.covers \/ stored.through = 0

KeptInv == LockInv /\ NoCursorNoSummary /\ PriorIsKept

LEMMA KeptInvStep ==
  ASSUME KeptInv, [Next]_vars
  PROVE  KeptInv'
<1> LockInv'
  BY LockInvStep DEF KeptInv
<1> USE DEF KeptInv, NoCursorNoSummary, PriorIsKept, session, locks
<1> Typed
  BY DEF LockInv
<1> Blank.through = 0 /\ Blank.covers = {}
  BY DEF Blank
<1>1. CASE AddMessage
  BY <1>1 DEF AddMessage
<1>2. CASE Forget
  BY <1>2 DEF Forget
<1>3. CASE LeaseEnds
  BY <1>3 DEF LeaseEnds
<1>4. ASSUME NEW t \in Turns, Load(t) PROVE KeptInv'
  <2>1. \A u \in Turns : at'[u] = "summarizing" => at[u] = "summarizing"
    BY <1>4 DEF Load, Schedule, Typed, TypeOK
  <2> QED BY <1>4, <2>1 DEF Load
<1>5. ASSUME NEW t \in Turns, Begin(t) PROVE KeptInv'
  <2>1. PICK state \in {stored, Blank} : prior' = [prior EXCEPT ![t] = state]
    BY <1>5 DEF Begin
  <2>2. prior'[t] = state /\ \A u \in Turns : u # t =>
          at'[u] = at[u] /\ prior'[u] = prior[u]
    BY <1>5, <2>1 DEF Begin, Typed, TypeOK
  <2>3. stored' = stored /\ lapsed' = lapsed
    BY <1>5 DEF Begin
  <2>4. state.covers \subseteq stored.covers
    BY <2>1
  <2>5. state.through = 0 => state.covers = {}
    BY <2>1
  <2> QED BY <2>2, <2>3, <2>4, <2>5
<1>6. ASSUME NEW t \in Turns, Skip(t) PROVE KeptInv'
  BY <1>6 DEF Skip, Typed, TypeOK
<1>7. ASSUME NEW t \in Turns, Summarized(t) PROVE KeptInv'
  <2>1. PICK current \in {stored, Blank} : stored' = Folded(t, current)
    BY <1>7 DEF Summarized
  <2>2. /\ span[t] \in Spans /\ current \in States /\ prior[t] \in States
        /\ at[t] = "summarizing"
    BY <1>7, <2>1, BlankIsState DEF Summarized, Typed, TypeOK, SpansExist, Active
  <2>3. stored'.through # 0
    BY <2>1, <2>2, FoldedIsState DEF Spans, Messages
  <2>4. prior' = prior /\ lapsed' = lapsed /\ at'[t] # "summarizing"
        /\ \A u \in Turns : u # t => at'[u] = at[u]
    BY <1>7 DEF Summarized, Release, Typed, TypeOK
  <2>5. ~lapsed => \A u \in Turns : u # t => at[u] # "summarizing"
    BY <2>2 DEF LockInv, OneCompression, Active
  <2> QED BY <2>3, <2>4, <2>5
<1>8. ASSUME NEW t \in Turns, GiveUp(t) PROVE KeptInv'
  BY <1>8 DEF GiveUp, Release, Typed, TypeOK
<1>9. ASSUME NEW t \in Turns, Curated(t) PROVE KeptInv'
  <2>1. stored'.through = stored.through /\ stored'.covers = stored.covers
    BY <1>9 DEF Curated, Typed, TypeOK, States
  <2> QED BY <1>9, <2>1 DEF Curated, Release, Typed, TypeOK
<1>10. ASSUME NEW t \in Turns, NotCurated(t) PROVE KeptInv'
  BY <1>10 DEF NotCurated, Release, Typed, TypeOK
<1>11. ASSUME NEW p \in Processes, Crash(p) PROVE KeptInv'
  BY <1>11 DEF Crash, Typed, TypeOK
<1>12. CASE UNCHANGED vars
  BY <1>12 DEF vars
<1> HIDE DEF KeptInv
<1> QED BY <1>1, <1>2, <1>3, <1>4, <1>5, <1>6, <1>7, <1>8, <1>9, <1>10, <1>11,
           <1>12, NextCases

\* What a step may add to the summary of a deleted session.
OnlyOwnSpanComesBack ==
  forgotten =>
    \A m \in stored'.covers \ stored.covers :
      \E t \in Turns :
        /\ at[t] = "summarizing" /\ at'[t] # "summarizing"
        /\ \/ m \in span[t].first .. span[t].last
           \/ lapsed /\ 0 < stored.through /\ stored.through = prior[t].through

LEMMA ComesBackStep ==
  ASSUME KeptInv, [Next]_vars
  PROVE  OnlyOwnSpanComesBack
<1> LockInv /\ Typed /\ NoCursorNoSummary /\ PriorIsKept
  BY DEF KeptInv, LockInv
<1>1. stored \in States /\ stored.through \in Nat
  BY DEF Typed, TypeOK, States
<1>2. stored'.covers \subseteq stored.covers => OnlyOwnSpanComesBack
  BY DEF OnlyOwnSpanComesBack
<1>3. stored' = stored => OnlyOwnSpanComesBack
  BY <1>2
<1>4. CASE Forget
  BY <1>2, <1>4 DEF Forget, Blank
<1>5. ASSUME NEW t \in Turns, Summarized(t) PROVE OnlyOwnSpanComesBack
  <2>1. PICK current \in {stored, Blank} :
          current.through = prior[t].through /\ stored' = Folded(t, current)
    BY <1>5 DEF Summarized
  <2>2. /\ span[t] \in Spans /\ current \in States /\ prior[t] \in States
        /\ at[t] = "summarizing" /\ at'[t] # "summarizing"
    BY <1>5, <2>1, BlankIsState
    DEF Summarized, Release, Typed, TypeOK, SpansExist, Active
  <2>3. stored'.covers = prior[t].covers \union span[t].first .. span[t].last
    BY <2>1, <2>2, FoldedIsState
  <2>4. CASE prior[t].covers \subseteq stored.covers
    BY <2>2, <2>3, <2>4 DEF OnlyOwnSpanComesBack
  <2>5. CASE ~(prior[t].covers \subseteq stored.covers)
    <3>1. prior[t].through # 0
      BY <2>5 DEF NoCursorNoSummary
    <3>2. current = stored
      BY <2>1, <3>1 DEF Blank
    <3>3. 0 < stored.through /\ stored.through = prior[t].through
      BY <1>1, <2>1, <3>1, <3>2
    <3>4. lapsed
      BY <2>2, <2>5, <3>3 DEF PriorIsKept
    <3> QED BY <2>2, <3>3, <3>4 DEF OnlyOwnSpanComesBack
  <2> QED BY <2>4, <2>5
<1>6. ASSUME NEW t \in Turns, Curated(t) PROVE OnlyOwnSpanComesBack
  <2>1. stored'.covers = stored.covers
    BY <1>1, <1>6 DEF Curated, States
  <2> QED BY <1>2, <2>1
<1>7. CASE AddMessage
  BY <1>3, <1>7 DEF AddMessage
<1>8. CASE LeaseEnds
  BY <1>3, <1>8 DEF LeaseEnds
<1>9. ASSUME NEW t \in Turns, Load(t) PROVE OnlyOwnSpanComesBack
  BY <1>3, <1>9 DEF Load
<1>10. ASSUME NEW t \in Turns, Begin(t) PROVE OnlyOwnSpanComesBack
  BY <1>3, <1>10 DEF Begin
<1>11. ASSUME NEW t \in Turns, Skip(t) PROVE OnlyOwnSpanComesBack
  BY <1>3, <1>11 DEF Skip
<1>12. ASSUME NEW t \in Turns, GiveUp(t) PROVE OnlyOwnSpanComesBack
  BY <1>3, <1>12 DEF GiveUp
<1>13. ASSUME NEW t \in Turns, NotCurated(t) PROVE OnlyOwnSpanComesBack
  BY <1>3, <1>13 DEF NotCurated
<1>14. ASSUME NEW p \in Processes, Crash(p) PROVE OnlyOwnSpanComesBack
  BY <1>3, <1>14 DEF Crash
<1>15. CASE UNCHANGED vars
  BY <1>3, <1>15 DEF vars
<1> QED BY <1>4, <1>5, <1>6, <1>7, <1>8, <1>9, <1>10, <1>11, <1>12, <1>13, <1>14,
           <1>15, NextCases

\* A compression that outlives its session brings back the span of its own turn
\* and nothing of the deleted summary, whether or not the cache answers, unless
\* it lost its lease and the cursor has come back to where it read it.
THEOREM DeletionIsKept == Spec => DeletedSummaryStaysDeleted
<1>1. Init => KeptInv
  <2> SUFFICES ASSUME Init PROVE KeptInv
    OBVIOUS
  <2>1. \A t \in Turns : at[t] = "new" /\ prior[t] = Blank
    BY DEF Init
  <2>2. stored = Blank
    BY DEF Init
  <2>3. NoCursorNoSummary /\ PriorIsKept
    BY <2>1, <2>2 DEF NoCursorNoSummary, PriorIsKept, Blank
  <2> QED BY <2>3, InitLockInv DEF KeptInv
<1>2. KeptInv /\ [Next]_vars => KeptInv'
  BY KeptInvStep
<1>3. KeptInv /\ [Next]_vars => OnlyOwnSpanComesBack
  BY ComesBackStep
<1> QED BY <1>1, <1>2, <1>3, PTL
        DEF Spec, DeletedSummaryStaysDeleted, OnlyOwnSpanComesBack
=============================================================================
