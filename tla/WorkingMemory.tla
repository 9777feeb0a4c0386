--------------------------- MODULE WorkingMemory ---------------------------
(***************************************************************************)
(* The working memory of one chat session (internal/memory/working.py).    *)
(* A turn loads the newest messages and the stored summary of the older    *)
(* ones; what is neither summarized nor shown is its pending span.  When   *)
(* the turn is over it schedules compress_session() over that span, which  *)
(* folds the oldest part of it into the summary.                           *)
(*                                                                         *)
(* Turns of a session overlap (two tabs, a slow answer), on several        *)
(* processes that share the cache, so a span may be old when it is         *)
(* compressed.  Compressions exclude each other by _inflight within a      *)
(* process and by a lock with a lease between processes; a step runs from  *)
(* one await to the next (the summarizer, the curation).                   *)
(*                                                                         *)
(* Messages are numbered in the order of the session, and a cursor is the  *)
(* number of the message it names, 0 for None.  A summary is the set of    *)
(* the messages whose turns went into it.                                  *)
(***************************************************************************)
EXTENDS Integers, FiniteSets

CONSTANTS
  Processes,      \* web server processes
  Turns,          \* turns of the session; each schedules one compression
  NoTurn,         \* no turn holds the lock
  KeepLast,       \* keep_last
  MaxMessages,    \* bound on the messages of the session
  CacheFails      \* reads of the cache may fail

ASSUME NoTurnAssumption == NoTurn \notin Turns
ASSUME KeepLastAssumption == KeepLast \in Nat \ {0}
ASSUME MaxMessagesAssumption == MaxMessages \in Nat
ASSUME CacheFailsAssumption == CacheFails \in BOOLEAN

VARIABLES
  count,       \* messages in the session
  stored,      \* the session's SessionMemoryState in the cache
  forgotten,   \* the session was deleted, and forget_session() has run
  at,          \* where each turn and its compression is
  process,     \* where each turn runs
  pending,     \* the span each turn loaded, as its first and last message
  span,        \* the part of it its compression summarizes
  prior,       \* the state that compression read
  inflight,    \* processes with the session in _inflight
  holder,      \* the turn whose compression holds the cache lock, or NoTurn
  lapsed       \* auxiliary: a lease ran out under a running compression

session == <<count, forgotten>>
locks == <<inflight, holder, lapsed>>
vars == <<session, stored, at, process, pending, span, prior, locks>>

Messages == 1 .. MaxMessages

States == [covers : SUBSET Messages, through : 0 .. MaxMessages,
           curated : 0 .. MaxMessages]

\* What load_state() returns when there is no state, or it cannot be read.
Blank == [covers |-> {}, through |-> 0, curated |-> 0]

Spans == {s \in [first : Messages, last : Messages] : s.first <= s.last}

NoSpan == [first |-> 1, last |-> 0]

\* Compressions that hold the session.
Active == {"summarizing", "curating"}

TypeOK ==
  /\ count \in 0 .. MaxMessages
  /\ forgotten \in BOOLEAN
  /\ stored \in States
  /\ at \in [Turns -> {"new", "answering", "done"} \union Active]
  /\ process \in [Turns -> Processes]
  /\ pending \in [Turns -> Spans \union {NoSpan}]
  /\ span \in [Turns -> Spans \union {NoSpan}]
  /\ prior \in [Turns -> States]
  /\ inflight \subseteq Processes
  /\ holder \in Turns \union {NoTurn}
  /\ lapsed \in BOOLEAN

Init ==
  /\ count = 0
  /\ forgotten = FALSE
  /\ stored = Blank
  /\ at = [t \in Turns |-> "new"]
  /\ process \in [Turns -> Processes]
  /\ pending = [t \in Turns |-> NoSpan]
  /\ span = [t \in Turns |-> NoSpan]
  /\ prior = [t \in Turns |-> Blank]
  /\ inflight = {}
  /\ holder = NoTurn
  /\ lapsed = FALSE

\* load_state()
Read(state) == state = stored \/ (CacheFails /\ state = Blank)

-----------------------------------------------------------------------------
(* The turn *)

\* The messages before the tail that are not covered by the state: all of
\* them unless the state's cursor is one of them.
Uncovered(state, dropped) ==
  [first |-> IF state.through <= dropped THEN state.through + 1 ELSE 1,
   last |-> dropped]

\* A message of the user or an answer is added to the session.
AddMessage ==
  /\ ~forgotten
  /\ count < MaxMessages
  /\ count' = count + 1
  /\ UNCHANGED <<forgotten, stored, at, process, pending, span, prior, locks>>

\* schedule_compression() will have something to do, or not.
Schedule(t, loaded) ==
  IF loaded.first <= loaded.last
  THEN /\ pending' = [pending EXCEPT ![t] = loaded]
       /\ at' = [at EXCEPT ![t] = "answering"]
  ELSE /\ at' = [at EXCEPT ![t] = "done"]
       /\ UNCHANGED pending

\* A turn loads the working memory; how many of the newest messages fit the
\* token budget depends on their length, but the newest is always kept.
Load(t) ==
  /\ at[t] = "new"
  /\ ~forgotten
  /\ \E dropped \in 0 .. count - 1, state \in {stored, Blank} :
       /\ count - dropped <= KeepLast
       /\ Read(state)
       /\ Schedule(t, Uncovered(state, dropped))
  /\ UNCHANGED <<session, stored, process, span, prior, locks>>

\* delete_chat_session_by_id()
Forget ==
  /\ ~forgotten
  /\ forgotten' = TRUE
  /\ stored' = Blank
  /\ UNCHANGED <<count, at, process, pending, span, prior, locks>>

-----------------------------------------------------------------------------
(* compress_session *)

\* Mutant: the span is summarized as it was loaded.
TrimNothing(state, loaded) == loaded

\* Drop what the stored cursor covers, if the cursor is in the span.
Trim(state, loaded) ==
  IF state.through \in loaded.first .. loaded.last
  THEN [loaded EXCEPT !.first = state.through + 1]
  ELSE loaded

\* No other compression holds the session.
Free(t) == process[t] \notin inflight /\ holder = NoTurn

\* The lock is taken, the state is read, and the oldest part of the span
\* that fits the summarizer's input goes to the summarizer.
Begin(t) ==
  /\ at[t] = "answering"
  /\ Free(t)
  /\ \E state \in {stored, Blank} :
       LET left == Trim(state, pending[t])
       IN /\ Read(state)
          /\ \E last \in left.first .. left.last :
               span' = [span EXCEPT ![t] = [first |-> left.first, last |-> last]]
          /\ prior' = [prior EXCEPT ![t] = state]
  /\ at' = [at EXCEPT ![t] = "summarizing"]
  /\ inflight' = inflight \union {process[t]}
  /\ holder' = t
  /\ UNCHANGED <<session, stored, process, pending, lapsed>>

\* Another compression of the session is under way, or nothing is left of the
\* span, or the lock or the cache fails, or the turn never schedules.
Skip(t) ==
  /\ at[t] = "answering"
  /\ at' = [at EXCEPT ![t] = "done"]
  /\ UNCHANGED <<session, stored, process, pending, span, prior, locks>>

\* Mutant: _inflight keeps the session.
ReleaseLock(t) ==
  /\ at' = [at EXCEPT ![t] = "done"]
  /\ holder' = IF holder = t THEN NoTurn ELSE holder
  /\ UNCHANGED <<inflight, lapsed>>

\* The finally clause.
Release(t) ==
  /\ at' = [at EXCEPT ![t] = "done"]
  /\ inflight' = inflight \ {process[t]}
  /\ holder' = IF holder = t THEN NoTurn ELSE holder
  /\ UNCHANGED lapsed

\* Mutant: the cursor is that of the span before it was cut.
FoldedThroughPending(t, state) ==
  [covers |-> prior[t].covers \union span[t].first .. span[t].last,
   through |-> pending[t].last,
   curated |-> state.curated]

\* The state with the span of t folded into the summary t has read.
Folded(t, state) ==
  [covers |-> prior[t].covers \union span[t].first .. span[t].last,
   through |-> span[t].last,
   curated |-> state.curated]

\* Mutant: the state is not read again before the summary is saved.
SummarizedUnread(t) ==
  /\ at[t] = "summarizing"
  /\ stored' = Folded(t, prior[t])
  /\ \/ Release(t)
     \/ at' = [at EXCEPT ![t] = "curating"] /\ UNCHANGED locks
  /\ UNCHANGED <<session, process, pending, span, prior>>

\* The summary is back, and the cursor has not moved meanwhile: it is saved,
\* and its span is curated if that is on.
Summarized(t) ==
  /\ at[t] = "summarizing"
  /\ \E current \in {stored, Blank} :
       /\ Read(current)
       /\ current.through = prior[t].through
       /\ stored' = Folded(t, current)
  /\ \/ Release(t)
     \/ at' = [at EXCEPT ![t] = "curating"] /\ UNCHANGED locks
  /\ UNCHANGED <<session, process, pending, span, prior>>

\* The cursor moved, the summary is empty, the summarizer, a read or the write
\* failed, or the task was cancelled: nothing is written.
GiveUp(t) ==
  /\ at[t] = "summarizing"
  /\ Release(t)
  /\ UNCHANGED <<session, stored, process, pending, span, prior>>

\* The span is curated: the curated cursor is merged into the current state,
\* unless that reads as blank.
Curated(t) ==
  /\ at[t] = "curating"
  /\ stored # Blank
  /\ stored' = [stored EXCEPT !.curated = span[t].last]
  /\ Release(t)
  /\ UNCHANGED <<session, process, pending, span, prior>>

\* Curation failed, had nothing to do or was cancelled, or the merge failed.
NotCurated(t) ==
  /\ at[t] = "curating"
  /\ Release(t)
  /\ UNCHANGED <<session, stored, process, pending, span, prior>>

-----------------------------------------------------------------------------

\* The summarizer or the curation outlives the lease of the lock, or the
\* process that held it is gone.
LeaseEnds ==
  /\ holder # NoTurn
  /\ holder' = NoTurn
  /\ lapsed' = (lapsed \/ at[holder] \in Active)
  /\ UNCHANGED <<session, stored, at, process, pending, span, prior, inflight>>

\* A process dies with its turns and its _inflight; the lock stays.
Crash(p) ==
  /\ \E t \in Turns : process[t] = p /\ at[t] \in {"answering"} \union Active
  /\ at' = [t \in Turns |->
       IF process[t] = p /\ at[t] # "new" THEN "done" ELSE at[t]]
  /\ inflight' = inflight \ {p}
  /\ UNCHANGED <<session, stored, process, pending, span, prior, holder, lapsed>>

SummaryReturns(t) == Summarized(t) \/ GiveUp(t)
CurationReturns(t) == Curated(t) \/ NotCurated(t)

Next ==
  \/ \E t \in Turns :
       \/ Load(t)
       \/ Begin(t)
       \/ Skip(t)
       \/ SummaryReturns(t)
       \/ CurationReturns(t)
  \/ AddMessage
  \/ Forget
  \/ LeaseEnds
  \/ \E p \in Processes : Crash(p)

Spec == Init /\ [][Next]_vars

\* The summarizer and the curation return, and every lease ends.
FairSpec ==
  /\ Spec
  /\ \A t \in Turns : WF_vars(SummaryReturns(t)) /\ WF_vars(CurationReturns(t))
  /\ WF_vars(LeaseEnds)

-----------------------------------------------------------------------------
(* Properties *)

\* One compression at a time: always within a process, and between processes
\* as long as no lease ran out under a compression.
OneCompression ==
  \A s, t \in Turns :
    at[s] \in Active /\ at[t] \in Active /\ s # t =>
      process[s] # process[t] /\ lapsed

\* The summary has no gap: it covers every message up to its cursor, for a
\* message before the cursor is never shown or summarized again.  Overlapping
\* turns, stale spans and crashes may only cover one twice.
SummaryHasNoGap ==
  ~forgotten /\ ~lapsed => 1 .. stored.through \subseteq stored.covers

\* Only a turn so old that the whole of its span was summarized before, and
\* more after it, can move the cursor back: not a compression whose lease ran
\* out, nor one that read the cursor inside its span.
OnlyOutrunTurnsRollBack ==
  [][stored'.through < stored.through /\ forgotten' = forgotten =>
       \E t \in Turns :
         /\ at[t] = "summarizing" /\ stored'.through = span[t].last
         /\ pending[t].last < stored.through]_vars

\* Nothing of the summary deleted with the session comes back: a compression
\* that was under way may only write what its own turn had loaded, not what the
\* summary it had read before the deletion covered; unless it lost its lease,
\* and another has put the cursor back where the deletion had found it.
DeletedSummaryStaysDeleted ==
  [][forgotten =>
       \A m \in stored'.covers \ stored.covers :
         \E t \in Turns :
           /\ at[t] = "summarizing" /\ at'[t] # "summarizing"
           /\ \/ m \in span[t].first .. span[t].last
              \/ lapsed /\ 0 < stored.through /\ stored.through = prior[t].through]_vars

\* No compression keeps others from running for ever: what it holds is free
\* again, whether it returns, fails, or dies with its process.
SessionIsFreed ==
  /\ \A t \in Turns : (holder = t) ~> (holder # t)
  /\ \A p \in Processes : (p \in inflight) ~> (p \notin inflight)

\* working.py:327-330: "so the later cursor is never overwritten by a stale
\* span".
CursorNeverRollsBack ==
  [][~forgotten' => stored'.through >= stored.through]_vars

\* chat_backend.py:199, on deleting a session: "The conversation's LLM-written
\* summary goes with it."
SummaryGoesWithSession == forgotten => stored.covers = {}
=============================================================================
