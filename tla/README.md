# Verification of Agentic-Search-GRPO

TLA+ models, TLC runs and TLAPS proofs for the concurrent and failure-handling
core of the agentic search server. Paths are relative to the root of the
repository; most of the server lives in `src/internal`, the agents in
`src/agents`. Every definition that models code names its lines in the `map` of
`PROJECT.json`.

## The system

A web server (`servers/web/app.py`) runs agents for users. A run is an asyncio
task that alternates model generations with batches of tool calls; its events
go through a bounded queue to the client, over a WebSocket or as server-sent
events. Tools with side effects wait for the user's approval, failed ones may be
escalated to the user. Remote dependencies (model servers, search backends) sit
behind circuit breakers. Between turns, a chat session keeps a working memory:
the newest messages and a summary of the older ones, which a background task
extends through a cache shared by the web processes. Long-term memories and
chats live in SQLite. The repository also trains the models (GRPO, DPO, PPO,
SFT); that part is numerical.

How the parts interact:

- the **socket handler** starts a **pump** task per run; the pump iterates the
  **run driver**, which wraps the **agent** task; `session.cancel` and a
  disconnect cancel the pump, and the pump's end clears the socket's slot;
- the **tool loop** asks the **decision broker** twice: before a call with side
  effects (approval) and after a failure of one (escalation). The broker's
  decisions arrive from other tasks, over HTTP or the socket;
- the **model serving clients** and **search backends** ask the breaker before a
  call and report afterwards, or never when they are cancelled;
- each chat **turn** loads the working memory and schedules a **compression**
  that reads, summarizes and writes under a lock shared through the cache;
- the **run driver** carries progress, traces and the broker's questions through
  one bounded queue to the transport, which may be the socket or an **SSE**
  stream with heartbeats;
- after a turn two handlers **capture** and **consolidate** the user's memories
  under a per-user guard, while the user and a manual consolidation write too;
- the **web search cascade** puts a serving cache and a breaker before each of
  two backends, in a different order.

### Inventory

| Component | State | Operations | What is hard | What makes it correct |
|---|---|---|---|---|
| Circuit breaker (`resilience/circuit_breaker.py`) | `_state`, `_failures`, `_opened_at`, `_probe_at` | `before_call`, `record_success`, `record_failure` | results arrive late, out of order, or never | one probe per window, never stuck open, no subtraction from `None` |
| Decision broker (`servers/web/tool_approval.py`) | pending table, futures, counters | `_request`, `decide` | timer, deadline, cancellation and answer race; ids are reused | only real consent is returned, answers are final, nothing leaks or is counted twice, requests end |
| Tool loop (`agents/tool/tool_calling.py`, `recovery.py`) | phase, turns, per-call retries, shared recovery state | generate, approve, invoke, retry, escalate, stop | parallel calls share budget, cap and stop | side effects only with consent, budget and cap kept, a stop is final, runs end |
| Tool registry (`internal/tools/registry.py`) | tools by name | `invoke_detailed` | failure categories | as seen by the tool loop |
| WebSocket channel (`ws_channel.py`, `agent_ws` in `app.py`) | slot, pump and agent tasks | start, cancel, disconnect | a cancel meets the pump anywhere; two pumps share a slot | one run at a time, cancelled runs stop and are silent, ended runs free the slot |
| Run driver (`run_driver.py`) | event queue, agent task | `run`, callbacks | bounded queue, drain, terminal event | the agent is stopped; terminal event last |
| Working memory (`memory/working.py`) | cached summary and cursors, lock, `_inflight` | load, compress, curate, forget | stale spans, expired leases, crashes, deletions | no gap in the summary, one compression at a time, nothing held for ever |
| Publication of decision requests (`app.py`), SSE (`servers/sse.py`) | bounded queue, shielded pending event | publish, heartbeat, close | the request expires while its event waits; the client leaves anywhere | events arrive in order and once, no question outlives its call, the stream and the agent end |
| SQLite store (`db/store.py`) | database version, min reader, tables | open and migrate, CRUD | crash between steps, racing processes, older builds | a build serves only a file it can read, no step is applied twice |
| Long-term memory (`memory/capture.py`, `consolidation.py`, `lifecycle.py`, store methods) | records, dirty index nodes, embeddings, per-user guard | capture, consolidate, rebuild, the user's writes | decisions from records read earlier, lost marks, guard timeouts | a clean summary is current, nothing is deleted but for another, constraints stay |
| Web search (`tools/search.py`, `context/retrieval/client.py`), serving cache (`cache/ttl_cache.py`) | two breakers, cached pages with a grace window | lookup through the cascade | stale copies, retries and cancellation inside a breaker's call | what is served is recent, a breaker closes only on its server's word, lookups end |
| Search agent (`agents/search/search.py`, `agents/components`) | subquestions, rounds, evidence, rejections | turn, search round, answer gate, forced answer | the model writes anything in any order | budget kept, no query twice, an answer passes only for a reason |
| WebSocket tokens (`redis_pool.py`), serving clients, public data tools, index maintenance | single-use tokens, retry budgets | mint, consume, retry | boundaries of time and attempts | not modelled |
| Everything else (retrieval, context, LLM adapters, MCP, hooks, administration, training, CLI, configuration) | none with a protocol | | | see "What is not modelled" |

`PROJECT.json` lists all 28 components with their status, and under `hazards`
the places where this code is hard to test, with the properties that watch them.

## The modules

### `CircuitBreaker`

One breaker and its callers. `AdmitOrdinary` and `AdmitProbe` are the two ways
`before_call` returns; `RecordSuccess`, `RecordFailure` and `Abandon` end a call
admitted in an earlier state; `Tick` lets time pass. Every method runs under the
lock, so each is one action. The code only compares `clock() - t` with
`open_seconds`, so instants are kept as ages cut off at `OpenSeconds`, and
`_failures` is cut off at the threshold: the model has finitely many states and
still covers runs of any length. `call`, `call_ago` stand for the callers; the
map names one of them, `serpapi_search`.

### `HumanDecision`, `DecisionBroker`

`HumanDecision` is the promise: one answer cell per request, settled at most
once; the result is the answer, or a refusal. `DecisionBroker` has the pending
table, futures, counters, the timer of `wait_for`, the wall-clock deadline that
`decide` checks, and cancellation. The blocks under the broker's lock contain no
await and are single steps. `wait_for` makes up its mind before the request runs
again; that gap is the `pc` values "timed_out" and "cancelling", in which a
submission may still be accepted. The refinement maps `cell` to the futures and
`result` to the outcomes. `accepted` is auxiliary.

### `ToolLoop`

One run of `ToolAgentLoop`: `Generate*`, the approval pass (`Approve`, `Refuse`,
`BeginExecution`), the batch (`StartCall`, `SkipUnavailable`, `Succeed`,
`FeedBack`, `RetryLater`, `WakeUp`, `Degrade`), escalation (`Escalate*`,
`Answer*`), and the ends of a batch or run (`NextTurn`, `FinishStopped`,
`FinishFull`, `Abort`). A task runs from one await to the next in one step.
`Decide` is `RecoveryPolicy.decide`. What `invoke_detailed` reports is one of the
failure categories the policy tells apart. An answer of the user is any answer
`HumanDecision` allows. Running out of a token budget is a choice. `invoked` and
`consents` are auxiliary.

### `WsSession`

One socket: the handler of `serve()`, and per run a pump task and an agent task.
`task.cancel()` only marks a task (`doomed`); where the `CancelledError` is
raised depends on where the pump is: before its first step (`NeverBegin`), in
the generator (`CancelRun`, `ReturnCancelled`), in a send (`BreakOff`), or not
at all. A send that raises leaves the generator where it yielded; the event loop
closes it later (`CloseGenerator`). `told` records the answers to
`session.cancel`. Events that only answer leave this state alone and have no
action. Authentication is left out. The general names begin with `Ws` (`WsSpec`,
`WsTypeOK`), since `RunEventsProofs` extends this module and `RunEvents`.

### `WorkingMemory`

One session, its overlapping turns, and the processes they run in. Messages are
numbered, a cursor is a number (0 for `None`), a summary is the set of the
messages folded into it. `Load` computes the pending span, `Begin` takes
`_inflight` and the lock, reads the state and cuts the span, `Summarized` reads
the state again, compares cursors and writes, `Curated` merges the curated cursor.
`LeaseEnds` frees the lock of a slow or dead holder, `Crash` drops a process with
its turns and its `_inflight`, `Forget` deletes the session. How many messages
fit a token budget is a choice. With `CacheFails`, a read may return the blank
state. `lapsed` is auxiliary.

### `EventStream`, `RunEvents`

`EventStream` is what a client of a run may rely on, without queues, polls, yields
and heartbeats: events in the order they were made, then, when all have arrived,
what the run came to: an answer of a run that returned, an error of one that
raised, and not a word about one that was cancelled: a run cancelled by itself ends
its stream as if it were complete, without a terminal event. `RunEvents` is shown to
implement it (`ImplementsEventStream`); `Stage` says what a client that stays was
told last.

`RunEvents` has the events of one run on their way to a browser, composing three parts that share
a queue: the agent's callbacks (`OnTurn` waits for room, `OnTraceOrClaim` drops
without it), `_request_human_decision` of `app.py` (`Ask`, `Register`, `Publish`,
`Decide`, `Expire`, `AskReturns`), the generator of `AgentRunDriver.run` (`Get`,
`PollEnds`, `Advance`, `Drain`, `Interrupt`, `Closed`) and `_with_heartbeat`
(`Frame`, `Heartbeat`, `Receive`, `Leave`, `Left`). An event carries a serial
number, so that order and loss can be told; `serial`, `sent` and `seen` are
auxiliary. Closing the generator at one of its yields ends, in the code, in a
`RuntimeError` ("async generator ignored GeneratorExit"), because its `except
BaseException` yields once more; over SSE the inner generator is dropped with the
outer one and closed by the event loop later. `Interrupt` is what both do to the
agent.

### `SchemaMigration`

`_ensure_schema`, by several processes of different builds that may die at any
point (`Exit`): `Read`, `OpenNewer`, `RefuseGap`, `Baseline`, `BaselineFails`,
`Backfill`, `ApplyStep`, `FailStep`, `Opened`. What commits together is one action,
except that the ALTERs of the baseline, each a statement of its own in the code,
are one. `columns` are two: the category of a memory, on which the backfill
depends, and the others. The repository's `_MIGRATIONS` is empty at this commit: the migrations are a
constant, with statements that fail when applied twice, as its tests write them.
The general names carry the prefix `Schema` (`SchemaInit`, `SchemaSpec`), because
`StoreProofs` extends this module beside `MemoryIndex`.
Behaviours a reader should know:

- an ALTER that raises is passed over whatever the reason (`store.py:542`, `614`,
  `624`), so a locked or failing file can be stamped and served without the column:
  any subset of what is lacking is added. `swallowed` is auxiliary and says which
  columns the last attempt passed over; `ServedSchemaIsComplete` lets a served file
  lack only those;
- the version is read before any transaction (`store.py:232`): a build that has
  read it, and found the file no newer than itself, serves the file even when
  another has committed a breaking migration meanwhile. `UnreadableOnlyByRace` says
  that this is the only way to serve a file one cannot read; `seen` (auxiliary) is
  what the file held when the version was read;
- a file from before `chat_sessions.llm_name` can never be opened: `_init_schema`
  creates the index on the column before `_migrate_schema` adds it, although the
  docstring there says "Idempotent migrations for databases created before column
  additions.";
- a process that read version 0 from a new file stamps version 1 and min reader 1
  even when a newer build has meanwhile migrated it. Hence the `origin = 1` in
  `NoStepLeftBehind`, `BreakingStepsGuarded` and `UnreadableOnlyByRace`.

### `MemoryIndex`

One user's memories, index nodes and embeddings. Every store method is one
transaction (`Add`, `Update`, `Delete`, `Move`, `SetVectors`, `Upsert`); a
curator (capture, consolidation after a turn, manual consolidation, recall) reads
the records once and then carries out the calls it decided on one at a time (`todo`,
`Do`), with anyone writing in between. `Item`, `Dedup`, `Embed`, `Seed`, `Merge`,
`Contradictions`, `Reclassify`, `Summarize` decide; what an LLM replies is any
reply the code accepts. A capture reconciles its extracted memories one after the
other, each against the records as its own writes have changed them.
`EmbedCalls` is `ensure_embeddings`, for whom it is called: the near-duplicates of a
captured memory, what a consolidation may merge, and all that a recall ranks; an
encoder may be missing or fail. `Acquire`, `GiveUp` and `Leave` are the per-user
guard, a set in the memory of one server process, which the manual consolidation and
recall do not take (`docs/api-reference.md` says so of the former).
The user's writes stand for the memory tools and `POST /api/memory/save`, with a
category or classified by the store.
`touched` and the nodes' `outrun` are auxiliary: they say what was written since
a curator read. `CleanMeansCurrent` and the action properties except exactly
those cases, and each exception happens: a mark set while a summary is being
written is lost with that write; a constraint the user edits into, or beside, a
near-duplicate during a consolidation can be deleted by it; an embedding computed
from an older text can be stored for a newer one, by a capture, a consolidation or a
recall. So these properties do not say that the code is safe from such races: they
say that nothing goes wrong in any other way.

### `WebSearch`

The cascade: SerpAPI behind cache and breaker, the browser server behind breaker
and cache, with `TTLCache` and the retries of the retrieval client. Both breakers
are instances of `CircuitBreaker`, and every step calls its actions, so that what a
breaker promises can be proved of both. A step goes from one await to the next, and the
browser leg has more of them than its request: the sleep between two attempts
("backoff"), the closing of a failed session ("giving_up") and of the client
("closing", with the pages in `got`) before the breaker is told. `ServersAreSpared`
is about lookups and the requests they send: one sent without `before_call`, or
after its refusal, violates it. A failure's message, and the pages that carry it,
are left out; whether a list can be used, stored or recorded as an answer is kept.
`answer` (auxiliary) is a usable list at the moment a lookup takes it.
Things a reader of the code may not expect:

- a copy is as old as TTL plus grace *plus* the time of the request it came from
  (`docs/retrieval.md` leaves the last out; `AnswersAreRecent` has it);
- the browser's breaker is closed by a fresh cache hit without the server being
  contacted (the comment at `search.py:1170-1173` speaks of the server), and while
  it is open it hides a fresh copy, since it is asked before the cache;
- a stale copy of SerpAPI's pages wins over a live answer of the browser server;
- a cancelled call reports to no breaker, not even one whose pages had come and
  whose client was closing;
- a SerpAPI timeout has an empty message, so its page is dropped from the failures
  and the cascade may return nothing at all, although the comment at
  `search.py:1132` keeps them "so an unusable cascade can say so". No property is
  about this.

### `SearchLoop`

One run of the search agent: a turn with tags (`Speak`, `SearchAnyway`) or
without (`Silence`), a round of searches (`Retrieve`), and the ends
(`DeadEnd`, `Forced`, `LoopEnds`). The model writes any text of the set `Texts`;
what a round finds, and how it is judged, is any outcome. Scores are a few
integers. `unmet` is auxiliary: the tasks a text declared, or was the first to name,
and that no round has answered since. `AnswersAreEarned` asks it, and not the
statuses the code keeps, whether an answer rests on evidence. Behaviours the properties had to be written around:

- a query that an earlier round asked is never asked again, not even when its
  retrieval failed (`NothingAskedTwice`: no round finds a query of its own in the
  cache of the run), while the prompt tells the model to refer to the earlier
  results; one round may send a query twice, under two prefixes;
- declaring a covered subquestion again opens it again, a round that finds nothing
  forgets an earlier sufficient evaluation, and a repeated query with a new prefix
  registers a task that this query can never cover;
- a plateau withholds the documents of a round, it does not stop the search;
- an answer in a text that also searches or fetches passes no gate if the loop
  ends there ("candidate" in `answer`); fetched pages do not count as something
  found for the forced answer; and with `require_sufficient_evidence` off, a first
  turn without a tag ends the run.

### MC modules and mutants

The `MC*` modules give the constants their values for TLC. Definitions marked
"Mutant" are altered forms of the definition after them, and are used nowhere in
the specifications: replacing the original by its mutant makes TLC find the
property that `PROJECT.json` names violated.

## The runs

| Run | Question | Instance | Distinct states |
|---|---|---|---|
| `breaker` | `ProbesSpaced`, `AlwaysReadmits` | 3 callers, threshold 2, window 2 | 750 |
| `broker` | `CountedOnce`, `OnlyConsentIsReturned`, `ImplementsHumanDecision`, `EveryRequestEnds` | 3 requests, 2 users, 2 ids (one shared), 2 decisions, 2 errors | 169 954 |
| `loop` | `EffectsArePaidFor`, `BudgetNotOverdrawn`, `NoReplayAfterStop`, `RunEnds` | 2 parallel calls, 4 tools, 2 rounds, budget 3 | 67 382 |
| `ws` | `OneRunUntilCancelled`, `SilentOnceCancelled`, `CancelStopsTheAgent`, `SlotIsFreed` | 3 runs on one socket | 52 995 |
| `memory` | `SummaryHasNoGap`, `OnlyOutrunTurnsRollBack`, `DeletedSummaryStaysDeleted`, `SessionIsFreed` | 2 turns, 2 processes, 4 messages, a cache that answers | 60 596 |
| `schema` | `ServedSchemaIsComplete`, `NoStepLeftBehind`, `UnreadableOnlyByRace` | 3 processes, builds of schema 1 to 4, migrations 2 (breaking) and 3 | 676 768 up to symmetry |
| `events` | `InOrder`, `TerminalIsLast`, `NothingAskedInVain`, `ImplementsEventStream`, `StreamEnds`, `LeavingStopsTheAgent` | 2 calls a batch, a queue of 2, 4 events | 346 463 |
| `websearch` | `ServersAreSpared`, `AnswersAreRecent`, `ClosedOnItsWord`, `LookupEnds` | 2 lookups of 1 query, a cache of 1 entry, 2 attempts, ticks of TTL, grace and request 1 | 257 541 |
| `memindex` | `CleanMeansCurrent`, `HandlersTakeTurns`, `DeletedForAnother`, `ConstraintsStay`, `OnlyOutrunVectorsAreStale` | 2 curators, 2 memories and 1 to come, 1 write of the user | 3 700 154 |
| `search` | `BudgetHolds`, `NothingAskedTwice`, `AnswersAreEarned`, `GivesUpForAReason` | 2 subquestions, 3 queries, 4 turns, a budget of 1 round raised by 2 and capped at 2 | 196 076 |

The other invariants of the modules, each type invariant among them, are proved (below)
and left out of the runs; TLC checked each of them on these instances first.

Two runs show that what the repository says of the program is not what the code
does; each is expected to find a violation:

| Run | What the repository says | What the model does |
|---|---|---|
| `ws_doc` | one run at a time per socket (`docs/api-reference.md:172-173`) | the pump of a cancelled run clears the slot of its successor, and a third run starts |
| `schema_doc` | the migration backfills the categories of existing memories (`docs/superpowers/specs/2026-11-05-hierarchical-agent-memory-design.md:131-133`) | a process that dies or fails between the column and the backfill leaves them unclassified for good |

Further statements of the repository are written down as properties of the
modules; TLC refutes each of them when it is added to the module's `.cfg`. They
are not among the runs:

| Property | What the repository says | What the model does |
|---|---|---|
| `CircuitBreaker.FailsFastForOpenSeconds` | an open breaker fails fast for `open_seconds` (`docs/configuration/timeouts.md`) | a late success of an older call closes it at once |
| `DecisionBroker.AcceptedTakesEffect` | a submission for an expired id gets 410 (`docs/api-reference.md`) | accepted after the timer fired, before the request resumes, and dropped |
| `ToolLoop.NothingFurtherAttempted` | "nothing further was attempted" (the answer after a cancel) | a read-only call of the same batch that sleeps before its retry is invoked again |
| `WorkingMemory.CursorNeverRollsBack` | the later cursor is never overwritten by a stale span (comment in `working.py`) | it is, when the cursor is past the whole span |
| `WorkingMemory.SummaryGoesWithSession` | the summary goes with the deleted conversation (comment in `chat_backend.py`) | a compression under way meanwhile writes its span again; `DeletedSummaryStaysDeleted` says when more than that comes back |
| `SchemaMigration.BaselineCompletes` | the baseline "completes one written before versioning" (comment in `_ensure_schema`) | an ALTER that raised is passed over, and the file is served without its column |
| `SchemaMigration.UnreadableFilesRefused` | "or refuse one this build cannot read" (docstring of `_ensure_schema`) | a build that has read the version finishes its steps on a file another has moved past it meanwhile |
| `MemoryIndex.VectorsMatchTexts` | an embedding is valid only while the text has not changed (`docs/superpowers/specs/2026-11-05-hierarchical-agent-memory-design.md`) | a capture, a consolidation or a recall stores the one it computed from the text it had read |
| `SearchLoop.RetrievalFires` | "retrieval always fires at least once instead of dead-ending on format recovery" (comment at `agents/search/search.py:339`) | the search of its own comes only with the last allowed format error; a run that gives up before never retrieves |

### Bounds, and why they are enough

- *breaker*: one caller to trip, one to probe, one straggler. Threshold 2 tells
  "consecutive" from "any", window 2 has an instant strictly inside it. No bound
  on the length of a run.
- *broker*: two requests share an id, so conflicts and the reuse of a freed id
  happen, with owners that differ; a third runs beside them. `MaxErrors` bounds
  only the rejected submissions, which change one counter.
- *loop*: two calls are needed to race; a budget of 3 with delays 1 and 2 admits
  one retry and refuses another; two questions allowed let a retry be asked
  again. `MaxAssistantTurns` and `MaxUserTurns` are the code's own limits.
- *ws*: one run to cancel, one started while it unwinds, one after that. A run
  id is used once.
- *memory*: two turns, on one process or on two, give an overlap within and
  across processes; four messages, of which at least the newest is kept, let a
  span be cut and outrun. `MaxMessages` is the only bound on the data.
- *schema*: two builds race while a third process opens what they leave, each
  ALTER may be passed over; step 2 breaks older readers, step 3 does not, and the build of schema 4 lacks its
  migration. No bound on the number of opens, crashes and failures.
- *events*: two questions fill a queue of two, or a trace takes the place one of
  them waits for. `MaxEvents` bounds what the agent starts: a batch among turns
  and traces, or two batches.
- *websearch*: two lookups of one query share one cache entry, so that the legs
  evict each other's pages and lookups refresh each other's; one tick each of
  freshness, grace, request and refusal has a boundary between any two of them. With
  two attempts one fails and sleeps and one is the last.
  No bound on the number of lookups.
- *memindex*: two curators, so that capture meets a consolidation of either kind or
  a recall, and two consolidations meet; two extracted memories, a near-duplicate
  and a constraint; near-duplicates, near-duplicates labelled as constraints, or
  exact duplicates of a constraint. `MaxWrites` bounds the user's own writes; one, at
  any point, is enough for every exception above. The user names no category here;
  the memories there are at first include a constraint saved as general.
- *search*: two subquestions, three queries and at most two searches in a text; a
  budget of one round that the second subquestion raises by two, which the cap cuts
  to one: without the cap a third round could follow. One rejection and two format
  errors, so that each limit is met within four turns.

`CHECK_DEADLOCK FALSE` stands where a system may stop: all requests answered, the
run over, the socket or stream closed, all turns done. The breaker, the schema's
openers and the lookups never stop.

### Fairness

- *breaker*: time passes. No caller has to call, answer or be cancelled.
- *broker*: due timers fire and a request that can resume does. No user has to
  decide.
- *loop*: generations and invocations return, sleeps end, and waits for the user
  are cut off by `wait_for`. Nothing says that a tool succeeds or a user answers.
- *ws*: the event loop runs every task that can go on, closes an unreferenced
  generator, a cancelled agent unwinds, a send ends or fails, and the handler
  reads a disconnect. Nothing is assumed of the client, or of an agent nobody
  cancels.
- *memory*: summarizer and curation return, and leases end. No turn has to start
  or to begin a compression.
- *events*: tasks that can run do, the broker's timer fires, the agent ends by
  itself when it does nothing else, and a client takes what is sent to it or
  leaves. Nobody has to answer a question.
- *websearch*: a lookup that is ready again and again gets its step (strong
  fairness: the event loop serves its ready tasks in turn, and a request ends by
  its timeout). Nobody has to ask.

`schema`, `memindex` and `search` check safety only.

## What is proved

Every safety property of the runs, and more, for every value of the constants
(under the named assumptions of each module):

| Module | Theorem | Argument |
|---|---|---|
| `DecisionBrokerProofs` | `TypeCorrect`, `TableIsExact`, `CountersAreExact`, `ConsentIsReal`, `AnswersAreFinal`, `BrokerImplementsHumanDecision` | `BrokerInv` adds that a future holds a decision exactly when one submission of the owner was accepted, that a returned decision is the one in the future, and that a request has no outcome before it resumes; `CountInv` that each counter is the size of the set of requests it counts, to which a step adds at most one. The refinement maps each step to a step of `HumanDecision` or a stutter |
| `ToolLoopProofs` | `TypeCorrect`, `EffectsAlwaysPaidFor`, `BudgetKept`, `EscalationsKept`, `StopsAreFinal`, `OutcomeIsStable`, `StopsReplays`, `ApprovalsComeFirst` | `LoopInv` adds that a call with side effects never sleeps before an automatic retry and, approved and not yet started, has not run and has its one consent; and that tasks exist only while the batch executes |
| `RunEventsProofs`: run and SSE | `TypeCorrect`, `EventsInOrder`, `TerminalComesLast`, `QuestionsAreWanted`, `NoAgentLeftBehind` | `EventsInv` adds where an event can be on its way: nothing is yielded while a frame is sent, and nothing is sent while the transport waits; and that the queue is drained only behind the agent's end |
| `RunEventsProofs`: the stream | `RunImplementsEventStream` | `StreamInv`, below |
| `RunEventsProofs`: WebSocket | `SessionTypes`, `RefusalsAreHonest`, `OneRunBeforeCancel`, `CancelledRunsAreSilent` | `SessionInv` relates slot, pump and agent of each run: only a launched run is doomed, a doomed run leaves the slot of an open socket, a run told of its cancellation is doomed or finished |
| `WorkingMemoryProofs` | `TypeCorrect`, `CompressionsExclude`, `SummaryIsComplete`, `RollBackNeedsOutrunTurn`, `DeletionIsKept` | a running compression is in `_inflight`, and holds the lock unless a lease ran out; the state it read then still has the stored cursor and summary, or the session was deleted; what lies before its span is covered. A span that ends before the cursor it read was outrun |
| `SearchLoopProofs` | `TypeCorrect`, `RoundsAreBudgeted`, `SearchCacheIsNeverHit`, `PatienceEnds`, `LastRoundReachesModel`, `AnswersHaveGrounds`, `RunsGiveUpForAReason`, `SufficientEvidenceIsKept` | `LoopInv` adds that a round under way has room in the budget, which only grows since no task is ever dropped; that what was sent is what was asked; where each kind of answer can stand; and that a task nobody has answered since it was opened is open (`UnmetAreOpen`) |
| `StoreProofs`: the memories | `IndexTypes`, `CleanNodesAreCurrent`, `HandlersAreSerial`, `NothingIsLost`, `ConstraintsAreKept`, `VectorsAreOutrun` | `IndexInv`, below |
| `StoreProofs`: the file | `SchemaTypes`, `VersionsAreEarned`, `ServedFilesAreComplete`, `VersionedFilesStaySound`, `SettledFilesOnlyGrow`, `UnreadableFilesAreRaced` | `SchemaInv` adds that what a process believes to be applied is applied, that a file past version 1, or behind whose baseline a process is, has its tables and lacks columns only where their last ALTER was passed over; that nobody reads version 0 from a versioned file; and that what a process found in a versioned file when it read the version is not ahead of what it believes of it (`SeenIsBehind`) |
| `CircuitBreakerProofs` | `TypeCorrect`, `ProbesAreSpaced`, `TimestampsAreDefined`, `ProbesComeQuietly`, `OpenIsNotExtended` | `BreakerInv` adds that no wait can be over while a probe is young: a breaker that is not closed counts its wait from an instant no earlier than the youngest probe's. Spacing alone is not inductive, for it does not say that the breaker remembers its last probe |
| `WebSearchProofs` | `SerpIsABreaker`, `BrowserIsABreaker`, `ServersSpared`, `BreakersNeverLost`, `WebTypes`, `AnswersRecent`, `BreakerClosesOnItsWord` | `WebInv` says how much older than its age in the cache a copy can be: the time of one request; and that what a closing lookup is to report as an answer was sent by the server (`live`); the breakers, below |

`RunEventsProofs` holds the theorems about both transports of a run, `StoreProofs`
those about what one SQLite file keeps, the memories and the file itself.

*Proofs composed as the modules are.* `WebSearch` is put together from two
instances of `CircuitBreaker`, and `WebSearchProofs` from two instances of
`CircuitBreakerProofs`: every step of the cascade is shown to be a step or a
stutter of each breaker (`SerpIsABreaker`, `BrowserIsABreaker`), and the theorems
about one breaker, for any callers, threshold and open time, then hold of both
(`ProbesComeQuietly` is what `ServersSpared` needs: before_call lets a call out only
where the property allows the request), once what they assume of the constants is shown of the times of the cascade
(`BreakerTimes`).

*`StreamInv`.* The refinement mapping of `ImplementsEventStream` reads off the
client's stage from where the generator is and what has not arrived: an answer
yielded but not yet received has not been told. For the mapping to be right at the
end, the invariant of the events needs `EndFits`: while the client stays, the
generator is not closed under it, an answer stands only behind an agent that
returned and an error behind one that raised, a terminal event on its way is not
one of the queue, and the queue is empty when the generator is over. All of it is
void once the client leaves, and the agent may still make events until it is
cancelled: `End` and `Make` of `EventStream` do not ask whether anyone listens.

*`IndexInv`.* A curator decides on calls from the records it read, and carries
them out one by one while others write. That a single call is harmless when its
turn comes (`DeletedForAnother`, `ConstraintsStay`, the action property about
vectors) says nothing of the calls behind it. The invariant therefore says of
*every* call still to come that what it was decided on is true of the store
unless another curator touched the memories it names (`CallTrue`), of every two
of them that the earlier one leaves the later one true (`Compatible`: no memory is
written twice, what a deletion keeps is not deleted before it, and what it deletes
is not made a constraint before it), and of the kinds of calls each phase decides
on (`Decided`). `Tracks` is the step: a call that is
carried out, or a write of anyone else, changes only memories that are then
marked as touched for the others. The phases are then proved one at a time: what
`Dedup`, `Merge`, `Contradictions`, `Reclassify` and `Summarize` decide satisfies
the three. Those operators build sequences of any length; about sequences the
proofs use induction over the natural numbers in the form of lemmas about *sets*
of numbers (`Least`, `Induct`), from the library's theorem that the inclusion of
finite sets is well-founded: the library's own induction rules take an operator as a
parameter, which the provers cannot instantiate.

*Assumptions.* `SummaryIsComplete` and `RollBackNeedsOutrunTurn` assume
`~CacheFails`. With a cache whose reads fail, `SummaryHasNoGap` is false: two
failing reads around the summarizer and a successful write replace the summary by
one of the new span. `SummaryHasNoGap` itself speaks only of histories in which no
lease ran out under a compression: an expired lease, and a turn that rolls the
cursor back to the value the stale compression read, make a gap with five turns.

*What a proof found.* `DeletedSummaryStaysDeleted` said once, without exception,
that only the span of the compression that writes comes back to a deleted session.
That holds with the two turns of the run, and is not inductive: with four, a
compression that has lost its lease can find the cursor where it had read it,
because another one, begun after the deletion on a span in the middle of the
session, has put it there; then the whole deleted summary comes back (TLC shows it
with four messages, `KeepLast = 1`). The property now names this exception, and
`DeletionIsKept` says that it is the only one.

Only model-checked: all liveness, which is out of the prover's reach:
`AlwaysReadmits`, `EveryRequestEnds`, `RunEnds`, `CancelStopsTheAgent`,
`SlotIsFreed`, `SessionIsFreed`, `StreamEnds`, `LeavingStopsTheAgent` and
`LookupEnds`. No proof needs a recursive operator; the modules have none.

## What is not modelled, and the plan

Left, in order:

1. An abstract specification of the user's memories (a set of facts, each kept or
   superseded by another) that `MemoryIndex` implements, and `EventStream` for
   `WsSession`, whose events are not numbered yet.
2. `WsTokens`: the single-use tokens and the rate window of `redis_pool.py`. Each
   step is one Redis command; what can go wrong is a token minted and not
   consumed, and a window that refused attempts keep renewing.
3. The retry loop of `public_data/_http.py` (attempt cap and wall-clock budget) and
   the fail-over of the serving clients: sequential loops over two bounds.
4. The loop of `agentic_rag.py`, a fixed sequence of stages with fallbacks, and
   the incremental maintenance of the document index.

Left out of modelled components: the vetoes of the encoder in a consolidation (a
capture has them), batch sizes of LLM calls, the ranking of a recall and the
profiles of the long-term memory; the content of error pages of the web search; the loss of a handler at shutdown;
failures of SQL statements other than in migrations; reranking, citations and
metrics of the search agent; authentication of the socket; the schema validation
and the create/execute/release cycle of the tool registry.

Ranking, prompts, parsing, tensors and CRUD stay out: they are data the
properties do not tell apart, or numerics out of a model checker's reach. The
training code and the evaluation, the adapters to providers, and the tables of
administration make up most of the repository's lines; that is why the map covers
a small share of them.
