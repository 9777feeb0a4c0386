----------------------------- MODULE WebSearch -----------------------------
(***************************************************************************)
(* The web search cascade of internal/tools/search.py: SerpAPI first, then *)
(* the browser search server, each behind a circuit breaker of its own and *)
(* both behind the process's serving cache (cache/ttl_cache.py).           *)
(*                                                                         *)
(* The two legs meet the same parts in a different order.  For SerpAPI the *)
(* cache is outside the breaker: a copy is served without asking it, and a *)
(* refusal is answered from a stale copy.  For the browser server the      *)
(* cache is inside: the breaker is asked first, and told of a success when *)
(* a fresh copy was served.                                                *)
(*                                                                         *)
(* One event loop runs every lookup.  "running" is the lookup that has it  *)
(* between two awaits: no other step and no time comes in between.  The    *)
(* leg of the browser server awaits more than its request: it sleeps       *)
(* between attempts, and closes its HTTP session before its breaker is     *)
(* told.                                                                   *)
(*                                                                         *)
(* A page list is one of the kinds below.  Time is kept as ages, cut off   *)
(* where the code no longer tells them apart.                              *)
(***************************************************************************)
EXTENDS Integers, SequencesExt

CONSTANTS
  Lookups,            \* concurrent calls of the cascade
  Queries,            \* queries they ask
  TTL,                \* AGENTIC_SEARCH_SEARCH_CACHE_TTL, in ticks
  Grace,              \* AGENTIC_SEARCH_SEARCH_CACHE_STALE_SECONDS, in ticks
  MaxEntries,         \* TTLCache's max_entries
  CallTime,           \* timeout of one HTTP request, in ticks
  MaxRetries,         \* SearchClientConfig.max_retries
  FailureThreshold,   \* [circuit_breaker] failure_threshold
  OpenSeconds,        \* [circuit_breaker] open_seconds, in ticks
  Null

ASSUME TimesAssumption ==
  {TTL, MaxEntries, CallTime, MaxRetries, FailureThreshold, OpenSeconds}
    \subseteq Nat \ {0}
ASSUME GraceAssumption == Grace \in Nat
ASSUME NoNullNumber == Null \notin Nat

VARIABLES
  at,          \* where each lookup is
  query,       \* what it looks up
  attempt,     \* its request to the browser server: 1 .. MaxRetries
  got,         \* what its browser leg will return, while it closes, or Null
  waited,      \* age of its request
  running,     \* the lookup that has the event loop, or Null
  entries,     \* TTLCache._entries, oldest use first
  serp_key,    \* an API key for SerpAPI is set
  browser_url, \* browser_search_url is set
  answer,      \* auxiliary: the usable pages that the last step took, or Null
  (* the two breakers *)
  s_state, s_failures, s_opened_ago, s_probe_ago, s_call, s_call_ago,
  b_state, b_failures, b_opened_ago, b_probe_ago, b_call, b_call_ago

serpapi == <<s_state, s_failures, s_opened_ago, s_probe_ago, s_call, s_call_ago>>
browser == <<b_state, b_failures, b_opened_ago, b_probe_ago, b_call, b_call_ago>>
lookup == <<at, query, attempt, got, waited>>
settings == <<serp_key, browser_url>>
vars == <<lookup, running, entries, settings, answer, serpapi, browser>>

\* get_breaker("serpapi")
Serp == INSTANCE CircuitBreaker WITH
  Callers <- Lookups, state <- s_state, failures <- s_failures,
  opened_ago <- s_opened_ago, probe_ago <- s_probe_ago, call <- s_call, call_ago <- s_call_ago

\* get_breaker("browser_search")
Browser == INSTANCE CircuitBreaker WITH
  Callers <- Lookups, state <- b_state, failures <- b_failures,
  opened_ago <- b_opened_ago, probe_ago <- b_probe_ago, call <- b_call, call_ago <- b_call_ago

-----------------------------------------------------------------------------
(* Page lists *)

\* links: pages with a URL; bare: pages without one; partial: pages with a
\* URL and a blank one among them; empty: no page.
Results == {"links", "bare", "partial", "empty"}

\* error: a page of a failure, which has a message, or is blank after a timeout.
Pages == Results \union {"error"}

\* _pages_are_usable
Usable(pages) == pages \in {"links", "partial"}

\* search_tool stores the pages when none is missing, blank or an error.
Cacheable(pages) == pages \in {"links", "bare"}

ReadAges == 0 .. TTL + Grace + CallTime

-----------------------------------------------------------------------------
(* The serving cache has one entry per key.  An entry's read is the age of *)
(* the server's answer, counted from the request for it.                   *)

Keys == {"serpapi", "browser"} \X Queries
Entry == [key : Keys, pages : Pages, age : 0 .. TTL + Grace, read : ReadAges]

Copies(key) == {e \in ToSet(entries) : e.key = key}

\* get returns these, get_stale those.
Fresh(key) == {e \in Copies(key) : e.age < TTL}
InGrace(key) == {e \in Copies(key) : e.age < TTL + Grace}

Without(key) == RemoveFirstMatch(entries, LAMBDA e : e.key = key)

\* What get leaves behind: a hit is moved to the end, and an entry past its
\* grace window is deleted.
AfterGet(key) ==
  IF Fresh(key) # {} THEN Append(Without(key), CHOOSE e \in Fresh(key) : TRUE)
  ELSE IF InGrace(key) # {} THEN entries
  ELSE Without(key)

AfterGetStale(key) == IF InGrace(key) # {} THEN entries ELSE Without(key)

\* set, with the eviction of the entries used longest ago.
AfterSet(key, pages, read) ==
  LET all == Append(Without(key),
                    [key |-> key, pages |-> pages, age |-> 0, read |-> read])
  IN  IF Len(all) > MaxEntries THEN Tail(all) ELSE all

-----------------------------------------------------------------------------

Answers == [stale : BOOLEAN, read : ReadAges]

\* What retrieval_search has at hand while it closes its client: what is left
\* to tell apart is a list the cascade can use, one it cannot and an error page;
\* live (auxiliary): rows that the server has just sent.
Outcomes == [pages : {"links", "empty", "error"}, stale : BOOLEAN, live : BOOLEAN]

ASSUME NoNullAnswer == Null \notin Answers \union Outcomes

\* Where a lookup waits: for a server, or for its own leg of the browser
\* server to sleep, to close, or to close before it gives up.
Places == {"idle", "serp_call", "fallback", "browser_hit", "browser_call", "backoff",
           "closing", "giving_up"}

TypeOK ==
  /\ at \in [Lookups -> Places]
  /\ query \in [Lookups -> Queries \union {Null}]
  /\ attempt \in [Lookups -> 0 .. MaxRetries]
  /\ got \in [Lookups -> Outcomes \union {Null}]
  /\ waited \in [Lookups -> 0 .. CallTime]
  /\ running \in Lookups \union {Null}
  /\ entries \in Seq(Entry)
  /\ Len(entries) <= MaxEntries
  /\ serp_key \in BOOLEAN /\ browser_url \in BOOLEAN
  /\ answer \in Answers \union {Null}
  /\ Serp!TypeOK
  /\ Browser!TypeOK

Init ==
  /\ at = [l \in Lookups |-> "idle"]
  /\ query = [l \in Lookups |-> Null]
  /\ attempt = [l \in Lookups |-> 0]
  /\ got = [l \in Lookups |-> Null]
  /\ waited = [l \in Lookups |-> 0]
  /\ running = Null
  /\ entries = << >>
  /\ serp_key \in BOOLEAN /\ browser_url \in BOOLEAN
  /\ answer = Null
  /\ Serp!Init
  /\ Browser!Init

-----------------------------------------------------------------------------
(* Steps both legs share *)

\* What is kept of a lookup goes with it.
Leave(l) ==
  /\ at' = [at EXCEPT ![l] = "idle"]
  /\ query' = [query EXCEPT ![l] = Null]
  /\ attempt' = [attempt EXCEPT ![l] = 0]
  /\ got' = [got EXCEPT ![l] = Null]
  /\ waited' = [waited EXCEPT ![l] = 0]
  /\ running' = Null

\* A list is taken from a server or from the cache, to be returned if it can be
\* used.
Takes(pages, stale, read) ==
  answer' = IF Usable(pages) THEN [stale |-> stale, read |-> read] ELSE Null

\* Nothing usable from SerpAPI: the browser leg follows without an await in
\* between.
FallBack(l, q) ==
  /\ at' = [at EXCEPT ![l] = "fallback"]
  /\ query' = [query EXCEPT ![l] = q]
  /\ waited' = [waited EXCEPT ![l] = 0]
  /\ running' = l
  /\ UNCHANGED <<attempt, got>>

\* The cascade goes on with the pages of its SerpAPI leg.
SerpPages(l, q, pages, stale, read) ==
  /\ Takes(pages, stale, read)
  /\ IF Usable(pages) THEN Leave(l) ELSE FallBack(l, q)

-----------------------------------------------------------------------------
(* The SerpAPI leg: search_tool around serpapi_search *)

\* A repeat within the TTL is served without asking SerpAPI or its breaker.
SerpHit(l, q) ==
  /\ at[l] = "idle" /\ running = Null
  /\ \E e \in Fresh(<<"serpapi", q>>) : SerpPages(l, q, e.pages, FALSE, e.read)
  /\ entries' = AfterGet(<<"serpapi", q>>)
  /\ UNCHANGED <<settings, serpapi, browser>>

SerpRequest(l, q) ==
  /\ at[l] = "idle" /\ running = Null
  /\ Fresh(<<"serpapi", q>>) = {}
  /\ entries' = AfterGet(<<"serpapi", q>>)
  /\ serp_key
  /\ Serp!AdmitOrdinary(l) \/ Serp!AdmitProbe(l)
  /\ at' = [at EXCEPT ![l] = "serp_call"]
  /\ query' = [query EXCEPT ![l] = q]
  /\ answer' = Null
  /\ UNCHANGED <<attempt, got, waited, running, settings, browser>>

\* A failed lookup is answered from a copy in its grace window, if there is
\* one.
SerpFailed(l, q) ==
  LET key == <<"serpapi", q>>
  IN  /\ entries' = AfterGetStale(key)
      /\ IF InGrace(key) = {} THEN SerpPages(l, q, "error", FALSE, 0)
         ELSE \E e \in InGrace(key) : SerpPages(l, q, e.pages, TRUE, e.read)

\* Without an API key SerpAPI and its breaker are not asked: an error page.
SerpUnkeyed(l, q) ==
  /\ at[l] = "idle" /\ running = Null
  /\ Fresh(<<"serpapi", q>>) = {}
  /\ ~serp_key
  /\ SerpFailed(l, q)
  /\ UNCHANGED <<settings, serpapi, browser>>

\* The breaker refuses: an error page, and no request.
SerpRefused(l, q) ==
  /\ at[l] = "idle" /\ running = Null
  /\ Fresh(<<"serpapi", q>>) = {}
  /\ serp_key
  /\ ~Serp!Admits
  /\ SerpFailed(l, q)
  /\ UNCHANGED <<settings, serpapi, browser>>

\* SerpAPI answers with results.
SerpAnswers(l) ==
  /\ at[l] = "serp_call" /\ running = Null
  /\ Serp!RecordSuccess(l)
  /\ \E pages \in Results :
       /\ entries' = IF Cacheable(pages)
                     THEN AfterSet(<<"serpapi", query[l]>>, pages, waited[l])
                     ELSE entries
       /\ SerpPages(l, query[l], pages, FALSE, waited[l])
  /\ UNCHANGED <<settings, browser>>

\* A 4xx other than 429: SerpAPI is up, the lookup has failed.
SerpRejects(l) ==
  /\ at[l] = "serp_call" /\ running = Null
  /\ Serp!RecordSuccess(l)
  /\ SerpFailed(l, query[l])
  /\ UNCHANGED <<settings, browser>>

\* Any other failure, timeouts included.
SerpFails(l) ==
  /\ at[l] = "serp_call" /\ running = Null
  /\ Serp!RecordFailure(l)
  /\ SerpFailed(l, query[l])
  /\ UNCHANGED <<settings, browser>>

-----------------------------------------------------------------------------
(* The browser leg: make_web_cascade_search around SearchClient.retrieve *)

BrowserKey(l) == <<"browser", query[l]>>

\* Mutant: rows served from a stale copy count as a success.
RecordsStale(l, pages, stale) ==
  IF pages = "error" THEN Browser!RecordFailure(l) ELSE Browser!RecordSuccess(l)

\* What the cascade tells the breaker of what its browser leg returned.
Records(l, pages, stale) ==
  IF pages = "error" \/ stale THEN Browser!RecordFailure(l) ELSE Browser!RecordSuccess(l)

BrowserMissing(l) ==
  /\ at[l] = "fallback"
  /\ ~browser_url
  /\ Leave(l)
  /\ answer' = Null
  /\ UNCHANGED <<entries, settings, serpapi, browser>>

\* Mutant: the server is asked although its breaker refused.
BrowserRefusedAnyway(l) ==
  /\ at[l] = "fallback"
  /\ browser_url
  /\ ~Browser!Admits
  /\ at' = [at EXCEPT ![l] = "browser_call"]
  /\ attempt' = [attempt EXCEPT ![l] = 1]
  /\ running' = Null
  /\ answer' = Null
  /\ UNCHANGED <<query, got, waited, entries, settings, serpapi, browser>>

BrowserRefused(l) ==
  /\ at[l] = "fallback"
  /\ browser_url
  /\ ~Browser!Admits
  /\ Leave(l)
  /\ answer' = Null
  /\ UNCHANGED <<entries, settings, serpapi, browser>>

\* before_call, whatever the cache holds.
BrowserAdmit(l) ==
  /\ at[l] = "fallback"
  /\ browser_url
  /\ Browser!AdmitOrdinary(l) \/ Browser!AdmitProbe(l)
  /\ IF Fresh(BrowserKey(l)) # {}
     THEN /\ at' = [at EXCEPT ![l] = "browser_hit"]
          /\ UNCHANGED <<attempt, running>>
     ELSE /\ at' = [at EXCEPT ![l] = "browser_call"]
          /\ attempt' = [attempt EXCEPT ![l] = 1]
          /\ running' = Null
  /\ entries' = AfterGet(BrowserKey(l))
  /\ answer' = Null
  /\ UNCHANGED <<query, got, waited, settings, serpapi>>

\* A fresh copy counts as a success of the browser server; there is no session
\* to close.
BrowserHit(l) ==
  /\ at[l] = "browser_hit"
  /\ \E e \in Fresh(BrowserKey(l)) :
       Records(l, e.pages, FALSE) /\ Takes(e.pages, FALSE, e.read)
  /\ Leave(l)
  /\ UNCHANGED <<entries, settings, serpapi>>

\* retrieval_search has its pages, or the page of its error, and closes its
\* client.
Closes(l, pages, stale, live) ==
  /\ at' = [at EXCEPT ![l] = "closing"]
  /\ got' = [got EXCEPT ![l] =
               [pages |-> IF Usable(pages) THEN "links"
                          ELSE IF pages = "error" THEN "error" ELSE "empty",
                stale |-> stale, live |-> live]]
  /\ attempt' = [attempt EXCEPT ![l] = 0]
  /\ waited' = [waited EXCEPT ![l] = 0]
  /\ UNCHANGED <<query, running, settings, serpapi, browser>>

ClosesOnError(l) == Closes(l, "error", FALSE, FALSE) /\ answer' = Null

\* Any row that is not empty is stored.
BrowserAnswers(l) ==
  /\ at[l] = "browser_call" /\ running = Null
  /\ \E pages \in Results :
       /\ entries' = IF pages # "empty" THEN AfterSet(BrowserKey(l), pages, waited[l])
                     ELSE entries
       /\ Takes(pages, FALSE, waited[l])
       /\ Closes(l, pages, FALSE, TRUE)

\* A 4xx other than 429, or no JSON: neither retried nor answered from a stale
\* copy.
BrowserRejects(l) ==
  /\ at[l] = "browser_call" /\ running = Null
  /\ ClosesOnError(l)
  /\ UNCHANGED entries

\* A 429 is not retried, but answered from a copy in its grace window.
BrowserThrottled(l) ==
  /\ at[l] = "browser_call" /\ running = Null
  /\ entries' = AfterGetStale(BrowserKey(l))
  /\ IF InGrace(BrowserKey(l)) = {} THEN ClosesOnError(l)
     ELSE \E e \in InGrace(BrowserKey(l)) :
            Takes(e.pages, TRUE, e.read) /\ Closes(l, e.pages, TRUE, FALSE)

\* The session is closed, and the cascade has the pages.
BrowserReturns(l) ==
  /\ at[l] = "closing" /\ running = Null
  /\ Records(l, got[l].pages, got[l].stale)
  /\ Leave(l)
  /\ answer' = Null
  /\ UNCHANGED <<entries, settings, serpapi>>

\* Closing raises, and what it was closed for is lost.
BrowserRaises(l) ==
  /\ at[l] = "closing" /\ running = Null
  /\ Browser!RecordFailure(l)
  /\ Leave(l)
  /\ answer' = Null
  /\ UNCHANGED <<entries, settings, serpapi>>

\* _post_json after a transport error, a timeout or a 5xx: it closes its session,
\* and sleeps unless this was the last attempt.
BrowserBacksOff(l) ==
  /\ at[l] = "browser_call" /\ running = Null
  /\ at' = [at EXCEPT ![l] = IF attempt[l] < MaxRetries THEN "backoff" ELSE "giving_up"]
  /\ waited' = [waited EXCEPT ![l] = 0]
  /\ answer' = Null
  /\ UNCHANGED <<query, attempt, got, running, entries, settings, serpapi, browser>>

\* Mutant: a failed request is retried for ever.
BrowserRetriesForEver(l) ==
  /\ at[l] = "backoff" /\ running = Null
  /\ at' = [at EXCEPT ![l] = "browser_call"]
  /\ answer' = Null
  /\ UNCHANGED <<query, attempt, got, waited, running, entries, settings, serpapi, browser>>

BrowserRetries(l) ==
  /\ at[l] = "backoff" /\ running = Null
  /\ at' = [at EXCEPT ![l] = "browser_call"]
  /\ attempt' = [attempt EXCEPT ![l] = @ + 1]
  /\ answer' = Null
  /\ UNCHANGED <<query, got, waited, running, entries, settings, serpapi, browser>>

\* Mutant: the stale copy that is served is stored again.
BrowserFailsRenewing(l) ==
  /\ at[l] = "giving_up" /\ running = Null
  /\ IF InGrace(BrowserKey(l)) = {}
     THEN entries' = entries /\ Records(l, "error", FALSE) /\ answer' = Null
     ELSE \E e \in InGrace(BrowserKey(l)) :
            /\ entries' = AfterSet(BrowserKey(l), e.pages, e.read)
            /\ Records(l, e.pages, TRUE) /\ Takes(e.pages, TRUE, e.read)
  /\ Leave(l)
  /\ UNCHANGED <<settings, serpapi>>

\* The last attempt has failed and its session is closed: answered from a copy
\* in its grace window, if there is one, and a failure for the breaker either way.
BrowserFails(l) ==
  /\ at[l] = "giving_up" /\ running = Null
  /\ entries' = AfterGetStale(BrowserKey(l))
  /\ IF InGrace(BrowserKey(l)) = {}
     THEN Records(l, "error", FALSE) /\ answer' = Null
     ELSE \E e \in InGrace(BrowserKey(l)) :
            Records(l, e.pages, TRUE) /\ Takes(e.pages, TRUE, e.read)
  /\ Leave(l)
  /\ UNCHANGED <<settings, serpapi>>

-----------------------------------------------------------------------------

AtBrowser == {"browser_call", "backoff", "closing", "giving_up"}

\* The turn is cancelled while the lookup waits: nothing is recorded, and what
\* its browser leg had at hand is lost.
Cancel(l) ==
  /\ running = Null
  /\ \/ at[l] = "serp_call" /\ Serp!Abandon(l) /\ UNCHANGED browser
     \/ at[l] \in AtBrowser /\ Browser!Abandon(l) /\ UNCHANGED serpapi
  /\ Leave(l)
  /\ answer' = Null
  /\ UNCHANGED <<entries, settings>>

Waiting(l) == at[l] \in {"serp_call", "browser_call"}

\* One unit of time later.  No request outlives its timeout, and the code
\* between two awaits takes no time; sleeping and closing take any.
Tick ==
  /\ running = Null
  /\ \A l \in Lookups : Waiting(l) => waited[l] < CallTime
  /\ waited' = [l \in Lookups |-> IF Waiting(l) THEN waited[l] + 1 ELSE 0]
  /\ entries' = [i \in DOMAIN entries |->
                   [entries[i] EXCEPT
                      !.age = IF @ < TTL + Grace THEN @ + 1 ELSE @,
                      !.read = IF @ < TTL + Grace + CallTime THEN @ + 1 ELSE @]]
  /\ Serp!Tick
  /\ Browser!Tick
  /\ answer' = Null
  /\ UNCHANGED <<at, query, attempt, got, running, settings>>

\* What the event loop does for a lookup once it has been asked.
Proceed(l) ==
  \/ SerpAnswers(l) \/ SerpRejects(l) \/ SerpFails(l)
  \/ BrowserMissing(l) \/ BrowserRefused(l) \/ BrowserAdmit(l) \/ BrowserHit(l)
  \/ BrowserAnswers(l) \/ BrowserRejects(l) \/ BrowserThrottled(l)
  \/ BrowserReturns(l) \/ BrowserRaises(l)
  \/ BrowserBacksOff(l) \/ BrowserRetries(l) \/ BrowserFails(l)

Ask(l) ==
  \E q \in Queries :
    SerpHit(l, q) \/ SerpUnkeyed(l, q) \/ SerpRequest(l, q) \/ SerpRefused(l, q)

Next == (\E l \in Lookups : Ask(l) \/ Proceed(l) \/ Cancel(l)) \/ Tick

Spec == Init /\ [][Next]_vars

\* Nobody has to ask.  A request ends by its timeout at the latest, and the
\* event loop serves its ready tasks in turn: a lookup that is ready again and
\* again, whenever no other one has the loop, gets its step.
FairSpec == Spec /\ \A l \in Lookups : SF_vars(Proceed(l))

-----------------------------------------------------------------------------
(* Properties *)

\* docs/retrieval.md bounds what an outage can serve by TTL + grace; what the
\* code keeps is that bound plus the time of the request the copy came from,
\* and TTL plus that time for an answer not marked stale, however many
\* lookups refresh, evict and re-read the copy in between.  The age is the one
\* the copy had when a lookup took it.
AnswersAreRecent ==
  answer # Null =>
    answer.read < CallTime + TTL + IF answer.stale THEN Grace ELSE 0

\* The lookup goes to this server: not a retry inside the leg it is in.
Sent(l, server) == at'[l] = server /\ at[l] \notin {server, "backoff"}

\* A server in trouble is spared: while its breaker is not closed a lookup goes
\* to it only OpenSeconds after the last failure that opened the breaker, and
\* OpenSeconds after the last lookup that probed it, whether that one reported
\* or was cancelled, and whatever lookups let through earlier still report.
ServersAreSpared ==
  [][\A l \in Lookups :
       /\ Sent(l, "serp_call") /\ s_state # "closed" =>
            /\ (s_state = "open" => s_opened_ago >= OpenSeconds)
            /\ \A k \in Lookups : s_call[k] = "probe" => s_call_ago[k] >= OpenSeconds
       /\ Sent(l, "browser_call") /\ b_state # "closed" =>
            /\ (b_state = "open" => b_opened_ago >= OpenSeconds)
            /\ \A k \in Lookups : b_call[k] = "probe" => b_call_ago[k] >= OpenSeconds]_vars

\* The browser server's breaker is closed, or its failures forgotten, only when
\* a lookup reports rows that the server has sent it, or a copy of such rows
\* that is still fresh.  A failed call is no such word, whether it ends in an
\* error page or is answered from a stale copy.
ClosedOnItsWord ==
  [][b_failures' < b_failures \/ (b_state # "closed" /\ b_state' = "closed") =>
       \E l \in Lookups :
         /\ at'[l] = "idle"
         /\ \/ at[l] = "closing" /\ got[l].live
            \/ /\ at[l] = "browser_hit"
               /\ \E e \in Copies(BrowserKey(l)) : e.read < TTL + CallTime]_vars

\* Every lookup ends, through refusals, timeouts and retries of either leg.
LookupEnds == \A l \in Lookups : at[l] # "idle" ~> at[l] = "idle"
=============================================================================
