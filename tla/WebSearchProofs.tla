-------------------------- MODULE WebSearchProofs --------------------------
(***************************************************************************)
(* Theorems about WebSearch, for any number of lookups, any cache and any  *)
(* times.                                                                  *)
(*                                                                         *)
(* The cascade is put together from two breakers, and so are the proofs:   *)
(* it is shown that every step of a lookup is a step of CircuitBreaker, or *)
(* none, for the breaker of each leg (SerpIsABreaker, BrowserIsABreaker),  *)
(* and what CircuitBreakerProofs has of one breaker is then instantiated   *)
(* for both.                                                               *)
(***************************************************************************)
EXTENDS WebSearch, FiniteSetTheorems, WellFoundedInduction, TLAPS

\* The constants of the two breakers and of the cache are what they need.
LEMMA Times ==
  /\ TTL \in Nat \ {0} /\ MaxEntries \in Nat \ {0}
  /\ CallTime \in Nat \ {0} /\ MaxRetries \in Nat \ {0}
  /\ FailureThreshold \in Nat \ {0} /\ OpenSeconds \in Nat \ {0}
BY TimesAssumption

-----------------------------------------------------------------------------
(* The serving cache *)

\* An entry whose copy is no older than its time in the cache and the longest
\* request together.
Aged == {e \in Entry : e.read <= e.age + CallTime}

CacheInv == entries \in Seq(Aged) /\ Len(entries) <= MaxEntries

\* A read time that an answer may have.
Recent(stale, read) ==
  read \in ReadAges /\ read < CallTime + TTL + IF stale THEN Grace ELSE 0

LEMMA CopiesAreRecent ==
  ASSUME CacheInv, NEW key
  PROVE  /\ \A e \in Fresh(key) : e \in Aged /\ Recent(FALSE, e.read)
         /\ \A e \in InGrace(key) : e \in Aged /\ Recent(TRUE, e.read)
<1>1. \A e \in Copies(key) : e \in Aged
  BY DEF CacheInv, Copies, ToSet
<1>2. ASSUME NEW e \in Aged
      PROVE  /\ e.age < TTL => Recent(FALSE, e.read)
             /\ e.age < TTL + Grace => Recent(TRUE, e.read)
  BY Times, GraceAssumption DEF Aged, Entry, ReadAges, Recent
<1> QED BY <1>1, <1>2 DEF Fresh, InGrace

LEMMA NewIsRecent ==
  Recent(FALSE, 0) /\ \A read \in 0 .. CallTime : Recent(FALSE, read)
BY Times, GraceAssumption DEF Recent, ReadAges

\* Every set of natural numbers has a least element.
LEMMA Least ==
  ASSUME NEW T, T \subseteq Nat, T # {}
  PROVE  \E m \in T : \A k \in T : m <= k
<1> DEFINE Below == {0 .. n : n \in T}
<1>1. Below \subseteq FiniteSubsetsOf(Nat)
  <2>1. ASSUME NEW n \in T PROVE 0 .. n \subseteq Nat /\ IsFiniteSet(0 .. n)
    BY FS_Interval
  <2> QED BY <2>1 DEF FiniteSubsetsOf
<1>2. \E x \in Below : \A y \in Below : <<y, x>> \notin StrictSubsetOrdering(Nat)
  <2> Below # {} OBVIOUS
  <2> HIDE DEF Below
  <2> QED BY <1>1, WFMin, FS_StrictSubsetOrderingWellFounded, Zenon
<1>3. PICK m \in T : \A k \in T : <<0 .. k, 0 .. m>> \notin StrictSubsetOrdering(Nat)
  BY <1>2
<1>4. ASSUME NEW k \in T, ~ m <= k PROVE FALSE
  <2>1. m \in Nat /\ k \in Nat /\ k < m
    BY <1>4
  <2>2. 0 .. k \subseteq 0 .. m /\ m \in 0 .. m /\ m \notin 0 .. k
    BY <2>1
  <2>3. 0 .. k \in SUBSET Nat /\ 0 .. m \in SUBSET Nat
    BY <2>1
  <2> QED BY <1>3, <2>2, <2>3 DEF StrictSubsetOrdering
<1> QED BY <1>4

\* The entries without the one of a key, if there is one.
LEMMA WithoutKey ==
  ASSUME CacheInv, NEW key
  PROVE  /\ Without(key) \in Seq(Aged)
         /\ Len(Without(key)) <= Len(entries)
         /\ Copies(key) # {} => Len(Without(key)) < Len(entries)
<1> DEFINE I == {k \in 1 .. Len(entries) : entries[k].key = key}
<1>1. entries \in Seq(Aged) /\ Len(entries) \in Nat
  BY DEF CacheInv
<1>2. CASE I = {}
  <2>1. Without(key) = entries
    BY <1>2 DEF Without, RemoveFirstMatch
  <2>2. Copies(key) = {}
    BY <1>1, <1>2 DEF Copies, ToSet
  <2> QED BY <1>1, <2>1, <2>2
<1>3. CASE I # {}
  <2>1. PICK m \in I : \A k \in I : m <= k
    <3>1. I \subseteq Nat
      OBVIOUS
    <3> HIDE DEF I
    <3> QED BY <1>3, <3>1, Least
  <2>2. Min(I) = m
    BY <2>1 DEF Min
  <2>3. SelectInSeq(entries, LAMBDA e : e.key = key) = m
    BY <1>3, <2>2 DEF SelectInSeq
  <2>4. m \in 1 .. Len(entries) /\ Without(key) = RemoveAt(entries, m)
    BY <2>1, <2>3 DEF Without, RemoveFirstMatch
  <2> DEFINE a == SubSeq(entries, 1, m - 1)
             b == SubSeq(entries, m + 1, Len(entries))
  <2>5. a \in Seq(Aged) /\ Len(a) = m - 1
    BY <1>1, <2>4
  <2>6. b \in Seq(Aged) /\ Len(b) = Len(entries) - m
    BY <1>1, <2>4
  <2>7. Without(key) = a \o b
    BY <2>4 DEF RemoveAt
  <2> HIDE DEF a, b
  <2>8. a \o b \in Seq(Aged) /\ Len(a \o b) = Len(a) + Len(b)
    BY <2>5, <2>6
  <2> QED BY <1>1, <2>4, <2>5, <2>6, <2>7, <2>8
<1> QED BY <1>2, <1>3

\* get, get_stale and set keep the cache within its bound, and its copies no
\* older than they say.
LEMMA CacheKept ==
  ASSUME CacheInv, NEW key, NEW new
  PROVE  /\ new = AfterGet(key) => new \in Seq(Aged) /\ Len(new) <= MaxEntries
         /\ new = AfterGetStale(key) => new \in Seq(Aged) /\ Len(new) <= MaxEntries
         /\ \A pages \in Pages, read \in 0 .. CallTime :
              key \in Keys /\ new = AfterSet(key, pages, read) =>
                new \in Seq(Aged) /\ Len(new) <= MaxEntries
<1>1. /\ entries \in Seq(Aged) /\ Len(entries) \in Nat /\ Len(entries) <= MaxEntries
      /\ MaxEntries \in Nat \ {0}
  BY Times DEF CacheInv
<1>2. PICK rest \in Seq(Aged) :
        /\ rest = Without(key)
        /\ Len(rest) <= Len(entries)
        /\ Copies(key) # {} => Len(rest) < Len(entries)
  BY WithoutKey
<1>3. ASSUME new = AfterGet(key) PROVE new \in Seq(Aged) /\ Len(new) <= MaxEntries
  <2>1. CASE Fresh(key) # {}
    <3>1. PICK e \in Fresh(key) : new = Append(rest, e)
      BY <1>2, <1>3, <2>1 DEF AfterGet
    <3>2. e \in Aged /\ Copies(key) # {}
      BY <3>1, CopiesAreRecent DEF Fresh
    <3> QED BY <1>1, <1>2, <3>1, <3>2
  <2>2. CASE Fresh(key) = {}
    BY <1>1, <1>2, <1>3, <2>2 DEF AfterGet
  <2> QED BY <2>1, <2>2
<1>4. ASSUME new = AfterGetStale(key) PROVE new \in Seq(Aged) /\ Len(new) <= MaxEntries
  BY <1>1, <1>2, <1>4 DEF AfterGetStale
<1>5. ASSUME NEW pages \in Pages, NEW read \in 0 .. CallTime, key \in Keys,
             new = AfterSet(key, pages, read)
      PROVE  new \in Seq(Aged) /\ Len(new) <= MaxEntries
  <2>1. PICK e : e = [key |-> key, pages |-> pages, age |-> 0, read |-> read]
    OBVIOUS
  <2>2. e \in Aged
    BY <1>5, <2>1, Times, GraceAssumption DEF Aged, Entry, ReadAges
  <2>3. PICK all : all = Append(rest, e)
    OBVIOUS
  <2>4. all \in Seq(Aged) /\ Len(all) = Len(rest) + 1
    BY <2>2, <2>3
  <2>5. new = IF Len(all) > MaxEntries THEN Tail(all) ELSE all
    BY <1>2, <1>5, <2>1, <2>3 DEF AfterSet
  <2> QED BY <1>1, <1>2, <2>4, <2>5
<1> QED BY <1>3, <1>4, <1>5


-----------------------------------------------------------------------------
(* Each leg uses its breaker as CircuitBreaker says *)

LEMMA SerpSteps ==
  ASSUME [Next]_vars
  PROVE  [Serp!Next]_Serp!vars
<1> USE DEF Serp!Next, Serp!vars, serpapi
<1>1. ASSUME NEW l \in Lookups, NEW q \in Queries,
             \/ SerpHit(l, q) \/ SerpUnkeyed(l, q)
             \/ SerpRequest(l, q) \/ SerpRefused(l, q)
      PROVE  [Serp!Next]_Serp!vars
  BY <1>1 DEF SerpHit, SerpUnkeyed, SerpRequest, SerpRefused, SerpFailed
<1>2. ASSUME NEW l \in Lookups, Proceed(l) PROVE [Serp!Next]_Serp!vars
  BY <1>2
  DEF Proceed, SerpAnswers, SerpRejects, SerpFails, BrowserMissing, BrowserRefused, BrowserAdmit,
      BrowserHit, BrowserAnswers, BrowserRejects, BrowserThrottled, BrowserReturns,
      BrowserRaises, BrowserBacksOff, BrowserRetries, BrowserFails, Closes, ClosesOnError, Records
<1>3. ASSUME NEW l \in Lookups, Cancel(l) PROVE [Serp!Next]_Serp!vars
  BY <1>3 DEF Cancel
<1>4. CASE Tick
  BY <1>4 DEF Tick
<1>5. CASE UNCHANGED vars
  BY <1>5 DEF vars
<1> QED BY <1>1, <1>2, <1>3, <1>4, <1>5 DEF Next, Ask

LEMMA BrowserSteps ==
  ASSUME [Next]_vars
  PROVE  [Browser!Next]_Browser!vars
<1> USE DEF Browser!Next, Browser!vars, browser
<1>1. ASSUME NEW l \in Lookups, NEW q \in Queries,
             \/ SerpHit(l, q) \/ SerpUnkeyed(l, q)
             \/ SerpRequest(l, q) \/ SerpRefused(l, q)
      PROVE  [Browser!Next]_Browser!vars
  BY <1>1 DEF SerpHit, SerpUnkeyed, SerpRequest, SerpRefused, SerpFailed
<1>2. ASSUME NEW l \in Lookups, Proceed(l) PROVE [Browser!Next]_Browser!vars
  BY <1>2
  DEF Proceed, SerpAnswers, SerpRejects, SerpFails, BrowserMissing, BrowserRefused, BrowserAdmit,
      BrowserHit, BrowserAnswers, BrowserRejects, BrowserThrottled, BrowserReturns,
      BrowserRaises, BrowserBacksOff, BrowserRetries, BrowserFails, Closes, ClosesOnError, Records
<1>3. ASSUME NEW l \in Lookups, Cancel(l) PROVE [Browser!Next]_Browser!vars
  BY <1>3 DEF Cancel
<1>4. CASE Tick
  BY <1>4 DEF Tick
<1>5. CASE UNCHANGED vars
  BY <1>5 DEF vars
<1> QED BY <1>1, <1>2, <1>3, <1>4, <1>5 DEF Next, Ask

\* The SerpAPI leg implements CircuitBreaker, with its lookups as the callers:
\* whatever is answered from the cache, refused or cancelled.
THEOREM SerpIsABreaker == Spec => Serp!Spec
<1>1. Init => Serp!Init
  BY DEF Init
<1>2. [Next]_vars => [Serp!Next]_Serp!vars
  BY SerpSteps
<1> QED BY <1>1, <1>2, PTL DEF Spec, Serp!Spec

\* So does the leg of the browser server.
THEOREM BrowserIsABreaker == Spec => Browser!Spec
<1>1. Init => Browser!Init
  BY DEF Init
<1>2. [Next]_vars => [Browser!Next]_Browser!vars
  BY BrowserSteps
<1> QED BY <1>1, <1>2, PTL DEF Spec, Browser!Spec

-----------------------------------------------------------------------------
(* What CircuitBreakerProofs says of the two *)

\* What CircuitBreaker assumes of its constants holds of those of the cascade.
LEMMA BreakerTimes ==
  /\ FailureThreshold \in Nat \ {0} /\ OpenSeconds \in Nat \ {0}
  /\ Null \notin Nat
BY Times, NoNullNumber

\* CircuitBreaker's theorems, for the breaker of SerpAPI.
SerpBreaker == INSTANCE CircuitBreakerProofs WITH
  Callers <- Lookups, state <- s_state, failures <- s_failures,
  opened_ago <- s_opened_ago, probe_ago <- s_probe_ago, call <- s_call,
  call_ago <- s_call_ago

\* They are about the same breaker as Serp.
LEMMA SerpFacts ==
  Serp!Spec => [](/\ Serp!TypeOK /\ Serp!TimestampsDefined /\ Serp!ProbesSpaced
                   /\ SerpBreaker!ReadyIsQuiet)
<1>1. Serp!Spec <=> SerpBreaker!Spec
  BY DEF
      Serp!Spec, Serp!Init, Serp!Next, Serp!vars, Serp!CLOSED, Serp!OPEN,
      Serp!HALF_OPEN, Serp!AdmitOrdinary, Serp!AdmitProbe, Serp!RecordSuccess,
      Serp!RecordFailure, Serp!Abandon, Serp!Finish, Serp!Opens, Serp!Since,
      Serp!Tick, Serp!Older, Serp!OlderOrNull, SerpBreaker!Spec, SerpBreaker!Init,
      SerpBreaker!Next, SerpBreaker!vars, SerpBreaker!CLOSED, SerpBreaker!OPEN,
      SerpBreaker!HALF_OPEN, SerpBreaker!AdmitOrdinary, SerpBreaker!AdmitProbe,
      SerpBreaker!RecordSuccess, SerpBreaker!RecordFailure, SerpBreaker!Abandon,
      SerpBreaker!Finish, SerpBreaker!Opens, SerpBreaker!Since, SerpBreaker!Tick,
      SerpBreaker!Older, SerpBreaker!OlderOrNull
<1>2. SerpBreaker!Spec => []SerpBreaker!TypeOK
  BY SerpBreaker!TypeCorrect, BreakerTimes
<1>3. SerpBreaker!Spec => []SerpBreaker!TimestampsDefined
  BY SerpBreaker!TimestampsAreDefined, BreakerTimes
<1>4. SerpBreaker!Spec => []SerpBreaker!ProbesSpaced
  BY SerpBreaker!ProbesAreSpaced, BreakerTimes
<1>6. SerpBreaker!Spec => []SerpBreaker!ReadyIsQuiet
  BY SerpBreaker!ProbesComeQuietly, BreakerTimes
<1>5. /\ Serp!TypeOK <=> SerpBreaker!TypeOK
      /\ Serp!TimestampsDefined <=> SerpBreaker!TimestampsDefined
      /\ Serp!ProbesSpaced <=> SerpBreaker!ProbesSpaced
  BY DEF
      Serp!TypeOK, Serp!Ages, Serp!CLOSED, Serp!OPEN, Serp!HALF_OPEN,
      Serp!TimestampsDefined, Serp!ProbesSpaced, SerpBreaker!TypeOK,
      SerpBreaker!Ages, SerpBreaker!CLOSED, SerpBreaker!OPEN, SerpBreaker!HALF_OPEN,
      SerpBreaker!TimestampsDefined, SerpBreaker!ProbesSpaced
<1> QED BY <1>1, <1>2, <1>3, <1>4, <1>5, <1>6, PTL

\* CircuitBreaker's theorems, for the breaker of the browser server.
BrowserBreaker == INSTANCE CircuitBreakerProofs WITH
  Callers <- Lookups, state <- b_state, failures <- b_failures,
  opened_ago <- b_opened_ago, probe_ago <- b_probe_ago, call <- b_call,
  call_ago <- b_call_ago

\* They are about the same breaker as Browser.
LEMMA BrowserFacts ==
  Browser!Spec => [](/\ Browser!TypeOK /\ Browser!TimestampsDefined /\ Browser!ProbesSpaced
                   /\ BrowserBreaker!ReadyIsQuiet)
<1>1. Browser!Spec <=> BrowserBreaker!Spec
  BY DEF
      Browser!Spec, Browser!Init, Browser!Next, Browser!vars, Browser!CLOSED,
      Browser!OPEN, Browser!HALF_OPEN, Browser!AdmitOrdinary, Browser!AdmitProbe,
      Browser!RecordSuccess, Browser!RecordFailure, Browser!Abandon, Browser!Finish,
      Browser!Opens, Browser!Since, Browser!Tick, Browser!Older, Browser!OlderOrNull,
      BrowserBreaker!Spec, BrowserBreaker!Init, BrowserBreaker!Next,
      BrowserBreaker!vars, BrowserBreaker!CLOSED, BrowserBreaker!OPEN,
      BrowserBreaker!HALF_OPEN, BrowserBreaker!AdmitOrdinary,
      BrowserBreaker!AdmitProbe, BrowserBreaker!RecordSuccess,
      BrowserBreaker!RecordFailure, BrowserBreaker!Abandon, BrowserBreaker!Finish,
      BrowserBreaker!Opens, BrowserBreaker!Since, BrowserBreaker!Tick,
      BrowserBreaker!Older, BrowserBreaker!OlderOrNull
<1>2. BrowserBreaker!Spec => []BrowserBreaker!TypeOK
  BY BrowserBreaker!TypeCorrect, BreakerTimes
<1>3. BrowserBreaker!Spec => []BrowserBreaker!TimestampsDefined
  BY BrowserBreaker!TimestampsAreDefined, BreakerTimes
<1>4. BrowserBreaker!Spec => []BrowserBreaker!ProbesSpaced
  BY BrowserBreaker!ProbesAreSpaced, BreakerTimes
<1>6. BrowserBreaker!Spec => []BrowserBreaker!ReadyIsQuiet
  BY BrowserBreaker!ProbesComeQuietly, BreakerTimes
<1>5. /\ Browser!TypeOK <=> BrowserBreaker!TypeOK
      /\ Browser!TimestampsDefined <=> BrowserBreaker!TimestampsDefined
      /\ Browser!ProbesSpaced <=> BrowserBreaker!ProbesSpaced
  BY DEF
      Browser!TypeOK, Browser!Ages, Browser!CLOSED, Browser!OPEN, Browser!HALF_OPEN,
      Browser!TimestampsDefined, Browser!ProbesSpaced, BrowserBreaker!TypeOK,
      BrowserBreaker!Ages, BrowserBreaker!CLOSED, BrowserBreaker!OPEN,
      BrowserBreaker!HALF_OPEN, BrowserBreaker!TimestampsDefined,
      BrowserBreaker!ProbesSpaced
<1> QED BY <1>1, <1>2, <1>3, <1>4, <1>5, <1>6, PTL

\* No lookup meets a breaker that has lost the instant its wait is counted
\* from, on which before_call would raise TypeError for good.
THEOREM BreakersNeverLost ==
  Spec => [](Serp!TimestampsDefined /\ Browser!TimestampsDefined)
BY SerpIsABreaker, SerpFacts, BrowserIsABreaker, BrowserFacts, PTL

-----------------------------------------------------------------------------
(* The cascade *)

LookupInv ==
  /\ at \in [Lookups -> Places]
  /\ query \in [Lookups -> Queries \union {Null}]
  /\ attempt \in [Lookups -> 0 .. MaxRetries]
  /\ got \in [Lookups -> Outcomes \union {Null}]
  /\ waited \in [Lookups -> 0 .. CallTime]
  /\ running \in Lookups \union {Null}
  /\ serp_key \in BOOLEAN /\ browser_url \in BOOLEAN
  /\ \A l \in Lookups :
       /\ at[l] # "idle" => query[l] \in Queries
       /\ at[l] = "closing" => got[l] \in Outcomes
       /\ at[l] = "backoff" => attempt[l] < MaxRetries
       /\ got[l] # Null /\ got[l].pages # "error" /\ ~got[l].stale => got[l].live

AnswerInv == answer = Null \/ (answer \in Answers /\ Recent(answer.stale, answer.read))

\* What a lookup, the cache and the last answer are, and how old a copy is.
WebInv == LookupInv /\ CacheInv /\ AnswerInv

LEMMA NullIsNothing == Null \notin Outcomes /\ Null \notin Answers /\ Null \notin Nat
BY NoNullAnswer, NoNullNumber

LEMMA Left ==
  ASSUME LookupInv, NEW l \in Lookups, Leave(l), UNCHANGED settings
  PROVE  LookupInv'
BY Times DEF LookupInv, Leave, settings, Places

LEMMA FellBack ==
  ASSUME LookupInv, NEW l \in Lookups, NEW q \in Queries, FallBack(l, q), UNCHANGED settings
  PROVE  LookupInv'
BY Times DEF LookupInv, FallBack, settings, Places

LEMMA Taken ==
  ASSUME NEW pages \in Pages, NEW stale \in BOOLEAN, NEW read, Recent(stale, read),
         Takes(pages, stale, read)
  PROVE  AnswerInv'
<1>1. read \in ReadAges
  BY DEF Recent
<1> QED BY <1>1 DEF Takes, AnswerInv, Answers

\* The SerpAPI leg ends with an answer, or with the next leg to come.
LEMMA SerpEnds ==
  ASSUME LookupInv, NEW l \in Lookups, NEW q \in Queries, NEW pages \in Pages,
         NEW stale \in BOOLEAN, NEW read, Recent(stale, read),
         SerpPages(l, q, pages, stale, read), UNCHANGED settings
  PROVE  LookupInv' /\ AnswerInv'
BY Left, FellBack, Taken DEF SerpPages

LEMMA SerpFailedEnds ==
  ASSUME WebInv, NEW l \in Lookups, NEW q \in Queries,
         SerpFailed(l, q), UNCHANGED settings
  PROVE  WebInv'
<1>1. PICK key : key = <<"serpapi", q>>
  OBVIOUS
<1>2. entries' = AfterGetStale(key)
  BY <1>1 DEF SerpFailed
<1>3. CacheInv'
  BY <1>2, CacheKept DEF WebInv, CacheInv
<1>4. LookupInv' /\ AnswerInv'
  <2>1. CASE InGrace(key) = {}
    <3>1. SerpPages(l, q, "error", FALSE, 0) /\ "error" \in Pages /\ Recent(FALSE, 0)
      BY <1>1, <2>1, NewIsRecent DEF SerpFailed, Pages
    <3> QED BY <3>1, SerpEnds DEF WebInv
  <2>2. CASE InGrace(key) # {}
    <3>1. PICK e \in InGrace(key) : SerpPages(l, q, e.pages, TRUE, e.read)
      BY <1>1, <2>2 DEF SerpFailed
    <3>2. e \in Aged /\ Recent(TRUE, e.read)
      BY CopiesAreRecent DEF WebInv
    <3>3. e.pages \in Pages
      BY <3>2 DEF Aged, Entry
    <3> QED BY <3>1, <3>2, <3>3, SerpEnds DEF WebInv
  <2> QED BY <2>1, <2>2
<1> QED BY <1>3, <1>4 DEF WebInv

LEMMA AskKeeps ==
  ASSUME WebInv, NEW l \in Lookups, NEW q \in Queries,
         \/ SerpHit(l, q) \/ SerpUnkeyed(l, q) \/ SerpRequest(l, q) \/ SerpRefused(l, q)
  PROVE  WebInv'
<1>1. CASE SerpHit(l, q)
  <2>1. PICK e \in Fresh(<<"serpapi", q>>) : SerpPages(l, q, e.pages, FALSE, e.read)
    BY <1>1 DEF SerpHit
  <2>2. e \in Aged /\ Recent(FALSE, e.read)
    BY CopiesAreRecent DEF WebInv
  <2>3. e.pages \in Pages
    BY <2>2 DEF Aged, Entry
  <2>4. LookupInv' /\ AnswerInv'
    BY <1>1, <2>1, <2>2, <2>3, SerpEnds DEF WebInv, SerpHit
  <2>5. CacheInv'
    BY <1>1, CacheKept DEF WebInv, CacheInv, SerpHit
  <2> QED BY <2>4, <2>5 DEF WebInv
<1>2. CASE SerpRequest(l, q)
  <2>1. CacheInv'
    BY <1>2, CacheKept DEF WebInv, CacheInv, SerpRequest
  <2>2. LookupInv' /\ AnswerInv'
    BY <1>2 DEF WebInv, LookupInv, AnswerInv, SerpRequest, settings, Places
  <2> QED BY <2>1, <2>2 DEF WebInv
<1>3. CASE SerpUnkeyed(l, q) \/ SerpRefused(l, q)
  <2>1. SerpFailed(l, q) /\ UNCHANGED settings
    BY <1>3 DEF SerpUnkeyed, SerpRefused
  <2> QED BY <2>1, SerpFailedEnds
<1> QED BY <1>1, <1>2, <1>3

\* The pages of an answer may be stored, and are no older than the request.
LEMMA Stored ==
  ASSUME WebInv, NEW l \in Lookups, NEW leg \in {"serpapi", "browser"}, NEW pages \in Results,
         at[l] # "idle",
         \/ entries' = entries
         \/ entries' = AfterSet(<<leg, query[l]>>, pages, waited[l])
  PROVE  CacheInv'
<1>1. waited[l] \in 0 .. CallTime /\ <<leg, query[l]>> \in Keys /\ pages \in Pages
  BY DEF WebInv, LookupInv, Keys, Pages
<1>2. CASE entries' = entries
  BY <1>2 DEF WebInv, CacheInv
<1>3. CASE entries' = AfterSet(<<leg, query[l]>>, pages, waited[l])
  BY <1>1, <1>3, CacheKept DEF WebInv, CacheInv
<1> QED BY <1>2, <1>3

LEMMA SerpLegKeeps ==
  ASSUME WebInv, NEW l \in Lookups, SerpAnswers(l) \/ SerpRejects(l) \/ SerpFails(l)
  PROVE  WebInv'
<1>1. /\ at[l] # "idle" /\ query[l] \in Queries /\ waited[l] \in 0 .. CallTime
      /\ UNCHANGED settings
  BY DEF WebInv, LookupInv, SerpAnswers, SerpRejects, SerpFails
<1>2. CASE SerpAnswers(l)
  <2>1. PICK pages \in Results :
          /\ entries' = IF Cacheable(pages)
                        THEN AfterSet(<<"serpapi", query[l]>>, pages, waited[l])
                        ELSE entries
          /\ SerpPages(l, query[l], pages, FALSE, waited[l])
    BY <1>2 DEF SerpAnswers
  <2>2. CacheInv'
    BY <1>1, <2>1, Stored
  <2>3. pages \in Pages /\ Recent(FALSE, waited[l])
    BY <1>1, NewIsRecent DEF Pages
  <2>4. LookupInv' /\ AnswerInv'
    BY <1>1, <2>1, <2>3, SerpEnds DEF WebInv
  <2> QED BY <2>2, <2>4 DEF WebInv
<1>3. CASE SerpRejects(l) \/ SerpFails(l)
  <2>1. SerpFailed(l, query[l])
    BY <1>3 DEF SerpRejects, SerpFails
  <2> QED BY <1>1, <2>1, SerpFailedEnds
<1> QED BY <1>2, <1>3

\* What the browser leg closes its client with.
LEMMA Closed ==
  ASSUME LookupInv, NEW l \in Lookups, NEW pages \in Pages, NEW stale \in BOOLEAN,
         NEW live \in BOOLEAN, Closes(l, pages, stale, live), query[l] \in Queries,
         pages # "error" /\ ~stale => live
  PROVE  LookupInv' /\ UNCHANGED settings
<1>1. PICK kind : kind = IF Usable(pages) THEN "links"
                         ELSE IF pages = "error" THEN "error" ELSE "empty"
  OBVIOUS
<1>2. kind \in {"links", "empty", "error"} /\ (kind # "error" => pages # "error")
  BY <1>1 DEF Usable
<1>3. PICK outcome : outcome = [pages |-> kind, stale |-> stale, live |-> live]
  OBVIOUS
<1>4. /\ outcome \in Outcomes
      /\ outcome.pages # "error" /\ ~outcome.stale => outcome.live
  BY <1>2, <1>3 DEF Outcomes
<1>5. got' = [got EXCEPT ![l] = outcome]
  BY <1>1, <1>3 DEF Closes
<1> QED BY <1>4, <1>5, Times DEF LookupInv, Closes, settings, Places

LEMMA ClosedOnError ==
  ASSUME LookupInv, NEW l \in Lookups, ClosesOnError(l), query[l] \in Queries
  PROVE  LookupInv' /\ AnswerInv' /\ UNCHANGED settings
BY Closed DEF ClosesOnError, AnswerInv, Pages

\* A stale copy that is taken while the cache is read for it.
LEMMA StaleTaken ==
  ASSUME WebInv, NEW key, NEW e \in InGrace(key), entries' = AfterGetStale(key),
         Takes(e.pages, TRUE, e.read)
  PROVE  CacheInv' /\ AnswerInv' /\ e.pages \in Pages
<1>1. e \in Aged /\ Recent(TRUE, e.read)
  BY CopiesAreRecent DEF WebInv
<1>2. e.pages \in Pages
  BY <1>1 DEF Aged, Entry
<1>3. CacheInv'
  BY CacheKept DEF WebInv, CacheInv
<1> QED BY <1>1, <1>2, <1>3, Taken

\* The steps of the browser leg at which a lookup ends.
LEMMA BrowserEnds ==
  ASSUME WebInv, NEW l \in Lookups,
         \/ BrowserMissing(l) \/ BrowserRefused(l) \/ BrowserHit(l)
         \/ BrowserReturns(l) \/ BrowserRaises(l) \/ BrowserFails(l)
  PROVE  WebInv'
<1>1. LookupInv'
  <2>1. Leave(l) /\ UNCHANGED settings
    BY DEF BrowserMissing, BrowserRefused, BrowserHit, BrowserReturns, BrowserRaises, BrowserFails
  <2> QED BY <2>1, Left DEF WebInv
<1>2. CASE BrowserMissing(l) \/ BrowserRefused(l) \/ BrowserReturns(l) \/ BrowserRaises(l)
  <2>1. CacheInv' /\ AnswerInv'
    BY <1>2 DEF WebInv, CacheInv, AnswerInv, BrowserMissing, BrowserRefused, BrowserReturns,
                BrowserRaises
  <2> QED BY <1>1, <2>1 DEF WebInv
<1>3. CASE BrowserHit(l)
  <2>1. PICK e \in Fresh(BrowserKey(l)) : Takes(e.pages, FALSE, e.read)
    BY <1>3 DEF BrowserHit
  <2>2. e \in Aged /\ Recent(FALSE, e.read)
    BY CopiesAreRecent DEF WebInv
  <2>3. e.pages \in Pages
    BY <2>2 DEF Aged, Entry
  <2>4. CacheInv'
    BY <1>3 DEF WebInv, CacheInv, BrowserHit
  <2> QED BY <1>1, <2>1, <2>2, <2>3, <2>4, Taken DEF WebInv
<1>4. CASE BrowserFails(l)
  <2>1. entries' = AfterGetStale(BrowserKey(l))
    BY <1>4 DEF BrowserFails
  <2>2. CASE InGrace(BrowserKey(l)) = {}
    <3>1. CacheInv' /\ AnswerInv'
      BY <1>4, <2>1, <2>2, CacheKept DEF WebInv, CacheInv, AnswerInv, BrowserFails
    <3> QED BY <1>1, <3>1 DEF WebInv
  <2>3. CASE InGrace(BrowserKey(l)) # {}
    <3>1. PICK e \in InGrace(BrowserKey(l)) : Takes(e.pages, TRUE, e.read)
      BY <1>4, <2>3 DEF BrowserFails
    <3> QED BY <1>1, <2>1, <3>1, StaleTaken DEF WebInv
  <2> QED BY <2>2, <2>3
<1> QED BY <1>2, <1>3, <1>4

LEMMA BrowserLegKeeps ==
  ASSUME WebInv, NEW l \in Lookups,
         \/ BrowserAdmit(l) \/ BrowserAnswers(l) \/ BrowserRejects(l) \/ BrowserThrottled(l)
         \/ BrowserBacksOff(l) \/ BrowserRetries(l)
  PROVE  WebInv'
<1>1. at[l] # "idle" /\ query[l] \in Queries /\ waited[l] \in 0 .. CallTime
  BY DEF WebInv, LookupInv, BrowserAdmit, BrowserAnswers, BrowserRejects, BrowserThrottled,
         BrowserBacksOff, BrowserRetries
<1>2. CASE BrowserAdmit(l)
  <2>1. CacheInv'
    BY <1>2, CacheKept DEF WebInv, CacheInv, BrowserAdmit
  <2>2. LookupInv' /\ AnswerInv'
    BY <1>1, <1>2, Times DEF WebInv, LookupInv, AnswerInv, BrowserAdmit, settings, Places
  <2> QED BY <2>1, <2>2 DEF WebInv
<1>3. CASE BrowserAnswers(l)
  <2>1. PICK pages \in Results :
          /\ entries' = IF pages # "empty" THEN AfterSet(BrowserKey(l), pages, waited[l])
                        ELSE entries
          /\ Takes(pages, FALSE, waited[l])
          /\ Closes(l, pages, FALSE, TRUE)
    BY <1>3 DEF BrowserAnswers
  <2>2. CacheInv'
    BY <1>1, <2>1, Stored DEF BrowserKey
  <2>3. pages \in Pages /\ Recent(FALSE, waited[l])
    BY <1>1, NewIsRecent DEF Pages
  <2>4. AnswerInv'
    BY <2>1, <2>3, Taken
  <2>5. LookupInv'
    BY <1>1, <2>1, <2>3, Closed DEF WebInv
  <2> QED BY <2>2, <2>4, <2>5 DEF WebInv
<1>4. CASE BrowserRejects(l)
  <2>1. CacheInv'
    BY <1>4 DEF WebInv, CacheInv, BrowserRejects
  <2>2. LookupInv' /\ AnswerInv'
    BY <1>1, <1>4, ClosedOnError DEF WebInv, BrowserRejects
  <2> QED BY <2>1, <2>2 DEF WebInv
<1>5. CASE BrowserThrottled(l)
  <2>1. entries' = AfterGetStale(BrowserKey(l))
    BY <1>5 DEF BrowserThrottled
  <2>2. CASE InGrace(BrowserKey(l)) = {}
    <3>1. ClosesOnError(l)
      BY <1>5, <2>2 DEF BrowserThrottled
    <3>2. CacheInv'
      BY <2>1, CacheKept DEF WebInv, CacheInv
    <3>3. LookupInv' /\ AnswerInv'
      BY <1>1, <3>1, ClosedOnError DEF WebInv
    <3> QED BY <3>2, <3>3 DEF WebInv
  <2>3. CASE InGrace(BrowserKey(l)) # {}
    <3>1. PICK e \in InGrace(BrowserKey(l)) :
            Takes(e.pages, TRUE, e.read) /\ Closes(l, e.pages, TRUE, FALSE)
      BY <1>5, <2>3 DEF BrowserThrottled
    <3>2. CacheInv' /\ AnswerInv' /\ e.pages \in Pages
      BY <2>1, <3>1, StaleTaken
    <3>3. LookupInv'
      BY <1>1, <3>1, <3>2, Closed DEF WebInv
    <3> QED BY <3>2, <3>3 DEF WebInv
  <2> QED BY <2>2, <2>3
<1>6. CASE BrowserBacksOff(l)
  BY <1>6, <1>1, Times
  DEF WebInv, LookupInv, CacheInv, AnswerInv, BrowserBacksOff, settings, Places
<1>7. CASE BrowserRetries(l)
  BY <1>7, <1>1, Times
  DEF WebInv, LookupInv, CacheInv, AnswerInv, BrowserRetries, settings, Places
<1> QED BY <1>2, <1>3, <1>4, <1>5, <1>6, <1>7

LEMMA CancelKeeps ==
  ASSUME WebInv, NEW l \in Lookups, Cancel(l)
  PROVE  WebInv'
<1>1. LookupInv'
  BY Left DEF WebInv, Cancel, settings
<1> QED BY <1>1 DEF WebInv, CacheInv, AnswerInv, Cancel

\* An entry and its copy age together, so that time makes no copy older than
\* its entry says.
LEMMA TimeKeeps ==
  ASSUME WebInv, Tick
  PROVE  WebInv'
<1>1. LookupInv'
  <2>1. ASSUME NEW l \in Lookups
        PROVE  (IF Waiting(l) THEN waited[l] + 1 ELSE 0) \in 0 .. CallTime
    <3>1. waited[l] \in 0 .. CallTime /\ (Waiting(l) => waited[l] < CallTime)
      BY DEF WebInv, LookupInv, Tick
    <3> QED BY <3>1, Times
  <2>2. waited' \in [Lookups -> 0 .. CallTime]
    BY <2>1 DEF Tick
  <2> QED BY <2>2 DEF WebInv, LookupInv, Tick, settings
<1>2. CacheInv'
  <2>1. ASSUME NEW e \in Aged, NEW f,
               f = [e EXCEPT !.age = IF @ < TTL + Grace THEN @ + 1 ELSE @,
                             !.read = IF @ < TTL + Grace + CallTime THEN @ + 1 ELSE @]
        PROVE  f \in Aged
    <3>1. /\ e.key \in Keys /\ e.pages \in Pages /\ e.read <= e.age + CallTime
          /\ e.age \in 0 .. TTL + Grace /\ e.read \in 0 .. TTL + Grace + CallTime
      BY DEF Aged, Entry, ReadAges
    <3>2. PICK age, read : /\ age = (IF e.age < TTL + Grace THEN e.age + 1 ELSE e.age)
                           /\ read = IF e.read < TTL + Grace + CallTime THEN e.read + 1 ELSE e.read
      OBVIOUS
    <3>3. /\ age \in 0 .. TTL + Grace /\ read \in 0 .. TTL + Grace + CallTime
          /\ read <= age + CallTime
      BY <3>1, <3>2, Times, GraceAssumption
    <3>4. f = [key |-> e.key, pages |-> e.pages, age |-> age, read |-> read]
      BY <2>1, <3>2 DEF Aged, Entry
    <3> QED BY <3>1, <3>3, <3>4 DEF Aged, Entry, ReadAges
  <2>2. /\ entries \in Seq(Aged) /\ Len(entries) <= MaxEntries
        /\ DOMAIN entries = 1 .. Len(entries)
    BY DEF WebInv, CacheInv
  <2>3. ASSUME NEW i \in 1 .. Len(entries) PROVE entries'[i] \in Aged
    <3>1. entries[i] \in Aged
      BY <2>2
    <3>2. entries'[i] = [entries[i] EXCEPT
                           !.age = IF @ < TTL + Grace THEN @ + 1 ELSE @,
                           !.read = IF @ < TTL + Grace + CallTime THEN @ + 1 ELSE @]
      BY <2>2 DEF Tick
    <3> QED BY <2>1, <3>1, <3>2
  <2>4. entries' = [i \in 1 .. Len(entries) |-> entries'[i]]
    BY <2>2 DEF Tick
  <2>5. entries' \in Seq(Aged) /\ Len(entries') = Len(entries)
    BY <2>2, <2>3, <2>4
  <2> QED BY <2>2, <2>5 DEF CacheInv
<1>3. AnswerInv'
  BY DEF AnswerInv, Tick
<1> QED BY <1>1, <1>2, <1>3 DEF WebInv

LEMMA WebInvStep ==
  ASSUME WebInv, [Next]_vars
  PROVE  WebInv'
<1>1. CASE UNCHANGED vars
  BY <1>1 DEF WebInv, LookupInv, CacheInv, AnswerInv, vars, lookup, settings
<1> QED BY <1>1, AskKeeps, SerpLegKeeps, BrowserLegKeeps, BrowserEnds, CancelKeeps, TimeKeeps
        DEF Next, Ask, Proceed

\* What the lookups, the cache and the answers are holds throughout.
THEOREM WebInvariant == Spec => []WebInv
<1>1. Init => WebInv
  BY Times DEF Init, WebInv, LookupInv, CacheInv, AnswerInv, Places
<1>2. WebInv /\ [Next]_vars => WebInv'
  BY WebInvStep
<1> QED BY <1>1, <1>2, PTL DEF Spec

\* The cache never outgrows max_entries, and every variable has its type.
THEOREM WebTypes == Spec => []TypeOK
<1>1. ASSUME WebInv, Serp!TypeOK, Browser!TypeOK PROVE TypeOK
  <2>1. entries \in Seq(Entry)
    BY <1>1 DEF WebInv, CacheInv, Aged
  <2> QED BY <1>1, <2>1 DEF WebInv, LookupInv, CacheInv, AnswerInv, TypeOK
<1> QED BY <1>1, WebInvariant, SerpIsABreaker, SerpFacts, BrowserIsABreaker, BrowserFacts, PTL

\* No answer is older than the TTL, and the grace window if it is marked
\* stale, and the time of one request.
THEOREM AnswersRecent == Spec => []AnswersAreRecent
<1>1. WebInv => AnswersAreRecent
  BY DEF WebInv, AnswerInv, AnswersAreRecent, Recent
<1> QED BY <1>1, WebInvariant, PTL

-----------------------------------------------------------------------------
(* The two servers *)

\* A lookup that goes to a server has been let through by its breaker.
LEMMA SentWhenAdmitted ==
  ASSUME LookupInv, Next, NEW l \in Lookups
  PROVE  /\ Sent(l, "serp_call") => Serp!AdmitOrdinary(l) \/ Serp!AdmitProbe(l)
         /\ Sent(l, "browser_call") => Browser!AdmitOrdinary(l) \/ Browser!AdmitProbe(l)
<1> USE DEF Sent
<1>1. at \in [Lookups -> Places]
  BY DEF LookupInv
<1>2. ASSUME NEW k \in Lookups, Leave(k) PROVE at'[l] = IF k = l THEN "idle" ELSE at[l]
  BY <1>1, <1>2 DEF Leave
<1>3. ASSUME NEW k \in Lookups, NEW q \in Queries, SerpFailed(k, q)
      PROVE  at'[l] = at[l] \/ at'[l] \in {"idle", "fallback"}
  BY <1>1, <1>3 DEF SerpFailed, SerpPages, Leave, FallBack
<1>4. ASSUME NEW k \in Lookups, NEW q \in Queries,
             SerpHit(k, q) \/ SerpUnkeyed(k, q) \/ SerpRefused(k, q)
      PROVE  at'[l] = at[l] \/ at'[l] \in {"idle", "fallback"}
  BY <1>1, <1>3, <1>4 DEF SerpHit, SerpUnkeyed, SerpRefused, SerpPages, Leave, FallBack
<1>5. ASSUME NEW k \in Lookups, SerpAnswers(k) \/ SerpRejects(k) \/ SerpFails(k)
      PROVE  at'[l] = at[l] \/ at'[l] \in {"idle", "fallback"}
  <2>1. query[k] \in Queries
    BY <1>5 DEF LookupInv, SerpAnswers, SerpRejects, SerpFails
  <2> QED BY <1>1, <1>3, <1>5, <2>1 DEF SerpAnswers, SerpRejects, SerpFails, SerpPages, Leave,
                                       FallBack
<1>6. ASSUME NEW k \in Lookups,
             \/ BrowserMissing(k) \/ BrowserRefused(k) \/ BrowserHit(k)
             \/ BrowserReturns(k) \/ BrowserRaises(k) \/ BrowserFails(k) \/ Cancel(k)
      PROVE  at'[l] = at[l] \/ at'[l] = "idle"
  BY <1>1, <1>6 DEF BrowserMissing, BrowserRefused, BrowserHit, BrowserReturns, BrowserRaises,
                    BrowserFails, Cancel, Leave
<1>7. ASSUME NEW k \in Lookups,
             \/ BrowserAnswers(k) \/ BrowserRejects(k) \/ BrowserThrottled(k) \/ BrowserBacksOff(k)
      PROVE  at'[l] = at[l] \/ at'[l] \in {"closing", "backoff", "giving_up"}
  BY <1>1, <1>7 DEF BrowserAnswers, BrowserRejects, BrowserThrottled, BrowserBacksOff, Closes,
                    ClosesOnError
<1>8. ASSUME NEW k \in Lookups, BrowserRetries(k)
      PROVE  at'[l] = at[l] \/ at[l] = "backoff"
  BY <1>1, <1>8 DEF BrowserRetries
<1>9. ASSUME NEW k \in Lookups, BrowserAdmit(k)
      PROVE  \/ at'[l] = at[l] \/ at'[l] = "browser_hit"
             \/ Browser!AdmitOrdinary(l) /\ at'[l] = "browser_call"
             \/ Browser!AdmitProbe(l) /\ at'[l] = "browser_call"
  BY <1>1, <1>9 DEF BrowserAdmit
<1>10. ASSUME NEW k \in Lookups, NEW q \in Queries, SerpRequest(k, q)
       PROVE  \/ at'[l] = at[l]
              \/ Serp!AdmitOrdinary(l) /\ at'[l] = "serp_call"
              \/ Serp!AdmitProbe(l) /\ at'[l] = "serp_call"
  BY <1>1, <1>10 DEF SerpRequest
<1>11. CASE Tick
  BY <1>11 DEF Tick
<1> HIDE DEF Sent
<1> DEFINE Fine == /\ Sent(l, "serp_call") => Serp!AdmitOrdinary(l) \/ Serp!AdmitProbe(l)
                   /\ Sent(l, "browser_call") => Browser!AdmitOrdinary(l) \/ Browser!AdmitProbe(l)
<1>12. ASSUME at'[l] = at[l] \/ at'[l] \in {"idle", "fallback", "closing", "backoff", "giving_up",
                                           "browser_hit"}
       PROVE  Fine
  BY <1>12 DEF Sent
<1>13. ASSUME at[l] = "backoff" \/ at'[l] = at[l], NEW k \in Lookups, BrowserRetries(k) PROVE Fine
  <2>1. at'[l] # "serp_call" \/ at'[l] = at[l]
    BY <1>1, <1>13 DEF BrowserRetries
  <2> QED BY <1>13, <2>1 DEF Sent
<1>14. ASSUME NEW k \in Lookups, Proceed(k) PROVE Fine
  <2>1. CASE BrowserRetries(k)
    BY <1>8, <1>13, <2>1
  <2>2. CASE BrowserAdmit(k)
    BY <1>9, <1>12, <2>2 DEF Sent
  <2> HIDE DEF Fine
  <2> QED BY <1>5, <1>6, <1>7, <1>12, <1>14, <2>1, <2>2 DEF Proceed
<1>15. ASSUME NEW k \in Lookups, Ask(k) PROVE Fine
  <2>1. PICK q \in Queries : \/ SerpHit(k, q) \/ SerpUnkeyed(k, q) \/ SerpRefused(k, q)
                             \/ SerpRequest(k, q)
    BY <1>15 DEF Ask
  <2>2. CASE SerpRequest(k, q)
    BY <1>10, <1>12, <2>2 DEF Sent
  <2> HIDE DEF Fine
  <2> QED BY <1>4, <1>12, <2>1, <2>2
<1>16. ASSUME NEW k \in Lookups, Cancel(k) PROVE Fine
  <2> HIDE DEF Fine
  <2> QED BY <1>6, <1>12, <1>16
<1> QED BY <1>11, <1>14, <1>15, <1>16 DEF Next

\* Behind the cascade each server is left alone for the open window, and gets at
\* most one probe in each, for any number of lookups.
THEOREM ServersSpared == Spec => ServersAreSpared
<1> DEFINE Spared ==
      \A l \in Lookups :
        /\ Sent(l, "serp_call") /\ s_state # "closed" =>
             /\ s_state = "open" => s_opened_ago >= OpenSeconds
             /\ \A k \in Lookups : s_call[k] = "probe" => s_call_ago[k] >= OpenSeconds
        /\ Sent(l, "browser_call") /\ b_state # "closed" =>
             /\ b_state = "open" => b_opened_ago >= OpenSeconds
             /\ \A k \in Lookups : b_call[k] = "probe" => b_call_ago[k] >= OpenSeconds
<1>1. ASSUME LookupInv, SerpBreaker!ReadyIsQuiet, BrowserBreaker!ReadyIsQuiet, Next
      PROVE  Spared
  <2> SUFFICES ASSUME NEW l \in Lookups
               PROVE  /\ Sent(l, "serp_call") /\ s_state # "closed" =>
                           /\ s_state = "open" => s_opened_ago >= OpenSeconds
                           /\ \A k \in Lookups : s_call[k] = "probe" => s_call_ago[k] >= OpenSeconds
                      /\ Sent(l, "browser_call") /\ b_state # "closed" =>
                           /\ b_state = "open" => b_opened_ago >= OpenSeconds
                           /\ \A k \in Lookups : b_call[k] = "probe" => b_call_ago[k] >= OpenSeconds
    OBVIOUS
  <2>1. ASSUME Sent(l, "serp_call"), s_state # "closed"
        PROVE  /\ s_state = "open" => s_opened_ago >= OpenSeconds
               /\ \A k \in Lookups : s_call[k] = "probe" => s_call_ago[k] >= OpenSeconds
    <3>1. Serp!AdmitOrdinary(l) \/ Serp!AdmitProbe(l)
      BY <1>1, <2>1, SentWhenAdmitted
    <3>2. Serp!Since >= OpenSeconds
      BY <2>1, <3>1 DEF Serp!AdmitOrdinary, Serp!AdmitProbe, Serp!CLOSED
    <3> QED BY <1>1, <2>1, <3>2
            DEF SerpBreaker!ReadyIsQuiet, SerpBreaker!Since, SerpBreaker!CLOSED, SerpBreaker!OPEN,
                Serp!Since, Serp!OPEN
  <2>2. ASSUME Sent(l, "browser_call"), b_state # "closed"
        PROVE  /\ b_state = "open" => b_opened_ago >= OpenSeconds
               /\ \A k \in Lookups : b_call[k] = "probe" => b_call_ago[k] >= OpenSeconds
    <3>1. Browser!AdmitOrdinary(l) \/ Browser!AdmitProbe(l)
      BY <1>1, <2>2, SentWhenAdmitted
    <3>2. Browser!Since >= OpenSeconds
      BY <2>2, <3>1 DEF Browser!AdmitOrdinary, Browser!AdmitProbe, Browser!CLOSED
    <3> QED BY <1>1, <2>2, <3>2
            DEF BrowserBreaker!ReadyIsQuiet, BrowserBreaker!Since, BrowserBreaker!CLOSED,
                BrowserBreaker!OPEN, Browser!Since, Browser!OPEN
  <2> QED BY <2>1, <2>2
<1>2. LookupInv /\ SerpBreaker!ReadyIsQuiet /\ BrowserBreaker!ReadyIsQuiet /\ [Next]_vars
        => [Spared]_vars
  BY <1>1
<1>3. WebInv => LookupInv
  BY DEF WebInv
<1>4. Spec => [][Spared]_vars
  <2> HIDE DEF Spared
  <2> QED BY <1>2, <1>3, WebInvariant, SerpIsABreaker, SerpFacts, BrowserIsABreaker, BrowserFacts,
             PTL DEF Spec
<1> QED BY <1>4, PTL DEF ServersAreSpared

\* Where the browser server's breaker is closed, or forgets a failure.
Heals == b_failures' < b_failures \/ (b_state # "closed" /\ b_state' = "closed")

LEMMA HealsOnSuccess ==
  ASSUME Browser!TypeOK, Next, Heals
  PROVE  \E l \in Lookups : (BrowserHit(l) \/ BrowserReturns(l)) /\ Browser!RecordSuccess(l)
<1> USE DEF Browser!CLOSED, Browser!OPEN, Browser!HALF_OPEN
<1>1. b_failures \in Nat
  BY Times DEF Browser!TypeOK
<1>2. ASSUME NEW l \in Lookups,
             \/ Browser!AdmitOrdinary(l) \/ Browser!AdmitProbe(l)
             \/ Browser!RecordFailure(l) \/ Browser!Abandon(l)
      PROVE  FALSE
  BY <1>1, <1>2
  DEF Heals, Browser!AdmitOrdinary, Browser!AdmitProbe, Browser!RecordFailure, Browser!Abandon
<1>3. ~UNCHANGED browser /\ ~Browser!Tick
  BY <1>1 DEF Heals, browser, Browser!Tick
<1>4. ~Tick
  BY <1>3 DEF Tick
<1>5. ASSUME NEW l \in Lookups, Ask(l) \/ Cancel(l)
      PROVE  FALSE
  BY <1>2, <1>3, <1>5 DEF Ask, SerpHit, SerpUnkeyed, SerpRequest, SerpRefused, Cancel
<1>6. ASSUME NEW l \in Lookups, Proceed(l)
      PROVE  (BrowserHit(l) \/ BrowserReturns(l)) /\ Browser!RecordSuccess(l)
  <2>1. ~BrowserFails(l)
    BY <1>2 DEF BrowserFails, Records
  <2>2. BrowserHit(l) \/ BrowserReturns(l)
    BY <1>2, <1>3, <1>6, <2>1
    DEF Proceed, SerpAnswers, SerpRejects, SerpFails, BrowserMissing, BrowserRefused, BrowserAdmit,
        BrowserAnswers, BrowserRejects, BrowserThrottled, BrowserRaises, BrowserBacksOff,
        BrowserRetries, Closes, ClosesOnError
  <2> QED BY <1>2, <2>2 DEF BrowserHit, BrowserReturns, Records
<1> QED BY <1>4, <1>5, <1>6 DEF Next

\* A failed call never closes the breaker of the browser server, however it ends.
THEOREM BreakerClosesOnItsWord == Spec => ClosedOnItsWord
<1> DEFINE Word ==
      Heals => \E l \in Lookups :
                 /\ at'[l] = "idle"
                 /\ \/ at[l] = "closing" /\ got[l].live
                    \/ /\ at[l] = "browser_hit"
                       /\ \E e \in Copies(BrowserKey(l)) : e.read < TTL + CallTime
<1>1. ASSUME WebInv, Browser!TypeOK, Next PROVE Word
  <2> SUFFICES ASSUME Heals PROVE Word
    OBVIOUS
  <2>1. PICK l \in Lookups : (BrowserHit(l) \/ BrowserReturns(l)) /\ Browser!RecordSuccess(l)
    BY <1>1, HealsOnSuccess
  <2>2. at'[l] = "idle"
    BY <1>1, <2>1 DEF BrowserHit, BrowserReturns, Leave, WebInv, LookupInv
  <2>3. CASE BrowserHit(l)
    <3>1. PICK e \in Fresh(BrowserKey(l)) : TRUE
      BY <2>3 DEF BrowserHit
    <3>2. e \in Copies(BrowserKey(l)) /\ Recent(FALSE, e.read)
      BY <1>1, CopiesAreRecent DEF Fresh, WebInv
    <3>3. e.read < TTL + CallTime
      BY <3>2, Times DEF Recent
    <3> QED BY <2>2, <2>3, <3>2, <3>3 DEF BrowserHit
  <2>4. CASE BrowserReturns(l)
    <3>1. ~(got[l].pages = "error" \/ got[l].stale)
      <4>1. ASSUME Browser!RecordFailure(l) PROVE FALSE
        BY <1>1, <4>1, Times
        DEF Heals, Browser!RecordFailure, Browser!TypeOK, Browser!CLOSED, Browser!OPEN,
            Browser!HALF_OPEN
      <4> QED BY <2>4, <4>1 DEF BrowserReturns, Records
    <3>2. at[l] = "closing" /\ got[l] \in Outcomes
      BY <1>1, <2>4 DEF BrowserReturns, WebInv, LookupInv
    <3>3. got[l].live
      BY <1>1, <3>1, <3>2, NullIsNothing DEF WebInv, LookupInv
    <3> QED BY <2>2, <3>2, <3>3
  <2> QED BY <2>1, <2>3, <2>4
<1>2. WebInv /\ Browser!TypeOK /\ [Next]_vars => [Word]_vars
  BY <1>1
<1>3. Spec => [][Word]_vars
  <2> HIDE DEF Word
  <2> QED BY <1>2, WebInvariant, BrowserIsABreaker, BrowserFacts, PTL DEF Spec
<1> QED BY <1>3, PTL DEF ClosedOnItsWord, Heals
=============================================================================
