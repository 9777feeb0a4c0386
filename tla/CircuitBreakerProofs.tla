------------------------ MODULE CircuitBreakerProofs ------------------------
(***************************************************************************)
(* Theorems about CircuitBreaker, for every number of callers, threshold   *)
(* and open time.                                                          *)
(***************************************************************************)
EXTENDS CircuitBreaker, TLAPS

USE DEF CLOSED, OPEN, HALF_OPEN

\* What one unit of time does to an age: it stays an age and never shrinks,
\* and it grows strictly until the cut-off.
LEMMA OlderIsAge ==
  ASSUME NEW age \in Ages
  PROVE  /\ Older(age) \in Ages
         /\ Older(age) >= age
         /\ Older(age) < OpenSeconds => Older(age) = age + 1
BY OpenSecondsAssumption DEF Ages, Older

\* The step shape shared by every action: one caller moves, or time passes.
LEMMA NextCases ==
  ASSUME [Next]_vars, NEW P,
         \A c \in Callers : AdmitOrdinary(c) => P,
         \A c \in Callers : AdmitProbe(c) => P,
         \A c \in Callers : RecordSuccess(c) => P,
         \A c \in Callers : RecordFailure(c) => P,
         \A c \in Callers : Abandon(c) => P,
         Tick => P,
         UNCHANGED vars => P
  PROVE  P
BY DEF Next

-----------------------------------------------------------------------------
(* Type correctness *)

\* Every state the breaker and its callers reach is well typed.
THEOREM TypeCorrect == Spec => []TypeOK
<1>1. Init => TypeOK
  BY OpenSecondsAssumption, ThresholdAssumption DEF Init, TypeOK, Ages
<1>2. TypeOK /\ [Next]_vars => TypeOK'
  <2> SUFFICES ASSUME TypeOK, [Next]_vars
               PROVE  TypeOK'
    OBVIOUS
  <2> USE OpenSecondsAssumption, ThresholdAssumption DEF TypeOK, Ages
  <2>1. ASSUME NEW c \in Callers, AdmitOrdinary(c) PROVE TypeOK'
    BY <2>1 DEF AdmitOrdinary
  <2>2. ASSUME NEW c \in Callers, AdmitProbe(c) PROVE TypeOK'
    BY <2>2 DEF AdmitProbe
  <2>3. ASSUME NEW c \in Callers, RecordSuccess(c) PROVE TypeOK'
    BY <2>3 DEF RecordSuccess, Finish
  <2>4. ASSUME NEW c \in Callers, RecordFailure(c) PROVE TypeOK'
    BY <2>4 DEF RecordFailure, Finish
  <2>5. ASSUME NEW c \in Callers, Abandon(c) PROVE TypeOK'
    BY <2>5 DEF Abandon, Finish
  <2>6. CASE Tick
    <3>1. /\ opened_ago' \in Ages \union {Null}
          /\ probe_ago' \in Ages \union {Null}
      BY <2>6, OlderIsAge DEF Tick, OlderOrNull
    <3>2. call_ago' \in [Callers -> Ages]
      BY <2>6, OlderIsAge DEF Tick
    <3> QED BY <2>6, <3>1, <3>2 DEF Tick
  <2>7. CASE UNCHANGED vars
    BY <2>7 DEF vars
  <2> QED BY <2>1, <2>2, <2>3, <2>4, <2>5, <2>6, <2>7, NextCases
<1> QED BY <1>1, <1>2, PTL DEF Spec

-----------------------------------------------------------------------------
(* The probes *)

\* No wait can be over while a probe is young: a breaker that is not closed
\* counts its wait from an instant no earlier than the youngest probe's.
YoungProbeCovered ==
  \A c \in Callers :
    call[c] = "probe" /\ call_ago[c] < OpenSeconds =>
      \/ state = CLOSED
      \/ state = OPEN /\ opened_ago <= call_ago[c]
      \/ state = HALF_OPEN /\ probe_ago <= call_ago[c]

\* The inductive invariant behind ProbesSpaced.
BreakerInv ==
  /\ TypeOK
  /\ TimestampsDefined
  /\ YoungProbeCovered
  /\ ProbesSpaced

LEMMA BreakerInvInit == Init => BreakerInv
<1> SUFFICES ASSUME Init PROVE BreakerInv
  OBVIOUS
<1>1. TypeOK
  BY OpenSecondsAssumption, ThresholdAssumption DEF Init, TypeOK, Ages
<1> QED
  BY <1>1 DEF Init, BreakerInv, TimestampsDefined, YoungProbeCovered, ProbesSpaced

LEMMA BreakerInvStep ==
  ASSUME BreakerInv, TypeOK', [Next]_vars
  PROVE  BreakerInv'
<1> USE OpenSecondsAssumption, NullAssumption
    DEF BreakerInv, TypeOK, Ages
<1>1. ASSUME NEW c \in Callers, AdmitOrdinary(c) PROVE BreakerInv'
  BY <1>1 DEF AdmitOrdinary, TimestampsDefined, YoungProbeCovered, ProbesSpaced
<1>2. ASSUME NEW c \in Callers, AdmitProbe(c) PROVE BreakerInv'
  <2>1. \A d \in Callers : d # c => ~(call[d] = "probe" /\ call_ago[d] < OpenSeconds)
    BY <1>2 DEF AdmitProbe, Since, TimestampsDefined, YoungProbeCovered
  <2> QED
    BY <1>2, <2>1 DEF AdmitProbe, TimestampsDefined, YoungProbeCovered, ProbesSpaced
<1>3. ASSUME NEW c \in Callers, RecordSuccess(c) PROVE BreakerInv'
  BY <1>3 DEF RecordSuccess, Finish, TimestampsDefined, YoungProbeCovered, ProbesSpaced
<1>4. ASSUME NEW c \in Callers, RecordFailure(c) PROVE BreakerInv'
  BY <1>4
  DEF RecordFailure, Finish, Opens, TimestampsDefined, YoungProbeCovered, ProbesSpaced
<1>5. ASSUME NEW c \in Callers, Abandon(c) PROVE BreakerInv'
  BY <1>5 DEF Abandon, Finish, TimestampsDefined, YoungProbeCovered, ProbesSpaced
<1>6. CASE Tick
  <2>1. \A c \in Callers : call_ago'[c] < OpenSeconds =>
          /\ call_ago[c] < OpenSeconds
          /\ call_ago'[c] = call_ago[c] + 1
    BY <1>6 DEF Tick, Older
  <2>2. ProbesSpaced'
    BY <1>6, <2>1 DEF Tick, ProbesSpaced
  <2>3. TimestampsDefined'
    BY <1>6 DEF Tick, OlderOrNull, Older, TimestampsDefined
  <2>4. YoungProbeCovered'
    BY <1>6, <2>1 DEF Tick, OlderOrNull, Older, TimestampsDefined, YoungProbeCovered
  <2> QED BY <2>2, <2>3, <2>4
<1>7. CASE UNCHANGED vars
  BY <1>7 DEF vars, TimestampsDefined, YoungProbeCovered, ProbesSpaced
<1> QED BY <1>1, <1>2, <1>3, <1>4, <1>5, <1>6, <1>7, NextCases

\* The inductive invariant holds throughout.
THEOREM BreakerInvariant == Spec => []BreakerInv
<1>1. BreakerInv /\ TypeOK' /\ [Next]_vars => BreakerInv'
  BY BreakerInvStep
<1> QED BY <1>1, BreakerInvInit, TypeCorrect, PTL DEF Spec

\* At most one probe per OpenSeconds, for any number of callers and any order
\* of late results.
THEOREM ProbesAreSpaced == Spec => []ProbesSpaced
BY BreakerInvariant, PTL DEF BreakerInv

\* before_call never subtracts from None.
THEOREM TimestampsAreDefined == Spec => []TimestampsDefined
BY BreakerInvariant, PTL DEF BreakerInv

\* Where a breaker that is not closed lets a call through, it does so as long
\* after the failure that opened it and after the last probe as it should.
ReadyIsQuiet ==
  state # CLOSED /\ Since >= OpenSeconds =>
    /\ state = OPEN => opened_ago >= OpenSeconds
    /\ \A c \in Callers : call[c] = "probe" => call_ago[c] >= OpenSeconds

\* A probe is admitted only when the breaker has been left alone for
\* OpenSeconds, for any number of callers and any order of late results.
THEOREM ProbesComeQuietly == Spec => []ReadyIsQuiet
<1>1. ASSUME BreakerInv PROVE ReadyIsQuiet
  BY <1>1, OpenSecondsAssumption, NullAssumption
  DEF BreakerInv, TypeOK, Ages, TimestampsDefined, YoungProbeCovered, Since, ReadyIsQuiet
<1> QED BY <1>1, BreakerInvariant, PTL

-----------------------------------------------------------------------------
(* The open window *)

\* No late failure restarts the wait of a breaker that is already open.
THEOREM OpenIsNotExtended == Spec => OpenNotExtended
<1> DEFINE Window == state = OPEN /\ state' = OPEN => opened_ago' >= opened_ago
<1>1. BreakerInv /\ [Next]_vars => [Window]_vars
  <2> SUFFICES ASSUME BreakerInv, Next, state = OPEN, state' = OPEN
               PROVE  opened_ago' >= opened_ago
    OBVIOUS
  <2>1. opened_ago \in Ages
    BY DEF BreakerInv, TypeOK, TimestampsDefined
  <2>2. CASE Tick
    <3>1. opened_ago # Null
      BY DEF BreakerInv, TimestampsDefined
    <3> QED BY <2>1, <2>2, <3>1, OlderIsAge DEF Tick, OlderOrNull
  <2>3. CASE ~Tick
    <3>1. opened_ago' = opened_ago
      BY <2>3 DEF Next, AdmitOrdinary, AdmitProbe, RecordSuccess, RecordFailure, Opens, Abandon
    <3> QED BY <2>1, <3>1, OpenSecondsAssumption DEF Ages
  <2> QED BY <2>2, <2>3
<1> QED BY <1>1, BreakerInvariant, PTL DEF Spec, OpenNotExtended
=============================================================================
