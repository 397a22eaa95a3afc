------------------------- MODULE AdapterHealthProofs -------------------------
(***************************************************************************)
(* Lemmas about the operators of AdapterHealth: each maps a health record  *)
(* to a health record and preserves RecordOK.  They hold for every         *)
(* threshold and every bound on the counters.                              *)
(***************************************************************************)
EXTENDS AdapterHealth, FiniteSetTheorems, TLAPS

(* The record the tracker starts with (initializeHealthStatus). *)
LEMMA InitialHealthOK ==
    InitialHealth \in HealthRecord /\ RecordOK(InitialHealth)
  BY HealthAssumption
  DEF InitialHealth, HealthRecord, RecordOK, FailuresCounted,
      HealthFlagMatchesRun, BreakerHasHistory

(* HealthTracker.recordSuccess, and the reset a passed check does first. *)
LEMMA TrackSuccessOK ==
  ASSUME NEW h \in HealthRecord, RecordOK(h)
  PROVE  /\ TrackSuccess(h) \in HealthRecord
         /\ RecordOK(TrackSuccess(h))
         /\ TrackSuccess(h).consecutiveFailures = 0
         /\ TrackSuccess(h).isHealthy
  <1>1. TrackSuccess(h) \in HealthRecord
    <2>1. NextCount(h, h.totalOperations) \in Nat
      BY DEF HealthRecord, NextCount
    <2>2. QED
      BY <2>1 DEF TrackSuccess, HealthRecord
  <1>2. /\ TrackSuccess(h).consecutiveFailures = 0
        /\ TrackSuccess(h).isHealthy = TRUE
        /\ TrackSuccess(h).circuitBreakerOpen = h.circuitBreakerOpen
        /\ TrackSuccess(h).failedOperations = h.failedOperations
        /\ TrackSuccess(h).totalOperations \in {h.totalOperations, h.totalOperations + 1}
    BY DEF TrackSuccess, HealthRecord, NextCount
  <1>3. FailuresCounted(TrackSuccess(h))
    BY <1>1, <1>2 DEF HealthRecord, RecordOK, FailuresCounted
  <1>4. HealthFlagMatchesRun(TrackSuccess(h))
    BY <1>2, HealthAssumption DEF HealthFlagMatchesRun
  <1>5. BreakerHasHistory(TrackSuccess(h))
    BY <1>1, <1>2, HealthAssumption DEF HealthRecord, RecordOK, BreakerHasHistory
  <1>6. QED
    BY <1>1, <1>2, <1>3, <1>4, <1>5 DEF RecordOK

(* A passed health check. *)
LEMMA CheckPassedOK ==
  ASSUME NEW h \in HealthRecord, RecordOK(h)
  PROVE  CheckPassed(h) \in HealthRecord /\ RecordOK(CheckPassed(h))
  <1> DEFINE r == [h EXCEPT !.isHealthy = TRUE, !.consecutiveFailures = 0]
  <1>1. r \in HealthRecord
    BY DEF HealthRecord
  <1>2. RecordOK(r)
    BY HealthAssumption
    DEF HealthRecord, HistoryFull, RecordOK,
        FailuresCounted, HealthFlagMatchesRun, BreakerHasHistory
  <1>3. QED
    BY <1>1, <1>2, TrackSuccessOK DEF CheckPassed

(* HealthTracker.recordFailure. *)
LEMMA TrackFailureOK ==
  ASSUME NEW h \in HealthRecord, RecordOK(h)
  PROVE  TrackFailure(h) \in HealthRecord /\ RecordOK(TrackFailure(h))
  <1>1. TrackFailure(h) \in HealthRecord
    <2>1. /\ NextCount(h, h.totalOperations) \in Nat
          /\ NextCount(h, h.failedOperations) \in Nat
          /\ NextConsecutive(h) \in Nat
      BY DEF HealthRecord, NextCount, NextConsecutive
    <2>2. (h.isHealthy /\ NextConsecutive(h) < FailureThreshold) \in BOOLEAN
      OBVIOUS
    <2>3. QED
      BY <2>1, <2>2 DEF TrackFailure, HealthRecord
  <1>2. /\ TrackFailure(h).consecutiveFailures = NextConsecutive(h)
        /\ TrackFailure(h).isHealthy = (h.isHealthy /\ NextConsecutive(h) < FailureThreshold)
        /\ TrackFailure(h).circuitBreakerOpen = h.circuitBreakerOpen
        /\ TrackFailure(h).failedOperations = NextCount(h, h.failedOperations)
        /\ TrackFailure(h).totalOperations = NextCount(h, h.totalOperations)
    BY DEF TrackFailure, HealthRecord
  <1>3. FailuresCounted(TrackFailure(h))
    BY <1>1, <1>2, HealthAssumption
    DEF HealthRecord, NextCount, HistoryFull, RecordOK, FailuresCounted
  <1>4. HealthFlagMatchesRun(TrackFailure(h))
    <2>1. CASE TrackFailure(h).isHealthy
      BY <1>2, <2>1 DEF HealthFlagMatchesRun
    <2>2. CASE ~TrackFailure(h).isHealthy
      <3>1. CASE NextConsecutive(h) < FailureThreshold
        <4>1. ~h.isHealthy
          BY <1>2, <2>2, <3>1
        <4>2. h.consecutiveFailures < FailureThreshold
          BY <3>1, HealthAssumption DEF NextConsecutive, HealthRecord
        <4>3. h.circuitBreakerOpen
          BY <4>1, <4>2, HealthAssumption DEF RecordOK, HealthFlagMatchesRun, HealthRecord
        <4>4. QED
          BY <1>2, <2>2, <4>3 DEF HealthFlagMatchesRun
      <3>2. CASE ~(NextConsecutive(h) < FailureThreshold)
        <4>1. TrackFailure(h).consecutiveFailures >= FailureThreshold
          BY <1>1, <1>2, <3>2, HealthAssumption DEF HealthRecord
        <4>2. QED
          BY <2>2, <4>1 DEF HealthFlagMatchesRun
      <3>3. QED
        BY <3>1, <3>2
    <2>3. QED
      BY <2>1, <2>2
  <1>5. BreakerHasHistory(TrackFailure(h))
    BY <1>2, HealthAssumption
    DEF HealthRecord, NextCount, RecordOK, BreakerHasHistory
  <1>6. QED
    BY <1>1, <1>3, <1>4, <1>5 DEF RecordOK

(* Closing is right only when the run of failures is over. *)
LEMMA CloseOK ==
  ASSUME NEW h \in HealthRecord, RecordOK(h), ShouldCloseCircuitBreaker(h)
  PROVE  CloseCircuitBreaker(h) \in HealthRecord /\ RecordOK(CloseCircuitBreaker(h))
  <1> DEFINE c == CloseCircuitBreaker(h)
  <1>1. c \in HealthRecord
    BY DEF CloseCircuitBreaker, HealthRecord
  <1>2. /\ c.isHealthy = TRUE
        /\ c.circuitBreakerOpen = FALSE
        /\ c.consecutiveFailures = 0
        /\ c.failedOperations = h.failedOperations
        /\ c.totalOperations = h.totalOperations
    BY DEF CloseCircuitBreaker, ShouldCloseCircuitBreaker, HealthRecord
  <1>3. FailuresCounted(c)
    BY <1>1, <1>2 DEF HealthRecord, RecordOK, FailuresCounted
  <1>4. HealthFlagMatchesRun(c) /\ BreakerHasHistory(c)
    BY <1>2, HealthAssumption DEF HealthFlagMatchesRun, BreakerHasHistory
  <1>5. QED
    BY <1>1, <1>3, <1>4 DEF RecordOK

(* Opening is right only when the breaker has seen enough operations. *)
LEMMA OpenOK ==
  ASSUME NEW h \in HealthRecord, RecordOK(h), ShouldOpenCircuitBreaker(h)
  PROVE  OpenCircuitBreaker(h) \in HealthRecord /\ RecordOK(OpenCircuitBreaker(h))
  BY HealthAssumption
  DEF HealthRecord, RecordOK, ShouldOpenCircuitBreaker, OpenCircuitBreaker,
      FailuresCounted, HistoryFull, HealthFlagMatchesRun, BreakerHasHistory

(* ResilienceManager.recordSuccess: a reported success leaves the adapter  *)
(* usable, whatever its record was.                                        *)
LEMMA RecordSuccessOK ==
  ASSUME NEW h \in HealthRecord, RecordOK(h)
  PROVE  /\ RecordSuccess(h) \in HealthRecord
         /\ RecordOK(RecordSuccess(h))
         /\ Usable(RecordSuccess(h))
  <1> DEFINE s == TrackSuccess(h)
  <1>1. s \in HealthRecord /\ RecordOK(s) /\ s.consecutiveFailures = 0 /\ s.isHealthy
    BY TrackSuccessOK
  <1>2. RecordSuccess(h) = BreakerSuccess(s)
    BY DEF RecordSuccess
  <1> HIDE DEF s
  <1>3. CASE s.circuitBreakerOpen
    <2>1. BreakerSuccess(s) = CloseCircuitBreaker(s)
      BY <1>1, <1>3 DEF BreakerSuccess, ShouldCloseCircuitBreaker
    <2>2. Usable(CloseCircuitBreaker(s))
      BY <1>1 DEF Usable, CloseCircuitBreaker, HealthRecord
    <2>3. QED
      BY <1>1, <1>2, <2>1, <2>2, CloseOK DEF ShouldCloseCircuitBreaker
  <1>4. CASE ~s.circuitBreakerOpen
    <2>1. BreakerSuccess(s) = s
      BY <1>4 DEF BreakerSuccess
    <2>2. QED
      BY <1>1, <1>2, <1>4, <2>1 DEF Usable
  <1>5. QED
    BY <1>3, <1>4

(* ResilienceManager.recordFailure. *)
LEMMA RecordFailureOK ==
  ASSUME NEW h \in HealthRecord, RecordOK(h)
  PROVE  RecordFailure(h) \in HealthRecord /\ RecordOK(RecordFailure(h))
  <1> DEFINE f == TrackFailure(h)
  <1>1. f \in HealthRecord /\ RecordOK(f)
    BY TrackFailureOK
  <1>2. RecordFailure(h) = UpdateCircuitBreaker(f)
    BY DEF RecordFailure
  <1> HIDE DEF f
  <1>3. CASE ~f.circuitBreakerOpen /\ ShouldOpenCircuitBreaker(f)
    BY <1>1, <1>2, <1>3, OpenOK DEF UpdateCircuitBreaker
  <1>4. CASE f.circuitBreakerOpen /\ ShouldCloseCircuitBreaker(f)
    BY <1>1, <1>2, <1>4, CloseOK DEF UpdateCircuitBreaker
  <1>5. CASE /\ ~(~f.circuitBreakerOpen /\ ShouldOpenCircuitBreaker(f))
             /\ ~(f.circuitBreakerOpen /\ ShouldCloseCircuitBreaker(f))
    BY <1>1, <1>2, <1>5 DEF UpdateCircuitBreaker
  <1>6. QED
    BY <1>3, <1>4, <1>5
=============================================================================
