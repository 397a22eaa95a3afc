----------------------- MODULE ResilienceManagerProofs -----------------------
(***************************************************************************)
(* Theorems about ResilienceManager, for every number of adapters, every   *)
(* threshold and every number of operations under way.                     *)
(***************************************************************************)
EXTENDS ResilienceManager, AdapterHealthProofs

(* No operation is sent to an adapter whose breaker is open, so all that   *)
(* are in flight there were sent before it opened.                         *)
EarlyOK ==
    \A a \in Adapters :
      /\ early[a] <= inFlight[a]
      /\ health[a].circuitBreakerOpen => early[a] = inFlight[a]

(* The inductive invariant: the types, RecordOK of every record, EarlyOK. *)
IInv == TypeOK /\ RecordsOK /\ EarlyOK

(* One record replaced by one that is as good leaves the map as good. *)
LEMMA ReplaceRecord ==
  ASSUME IInv, NEW a \in Adapters, NEW r \in HealthRecord, RecordOK(r)
  PROVE  LET m == [health EXCEPT ![a] = r]
         IN  m \in [Adapters -> HealthRecord] /\ \A b \in Adapters : RecordOK(m[b])
  BY DEF IInv, TypeOK, RecordsOK

LEMMA InitEstablishes == Init => IInv
  <1> SUFFICES ASSUME Init PROVE IInv
    OBVIOUS
  <1>1. TypeOK
    BY InitialHealthOK, ResilienceAssumption DEF Init, TypeOK
  <1>2. RecordsOK
    BY InitialHealthOK DEF Init, RecordsOK
  <1>3. EarlyOK
    BY DEF Init, InitialHealth, EarlyOK
  <1>4. QED
    BY <1>1, <1>2, <1>3 DEF IInv

(* Neither kind of health check touches the breaker. *)
LEMMA ChecksKeepBreaker ==
  ASSUME NEW h \in HealthRecord
  PROVE  /\ CheckPassed(h).circuitBreakerOpen = h.circuitBreakerOpen
         /\ CheckFailed(h).circuitBreakerOpen = h.circuitBreakerOpen
  BY DEF CheckPassed, CheckFailed, TrackSuccess, TrackFailure, HealthRecord

(* A report: one operation fewer under way, one record replaced. *)
LEMMA ReportPreserves ==
  ASSUME IInv, NEW a \in Adapters, NEW r \in HealthRecord, RecordOK(r), Report(a, r)
  PROVE  IInv'
  <1>1. health' \in [Adapters -> HealthRecord] /\ RecordsOK'
    BY ReplaceRecord DEF Report, RecordsOK
  <1>2. PICK sentBefore \in BOOLEAN :
          /\ IF sentBefore THEN early[a] > 0 ELSE inFlight[a] > early[a]
          /\ inFlight' = [inFlight EXCEPT ![a] = @ - 1]
          /\ early' = [early EXCEPT ![a] =
                         IF r.circuitBreakerOpen /\ ~health[a].circuitBreakerOpen
                         THEN inFlight[a] - 1
                         ELSE IF sentBefore THEN @ - 1 ELSE @]
    BY DEF Report
  <1>3. /\ inFlight[a] \in 1..MaxInFlight /\ inFlight[a] - 1 \in 0..MaxInFlight
        /\ early[a] \in 0..inFlight[a]
    BY <1>2, ResilienceAssumption DEF IInv, TypeOK, EarlyOK
  <1>4. inFlight' \in [Adapters -> 0..MaxInFlight] /\ inFlight'[a] = inFlight[a] - 1
    BY <1>2, <1>3 DEF IInv, TypeOK
  <1> DEFINE left == IF r.circuitBreakerOpen /\ ~health[a].circuitBreakerOpen
                     THEN inFlight[a] - 1
                     ELSE IF sentBefore THEN early[a] - 1 ELSE early[a]
  <1>5. /\ left \in 0..(inFlight[a] - 1)
        /\ r.circuitBreakerOpen => left = inFlight[a] - 1
    <2>1. /\ r.circuitBreakerOpen \in BOOLEAN
          /\ health[a].circuitBreakerOpen \in BOOLEAN
      BY DEF IInv, TypeOK, HealthRecord
    <2>2. health[a].circuitBreakerOpen => early[a] = inFlight[a]
      BY DEF IInv, EarlyOK
    <2>3. CASE r.circuitBreakerOpen /\ ~health[a].circuitBreakerOpen
      BY <1>3, <2>3, ResilienceAssumption
    <2>4. CASE ~(r.circuitBreakerOpen /\ ~health[a].circuitBreakerOpen) /\ sentBefore
      BY <1>2, <1>3, <2>1, <2>2, <2>4, ResilienceAssumption
    <2>5. CASE ~(r.circuitBreakerOpen /\ ~health[a].circuitBreakerOpen) /\ ~sentBefore
      BY <1>2, <1>3, <2>1, <2>2, <2>5, ResilienceAssumption
    <2>6. QED
      BY <2>1, <2>3, <2>4, <2>5
  <1>6. early' = [early EXCEPT ![a] = left]
    BY <1>2
  <1> HIDE DEF left
  <1>7. early' \in [Adapters -> 0..MaxInFlight]
    BY <1>3, <1>5, <1>6, ResilienceAssumption DEF IInv, TypeOK
  <1>8. EarlyOK'
    <2> SUFFICES ASSUME NEW b \in Adapters
                 PROVE  /\ early'[b] <= inFlight'[b]
                        /\ health'[b].circuitBreakerOpen => early'[b] = inFlight'[b]
      BY DEF EarlyOK
    <2>1. CASE b = a
      <3>1. health'[a] = r /\ early'[a] = left
        BY <1>6 DEF IInv, TypeOK, Report
      <3>2. QED
        BY <1>3, <1>4, <1>5, <2>1, <3>1
    <2>2. CASE b # a
      <3>1. health'[b] = health[b] /\ early'[b] = early[b] /\ inFlight'[b] = inFlight[b]
        BY <1>2, <1>6, <2>2 DEF IInv, TypeOK, Report
      <3>2. QED
        BY <3>1 DEF IInv, EarlyOK
    <2>3. QED
      BY <2>1, <2>2
  <1>9. QED
    BY <1>1, <1>4, <1>7, <1>8 DEF IInv, TypeOK, Report

LEMMA NextPreserves == IInv /\ [Next]_vars => IInv'
  <1> SUFFICES ASSUME IInv, [Next]_vars PROVE IInv'
    OBVIOUS
  <1>1. \A a \in Adapters : health[a] \in HealthRecord /\ RecordOK(health[a])
    BY DEF IInv, TypeOK, RecordsOK
  <1>2. CASE Dispatch
    <2>1. \A a \in HealthyAdapters(health) :
             inFlight[a] + 1 \in 0..MaxInFlight
      BY <1>2, ResilienceAssumption DEF Dispatch, IInv, TypeOK, HealthyAdapters
    <2>2. inFlight' \in [Adapters -> 0..MaxInFlight]
      BY <1>2, <2>1 DEF Dispatch, IInv, TypeOK
    <2>3. EarlyOK'
      <3> SUFFICES ASSUME NEW a \in Adapters
                   PROVE  /\ early[a] <= inFlight'[a]
                          /\ health[a].circuitBreakerOpen => early[a] = inFlight'[a]
        BY <1>2 DEF Dispatch, EarlyOK
      <3>1. early[a] \in Nat /\ inFlight[a] \in Nat
        BY ResilienceAssumption DEF IInv, TypeOK
      <3>2. CASE a \in HealthyAdapters(health)
        BY <1>2, <3>1, <3>2 DEF Dispatch, IInv, EarlyOK, HealthyAdapters, Usable
      <3>3. CASE a \notin HealthyAdapters(health)
        BY <1>2, <3>1, <3>3 DEF Dispatch, IInv, EarlyOK
      <3>4. QED
        BY <3>2, <3>3
    <2>4. QED
      BY <1>2, <2>2, <2>3 DEF Dispatch, IInv, TypeOK, RecordsOK
  <1>3. CASE PerformHealthCheck
    <2>1. \A a \in Adapters :
             health'[a] \in HealthRecord /\ RecordOK(health'[a])
      BY <1>1, <1>3, CheckPassedOK, TrackFailureOK DEF PerformHealthCheck, CheckFailed
    <2>2. health' \in [Adapters -> HealthRecord]
      BY <1>3, <2>1 DEF PerformHealthCheck
    <2>3. EarlyOK'
      <3>1. \A a \in Adapters :
               health'[a].circuitBreakerOpen = health[a].circuitBreakerOpen
        BY <1>1, <1>3, ChecksKeepBreaker DEF PerformHealthCheck
      <3>2. QED
        BY <1>3, <3>1 DEF PerformHealthCheck, IInv, EarlyOK
    <2>4. QED
      BY <1>3, <2>1, <2>2, <2>3 DEF PerformHealthCheck, IInv, TypeOK, RecordsOK
  <1>4. CASE StartDeepCheck
    <2>1. probes' \in [Adapters -> SUBSET BOOLEAN]
      BY <1>4 DEF StartDeepCheck, IInv, TypeOK
    <2>2. QED
      BY <1>4, <2>1 DEF StartDeepCheck, IInv, TypeOK, RecordsOK, EarlyOK
  <1>5. ASSUME NEW a \in Adapters, OperationSucceeds(a) PROVE IInv'
    BY <1>1, <1>5, RecordSuccessOK, ReportPreserves DEF OperationSucceeds
  <1>6. ASSUME NEW a \in Adapters, OperationFails(a) PROVE IInv'
    BY <1>1, <1>6, RecordFailureOK, ReportPreserves DEF OperationFails
  <1>7. ASSUME NEW a \in Adapters, OperationUnreported(a) PROVE IInv'
    BY <1>1, <1>7, ReportPreserves DEF OperationUnreported
  <1>8. ASSUME NEW a \in Adapters, FinishDeepCheck(a) PROVE IInv'
    <2>1. PICK w \in probes[a], p \in BOOLEAN :
            /\ probes' = [probes EXCEPT ![a] = @ \ {w}]
            /\ health' = [health EXCEPT ![a] = IF p /\ w
                                               THEN CheckPassed(@) ELSE CheckFailed(@)]
            /\ UNCHANGED <<available, inFlight, early>>
      BY <1>8 DEF FinishDeepCheck
    <2> DEFINE r == IF p /\ w THEN CheckPassed(health[a]) ELSE CheckFailed(health[a])
    <2>2. /\ r \in HealthRecord /\ RecordOK(r)
          /\ r.circuitBreakerOpen = health[a].circuitBreakerOpen
      BY <1>1, CheckPassedOK, TrackFailureOK, ChecksKeepBreaker DEF CheckFailed
    <2>3. health' = [health EXCEPT ![a] = r]
      BY <2>1
    <2> HIDE DEF r
    <2>4. health' \in [Adapters -> HealthRecord] /\ RecordsOK'
      BY <2>2, <2>3, ReplaceRecord DEF RecordsOK
    <2>5. EarlyOK'
      <3>1. \A b \in Adapters :
               health'[b].circuitBreakerOpen = health[b].circuitBreakerOpen
        BY <2>2, <2>3 DEF IInv, TypeOK
      <3>2. QED
        BY <2>1, <3>1 DEF IInv, EarlyOK
    <2>6. QED
      BY <2>1, <2>4, <2>5 DEF IInv, TypeOK
  <1>9. ASSUME NEW a \in Adapters, AvailabilityChanges(a) PROVE IInv'
    BY <1>9 DEF AvailabilityChanges, IInv, TypeOK, RecordsOK, EarlyOK
  <1>10. CASE UNCHANGED vars
    BY <1>10 DEF vars, IInv, TypeOK, RecordsOK, EarlyOK
  <1>11. QED
    BY <1>2, <1>3, <1>4, <1>5, <1>6, <1>7, <1>8, <1>9, <1>10 DEF Next

THEOREM Invariance == Spec => []IInv
  BY InitEstablishes, NextPreserves, PTL DEF Spec

(* Every variable of the manager keeps its type. *)
THEOREM TypeCorrect == Spec => []TypeOK
  <1>1. IInv => TypeOK
    BY DEF IInv
  <1>2. QED
    BY <1>1, Invariance, PTL

(* The records of all adapters stay consistent under every interleaving of *)
(* reports, health checks and deep checks.                                 *)
THEOREM RecordsConsistent == Spec => []RecordsOK
  <1>1. IInv => RecordsOK
    BY DEF IInv
  <1>2. QED
    BY <1>1, Invariance, PTL
-----------------------------------------------------------------------------
(* A usable adapter has its breaker closed and no run of failures that     *)
(* reaches the threshold, so the write decision counts only such adapters. *)
LEMMA UsableIsSound ==
  ASSUME IInv, NEW a \in HealthyAdapters(health)
  PROVE  /\ a \in Adapters
         /\ ~health[a].circuitBreakerOpen
         /\ health[a].consecutiveFailures < FailureThreshold
  BY DEF HealthyAdapters, Usable, IInv, RecordsOK, RecordOK, HealthFlagMatchesRun

THEOREM WriteDecisionIsSound == Spec => []WriteDecisionSound
  <1>1. ASSUME IInv PROVE WriteDecisionSound
    <2> DEFINE sound == {a \in Adapters :
              /\ ~health[a].circuitBreakerOpen
              /\ health[a].consecutiveFailures < FailureThreshold}
    <2> SUFFICES ASSUME CanSatisfyWriteQuorum(health), HealthyAdapters(health) # {}
                 PROVE  /\ Cardinality(sound) >= WriteQuorum
                        /\ RequirePrimary => Primary \in sound
      BY DEF WriteDecisionSound, Primary
    <2>1. HealthyAdapters(health) \subseteq sound
      BY <1>1, UsableIsSound
    <2>2. IsFiniteSet(sound) /\ IsFiniteSet(HealthyAdapters(health))
      <3>1. IsFiniteSet(Adapters)
        BY HealthAssumption, FS_Interval DEF Adapters
      <3>2. sound \subseteq Adapters /\ HealthyAdapters(health) \subseteq Adapters
        BY DEF HealthyAdapters
      <3>3. QED
        BY <3>1, <3>2, FS_Subset
    <2>3. Cardinality(HealthyAdapters(health)) <= Cardinality(sound)
      BY <2>1, <2>2, FS_Subset
    <2>4. Cardinality(sound) \in Nat /\ Cardinality(HealthyAdapters(health)) \in Nat
      BY <2>2, FS_CardinalityType
    <2>5. QED
      BY <2>1, <2>3, <2>4, HealthAssumption DEF CanSatisfyWriteQuorum
  <1>2. QED
    BY <1>1, Invariance, PTL
-----------------------------------------------------------------------------
(* Only a record whose run of failures is over has its breaker closed. *)
LEMMA FailureKeepsBreaker ==
  ASSUME NEW h \in HealthRecord, h.circuitBreakerOpen
  PROVE  RecordFailure(h).circuitBreakerOpen
  <1>1. TrackFailure(h).consecutiveFailures > 0 /\ TrackFailure(h).circuitBreakerOpen
    BY HealthAssumption DEF TrackFailure, NextConsecutive, HealthRecord
  <1>2. QED
    BY <1>1 DEF RecordFailure, UpdateCircuitBreaker, OpenCircuitBreaker,
                ShouldCloseCircuitBreaker

LEMMA SuccessKeepsFailures ==
  ASSUME NEW h \in HealthRecord
  PROVE  /\ RecordSuccess(h).consecutiveFailures = 0
         /\ RecordSuccess(h).failedOperations = h.failedOperations
  BY DEF RecordSuccess, BreakerSuccess, CloseCircuitBreaker, TrackSuccess, HealthRecord

(* OnlyStragglersClose: an open breaker is closed only by the success of   *)
(* an operation that was sent before it opened.                            *)
THEOREM StragglersOnly == Spec => OnlyStragglersClose
  <1> DEFINE Straggler(a) ==
               /\ inFlight'[a] = inFlight[a] - 1
               /\ early'[a] = early[a] - 1
               /\ health'[a].consecutiveFailures = 0
               /\ health'[a].failedOperations = health[a].failedOperations
  <1>1. ASSUME IInv, [Next]_vars, NEW a \in Adapters,
               health[a].circuitBreakerOpen, ~health'[a].circuitBreakerOpen
        PROVE  Straggler(a)
    <2>1. /\ health[a] \in HealthRecord
          /\ health \in [Adapters -> HealthRecord]
          /\ inFlight \in [Adapters -> 0..MaxInFlight]
          /\ early \in [Adapters -> 0..MaxInFlight]
          /\ early[a] = inFlight[a]
      BY <1>1 DEF IInv, TypeOK, EarlyOK
    <2>2. ASSUME NEW b \in Adapters, NEW r, Report(b, r)
          PROVE  /\ a = b /\ health'[a] = r
                 /\ inFlight'[a] = inFlight[a] - 1 /\ early'[a] = early[a] - 1
      <3>1. a = b
        BY <1>1, <2>1, <2>2 DEF Report
      <3>2. PICK sentBefore \in BOOLEAN :
              /\ IF sentBefore THEN early[a] > 0 ELSE inFlight[a] > early[a]
              /\ inFlight' = [inFlight EXCEPT ![a] = @ - 1]
              /\ health' = [health EXCEPT ![a] = r]
              /\ early' = [early EXCEPT ![a] =
                             IF r.circuitBreakerOpen /\ ~health[a].circuitBreakerOpen
                             THEN inFlight[a] - 1
                             ELSE IF sentBefore THEN @ - 1 ELSE @]
        BY <2>2, <3>1 DEF Report
      <3>3. health'[a] = r /\ inFlight'[a] = inFlight[a] - 1
        BY <2>1, <3>2
      <3>4. sentBefore
        BY <2>1, <3>2, ResilienceAssumption
      <3>5. early'[a] = early[a] - 1
        BY <1>1, <2>1, <3>2, <3>3, <3>4
      <3>6. QED
        BY <3>1, <3>3, <3>5
    <2>3. ASSUME NEW b \in Adapters, OperationSucceeds(b) PROVE Straggler(a)
      <3>1. /\ a = b /\ health'[a] = RecordSuccess(health[b])
            /\ inFlight'[a] = inFlight[a] - 1 /\ early'[a] = early[a] - 1
        BY <2>2, <2>3 DEF OperationSucceeds
      <3>2. QED
        BY <2>1, <3>1, SuccessKeepsFailures
    <2>4. ASSUME NEW b \in Adapters, OperationFails(b) PROVE FALSE
      <3>1. a = b /\ health'[a] = RecordFailure(health[b])
        BY <2>2, <2>4 DEF OperationFails
      <3>2. QED
        BY <1>1, <2>1, <3>1, FailureKeepsBreaker
    <2>5. ASSUME NEW b \in Adapters, OperationUnreported(b) PROVE FALSE
      <3>1. a = b /\ health'[a] = health[b]
        BY <2>2, <2>5 DEF OperationUnreported
      <3>2. QED
        BY <1>1, <3>1
    <2>6. CASE PerformHealthCheck
      BY <1>1, <2>1, <2>6, ChecksKeepBreaker DEF PerformHealthCheck
    <2>7. ASSUME NEW b \in Adapters, FinishDeepCheck(b) PROVE FALSE
      BY <1>1, <2>1, <2>7, ChecksKeepBreaker DEF FinishDeepCheck
    <2>8. CASE health' = health
      BY <1>1, <2>8
    <2>9. QED
      BY <1>1, <2>3, <2>4, <2>5, <2>6, <2>7, <2>8
      DEF Next, vars, Dispatch, StartDeepCheck, AvailabilityChanges
  <1>2. IInv /\ [Next]_vars =>
          [\A a \in Adapters :
             (health[a].circuitBreakerOpen /\ ~health'[a].circuitBreakerOpen)
                => Straggler(a)]_vars
    BY <1>1
  <1>3. QED
    BY <1>2, Invariance, PTL DEF Spec, OnlyStragglersClose
=============================================================================
