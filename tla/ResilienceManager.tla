-------------------------- MODULE ResilienceManager --------------------------
(***************************************************************************)
(* The ResilienceManager as its callers drive it: operations of the        *)
(* StorageManager that were sent to an adapter while it was usable and     *)
(* report back later, in any order, and the periodic health check.         *)
(*                                                                         *)
(* The timing that matters is between the snapshot of the healthy adapters *)
(* an operation works on and the moment it reports: in between, other      *)
(* operations and health checks change the record.                         *)
(***************************************************************************)
EXTENDS AdapterHealth

CONSTANTS
    DeepCheck,        \* healthCheck.deepCheck
    OwnKeyRules,      \* adapters that do not use the SDK's StorageValidator
    MaxInFlight       \* BOUND: operations under way on one adapter

ASSUME ResilienceAssumption ==
    /\ DeepCheck \in BOOLEAN
    /\ OwnKeyRules \subseteq Adapters
    /\ MaxInFlight \in Nat

VARIABLES
    health,      \* HealthTracker.healthStatus
    available,   \* what adapter.isAvailable() answers
    inFlight,    \* operations whose snapshot holds the adapter and that have
                 \* not reported yet
    probes,      \* deep checks under way: the answers of isAvailable() they hold
    early        \* history: of the operations in flight, those that were sent
                 \* before the breaker of the adapter last opened

vars == <<health, available, inFlight, probes, early>>

TypeOK ==
    /\ health    \in [Adapters -> HealthRecord]
    /\ available \in [Adapters -> BOOLEAN]
    /\ inFlight  \in [Adapters -> 0..MaxInFlight]
    /\ probes    \in [Adapters -> SUBSET BOOLEAN]
    /\ early     \in [Adapters -> 0..MaxInFlight]

Init ==
    /\ health    = [a \in Adapters |-> InitialHealth]
    /\ available \in [Adapters -> BOOLEAN]
    /\ inFlight  = [a \in Adapters |-> 0]
    /\ probes    = [a \in Adapters |-> {}]
    /\ early     = [a \in Adapters |-> 0]

-----------------------------------------------------------------------------
(* An operation is sent to every adapter of its snapshot at once. *)
Dispatch ==
    LET healthy == HealthyAdapters(health)
    IN  /\ healthy # {}
        /\ \A a \in healthy : inFlight[a] < MaxInFlight
        /\ inFlight' = [a \in Adapters |->
                          IF a \in healthy THEN inFlight[a] + 1 ELSE inFlight[a]]
        /\ UNCHANGED <<health, available, probes, early>>

(* One operation reports, sent before the breaker last opened or after it. *)
(* When its report opens the breaker, all that remain were sent before.    *)
Report(a, record) ==
    \E sentBefore \in BOOLEAN :
      /\ IF sentBefore THEN early[a] > 0 ELSE inFlight[a] > early[a]
      /\ inFlight' = [inFlight EXCEPT ![a] = @ - 1]
      /\ health' = [health EXCEPT ![a] = record]
      /\ early' = [early EXCEPT ![a] =
                     IF record.circuitBreakerOpen /\ ~health[a].circuitBreakerOpen
                     THEN inFlight[a] - 1
                     ELSE IF sentBefore THEN @ - 1 ELSE @]
      /\ UNCHANGED <<available, probes>>

OperationSucceeds(a) == Report(a, RecordSuccess(health[a]))

(* All attempts failed, or the caller aborted the operation. *)
OperationFails(a) == Report(a, RecordFailure(health[a]))

(* A get that found the value earlier never tries the adapter; keys() and  *)
(* batch() do not report their failures.                                   *)
OperationUnreported(a) == Report(a, health[a])

(* Mutant: only the adapters in use are checked. *)
CheckHealthyOnly ==
    /\ ~DeepCheck
    /\ health' = [a \in Adapters |->
                    IF ~Usable(health[a]) THEN health[a]
                    ELSE IF available[a] THEN CheckPassed(health[a]) ELSE CheckFailed(health[a])]
    /\ UNCHANGED <<available, inFlight, probes, early>>

(* Without deepCheck the check has no await: one step covers all adapters. *)
PerformHealthCheck ==
    /\ ~DeepCheck
    /\ health' = [a \in Adapters |-> IF available[a] THEN CheckPassed(health[a])
                                                     ELSE CheckFailed(health[a])]
    /\ UNCHANGED <<available, inFlight, probes, early>>

(* With deepCheck the answer of isAvailable() is read first and used after *)
(* the test operations; nothing stops the next interval from starting      *)
(* another check meanwhile.                                                *)
StartDeepCheck ==
    /\ DeepCheck
    /\ probes' = [a \in Adapters |-> probes[a] \cup {available[a]}]
    /\ UNCHANGED <<health, available, inFlight, early>>

(* The test key starts with "__", which the SDK's own adapters reject. *)
TestKeyAccepted(a) == a \in OwnKeyRules

(* Mutant: a passed deep check is reported to the breaker as well. *)
DeepCheckClosesBreaker(a) ==
    \E wasAvailable \in probes[a], testsPass \in BOOLEAN :
      /\ testsPass => TestKeyAccepted(a)
      /\ probes' = [probes EXCEPT ![a] = @ \ {wasAvailable}]
      /\ health' = [health EXCEPT ![a] = IF testsPass /\ wasAvailable
                                         THEN RecordSuccess(@) ELSE CheckFailed(@)]
      /\ UNCHANGED <<available, inFlight, early>>

FinishDeepCheck(a) ==
    \E wasAvailable \in probes[a], testsPass \in BOOLEAN :
      /\ testsPass => TestKeyAccepted(a)
      /\ probes' = [probes EXCEPT ![a] = @ \ {wasAvailable}]
      /\ health' = [health EXCEPT ![a] = IF testsPass /\ wasAvailable
                                         THEN CheckPassed(@) ELSE CheckFailed(@)]
      /\ UNCHANGED <<available, inFlight, early>>

AvailabilityChanges(a) ==
    /\ available' = [available EXCEPT ![a] = ~@]
    /\ UNCHANGED <<health, inFlight, probes, early>>

Next ==
    \/ Dispatch
    \/ PerformHealthCheck
    \/ StartDeepCheck
    \/ \E a \in Adapters :
         \/ OperationSucceeds(a)
         \/ OperationFails(a)
         \/ OperationUnreported(a)
         \/ FinishDeepCheck(a)
         \/ AvailabilityChanges(a)

Spec == Init /\ [][Next]_vars

(* setInterval keeps firing the check; operations end because every one is *)
(* under a timeout (RetryEngine.withTimeout).  Nothing makes callers start *)
(* operations, but an application that keeps using the store does.         *)
Fairness ==
    /\ WF_vars(PerformHealthCheck)
    /\ WF_vars(Dispatch)
    /\ \A a \in Adapters :
         WF_vars(OperationSucceeds(a) \/ OperationFails(a) \/ OperationUnreported(a))

FairSpec == Spec /\ Fairness

-----------------------------------------------------------------------------
(* Every record satisfies RecordOK: the flag isHealthy agrees with the run *)
(* of failures and the breaker, and an open breaker has seen at least      *)
(* minimumOperations operations, although late reports of old operations,  *)
(* health checks and failures arrive in any order.                         *)
RecordsOK == \A a \in Adapters : RecordOK(health[a])

(* An open breaker is closed only by the success of an operation that was  *)
(* sent before it opened: no health check, no failure and no report of an  *)
(* operation sent later closes it.                                         *)
OnlyStragglersClose ==
    [][\A a \in Adapters :
         (health[a].circuitBreakerOpen /\ ~health'[a].circuitBreakerOpen) =>
            /\ inFlight'[a] = inFlight[a] - 1
            /\ early'[a] = early[a] - 1
            /\ health'[a].consecutiveFailures = 0
            /\ health'[a].failedOperations = health[a].failedOperations]_vars

(* The write decision is sound: when canSatisfyWriteQuorum answers yes and *)
(* somebody is asked to write, enough usable adapters exist and the        *)
(* required primary is one of them, its breaker closed and its run of      *)
(* failures below the threshold.                                           *)
WriteDecisionSound ==
    (CanSatisfyWriteQuorum(health) /\ HealthyAdapters(health) # {}) =>
        /\ Cardinality({a \in Adapters :
              /\ ~health[a].circuitBreakerOpen
              /\ health[a].consecutiveFailures < FailureThreshold}) >= WriteQuorum
        /\ RequirePrimary =>
              /\ ~health[Primary].circuitBreakerOpen
              /\ health[Primary].consecutiveFailures < FailureThreshold

(* An adapter that stays available and whose breaker stays closed is used  *)
(* again and again: failed checks and failed operations only suspend it.   *)
AvailableAdapterHeals ==
    \A a \in Adapters :
        <>[](available[a] /\ ~health[a].circuitBreakerOpen) => []<>Usable(health[a])

(* The circuit breaker recovers (circuit-breaker.ts:8, "Circuit breaker    *)
(* recovery and testing"; types.ts:220, the time "to wait before           *)
(* attempting to close circuit"): an adapter that is available from some   *)
(* moment on does not keep an open breaker forever.                        *)
BreakerRecovers ==
    \A a \in Adapters :
        <>[]available[a] => []<>~health[a].circuitBreakerOpen
=============================================================================
