---------------------------- MODULE AdapterHealth ----------------------------
(***************************************************************************)
(* The health record one storage adapter has in kv-cache, and what the     *)
(* HealthTracker and the CircuitBreaker do to it.  The module has no       *)
(* variables: ResilienceManager and StorageManager keep one record per     *)
(* adapter and update it with these operators.                             *)
(*                                                                         *)
(* An adapter is known by its index in the array given to the              *)
(* StorageManager; adapter 1 is the primary.  Times, messages and          *)
(* averages of the record are left out: no decision reads them.            *)
(***************************************************************************)
EXTENDS Naturals, FiniteSets

CONSTANTS
    NumAdapters,        \* length of the adapters array
    FailureThreshold,   \* healthCheck.failureThreshold
    MinimumOperations,  \* circuitBreaker.minimumOperations
    RateNum, RateDen,   \* circuitBreaker.failureThreshold = RateNum / RateDen
    WriteQuorum,        \* quorum.writeQuorum
    RequirePrimary,     \* quorum.requirePrimary
    MaxCount            \* BOUND: where the counters of a record saturate

ASSUME HealthAssumption ==
    /\ NumAdapters \in Nat \ {0}
    /\ FailureThreshold \in Nat \ {0}
    /\ MinimumOperations \in Nat
    /\ RateNum \in Nat /\ RateDen \in Nat \ {0}
    /\ WriteQuorum \in Nat
    /\ RequirePrimary \in BOOLEAN
    /\ MaxCount \in Nat /\ MaxCount >= FailureThreshold

Adapters == 1..NumAdapters
Primary  == 1

HealthRecord ==
    [isHealthy: BOOLEAN, circuitBreakerOpen: BOOLEAN,
     consecutiveFailures: Nat, totalOperations: Nat, failedOperations: Nat]

InitialHealth ==
    [isHealthy |-> TRUE, circuitBreakerOpen |-> FALSE,
     consecutiveFailures |-> 0, totalOperations |-> 0, failedOperations |-> 0]

(* The program counts without limit.  Here the history of a record stops   *)
(* growing at MaxCount operations (its failure rate is then frozen), and a *)
(* run of failures is counted up to MaxCount, past every threshold.        *)
HistoryFull(h) == h.totalOperations >= MaxCount

NextCount(h, n) == IF HistoryFull(h) THEN n ELSE n + 1

NextConsecutive(h) ==
    IF h.consecutiveFailures >= MaxCount THEN h.consecutiveFailures
                                         ELSE h.consecutiveFailures + 1

-----------------------------------------------------------------------------
(* HealthTracker *)

TrackSuccess(h) ==
    [h EXCEPT !.totalOperations     = NextCount(h, @),
              !.consecutiveFailures = 0,
              !.isHealthy           = TRUE]

(* Mutant: unhealthy only past the threshold, not at it. *)
TrackFailurePastThreshold(h) ==
    [h EXCEPT !.totalOperations     = NextCount(h, @),
              !.failedOperations    = NextCount(h, @),
              !.consecutiveFailures = NextConsecutive(h),
              !.isHealthy           = @ /\ NextConsecutive(h) <= FailureThreshold]

TrackFailure(h) ==
    [h EXCEPT !.totalOperations     = NextCount(h, @),
              !.failedOperations    = NextCount(h, @),
              !.consecutiveFailures = NextConsecutive(h),
              !.isHealthy           = @ /\ NextConsecutive(h) < FailureThreshold]

(* A passed health check first resets the record, then counts a success.   *)
(* It tells the tracker only: the breaker is not informed.                 *)
CheckPassed(h) ==
    TrackSuccess([h EXCEPT !.isHealthy = TRUE, !.consecutiveFailures = 0])

CheckFailed(h) == TrackFailure(h)

-----------------------------------------------------------------------------
(* CircuitBreaker *)

ShouldOpenCircuitBreaker(h) ==
    /\ h.totalOperations >= MinimumOperations
    /\ h.failedOperations * RateDen >= RateNum * h.totalOperations

ShouldCloseCircuitBreaker(h) == h.consecutiveFailures = 0

OpenCircuitBreaker(h) ==
    [h EXCEPT !.circuitBreakerOpen = TRUE, !.isHealthy = FALSE]

CloseCircuitBreaker(h) ==
    [h EXCEPT !.circuitBreakerOpen = FALSE, !.isHealthy = TRUE]

UpdateCircuitBreaker(h) ==
    CASE ~h.circuitBreakerOpen /\ ShouldOpenCircuitBreaker(h) -> OpenCircuitBreaker(h)
      [] h.circuitBreakerOpen /\ ShouldCloseCircuitBreaker(h) -> CloseCircuitBreaker(h)
      [] OTHER -> h

BreakerSuccess(h) ==
    IF h.circuitBreakerOpen /\ ShouldCloseCircuitBreaker(h)
    THEN CloseCircuitBreaker(h) ELSE h

-----------------------------------------------------------------------------
(* ResilienceManager: tracker first, then breaker *)

RecordSuccess(h) == BreakerSuccess(TrackSuccess(h))
RecordFailure(h) == UpdateCircuitBreaker(TrackFailure(h))

(* Mutant: the breaker is not consulted. *)
UsableIgnoresBreaker(h) == h.isHealthy

Usable(h) == h.isHealthy /\ ~h.circuitBreakerOpen

HealthyAdapters(health) == {a \in Adapters : Usable(health[a])}

CanSatisfyWriteQuorum(health) ==
    LET healthy == HealthyAdapters(health)
    IN  /\ (RequirePrimary /\ healthy # {}) => Primary \in healthy
        /\ Cardinality(healthy) >= WriteQuorum

-----------------------------------------------------------------------------
(* What a record always satisfies, whatever sequence of the operations     *)
(* above produced it.  The parts are proved preserved in                   *)
(* AdapterHealthProofs.                                                    *)

FailuresCounted(h) ==
    /\ h.failedOperations <= h.totalOperations
    /\ h.consecutiveFailures > 0 => h.failedOperations > 0 \/ HistoryFull(h)

HealthFlagMatchesRun(h) ==
    /\ h.isHealthy => h.consecutiveFailures < FailureThreshold
    /\ ~h.isHealthy =>
          h.circuitBreakerOpen \/ h.consecutiveFailures >= FailureThreshold

BreakerHasHistory(h) ==
    h.circuitBreakerOpen => h.totalOperations >= MinimumOperations

RecordOK(h) ==
    FailuresCounted(h) /\ HealthFlagMatchesRun(h) /\ BreakerHasHistory(h)
=============================================================================
