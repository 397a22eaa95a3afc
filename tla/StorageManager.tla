--------------------------- MODULE StorageManager ---------------------------
(***************************************************************************)
(* The StorageManager and its RetryEngine over several storage adapters,   *)
(* for one key.  Concurrent calls each work on the snapshot of the usable  *)
(* adapters they took when they started; every request to an adapter runs  *)
(* under a timeout that abandons the request without cancelling it, so an  *)
(* abandoned request may still reach the store later.                      *)
(*                                                                         *)
(* A call is a member of Calls and happens once; the value a call writes   *)
(* is the call itself, so a value tells which call wrote it.               *)
(***************************************************************************)
EXTENDS AdapterHealth

CONSTANTS
    Calls,          \* calls the application makes
    Kinds,          \* which operations it uses
    Null,           \* no value under the key
    MaxAttempts,    \* retryPolicy.maxAttempts
    Abortable,      \* calls that are given an AbortSignal
    Flaky,          \* adapters whose isAvailable() may answer no
    MaxConcurrent   \* BOUND: calls under way at a time

ASSUME StorageAssumption ==
    /\ Kinds \subseteq {"set", "delete", "get", "batch", "keys"}
    /\ Null \notin Calls
    /\ MaxAttempts \in Nat \ {0}
    /\ Abortable \subseteq Calls
    /\ Flaky \subseteq Adapters
    /\ MaxConcurrent \in Nat

VARIABLES
    health,     \* one record per adapter
    store,      \* what each adapter holds under the key
    call,       \* the operation a call performs, "none" before it starts
    targets,    \* its snapshot of the adapters it works on
    step,       \* per target: where executeWithRetry is
    attempt,    \* per target: attempts started
    hit,        \* value a get read, or a delete removed
    result,     \* how the call ended
    aborted,    \* calls whose AbortSignal fired
    orphans,    \* requests abandoned by withTimeout that may still execute
    applied,    \* history: the adapters on which a call's write executed
    overlap     \* history: calls that change stores were under way together

vars == <<health, store, call, targets, step, attempt, hit, result, aborted,
          orphans, applied, overlap>>
callVars == <<call, targets, attempt, result>>

Values  == Calls \cup {Null}
Steps   == {"waiting", "trying", "backoff", "ok", "failed"}
Results == {"pending", "ok", "value", "null", "deleted", "nothing", "failed",
            "QUORUM_NOT_SATISFIED", "NO_ADAPTERS_AVAILABLE"}
Request == [call: Calls, adapter: Adapters, attempt: 1..MaxAttempts]

TypeOK ==
    /\ health  \in [Adapters -> HealthRecord]
    /\ store   \in [Adapters -> Values]
    /\ call    \in [Calls -> Kinds \cup {"none"}]
    /\ targets \in [Calls -> SUBSET Adapters]
    /\ step    \in [Calls -> [Adapters -> Steps]]
    /\ attempt \in [Calls -> [Adapters -> 0..MaxAttempts]]
    /\ hit     \in [Calls -> Values]
    /\ result  \in [Calls -> Results]
    /\ aborted \subseteq Calls
    /\ orphans \subseteq Request
    /\ applied \in [Calls -> SUBSET Adapters]
    /\ overlap \in BOOLEAN

Init ==
    /\ health  = [a \in Adapters |-> InitialHealth]
    /\ store   = [a \in Adapters |-> Null]
    /\ call    = [c \in Calls |-> "none"]
    /\ targets = [c \in Calls |-> {}]
    /\ step    = [c \in Calls |-> [a \in Adapters |-> "waiting"]]
    /\ attempt = [c \in Calls |-> [a \in Adapters |-> 0]]
    /\ hit     = [c \in Calls |-> Null]
    /\ result  = [c \in Calls |-> "pending"]
    /\ aborted = {}
    /\ orphans = {}
    /\ applied = [c \in Calls |-> {}]
    /\ overlap = FALSE

Running(c)  == call[c] # "none" /\ result[c] = "pending"
Settled(c, a) == step[c][a] \in {"ok", "failed"}
Writes(c)   == call[c] \in {"set", "batch"}
Mutates(c)  == (Writes(c) \/ call[c] = "delete") /\ targets[c] # {}
Changing(c) == Running(c) /\ Mutates(c)

-----------------------------------------------------------------------------
(* Starting a call: the early returns, and the snapshot. *)

FirstHealthy == {a \in HealthyAdapters(health) :
                    \A b \in HealthyAdapters(health) : a <= b}

Snapshot(kind) ==
    IF kind \in {"batch", "keys"} THEN FirstHealthy ELSE HealthyAdapters(health)

EarlyResult(kind) ==
    CASE kind = "set" /\ ~CanSatisfyWriteQuorum(health) -> "QUORUM_NOT_SATISFIED"
      [] kind \in {"get", "batch", "keys"} /\ HealthyAdapters(health) = {}
                                                      -> "NO_ADAPTERS_AVAILABLE"
      [] OTHER -> "pending"

(* A failure reaches the health record once per call and target, when      *)
(* executeWithRetry gives up; keys and batch do not report it.             *)
ReportFailures(kind, failing) ==
    health' = IF kind \in {"keys", "batch"} THEN health
              ELSE [a \in Adapters |-> IF a \in failing THEN RecordFailure(health[a])
                                                        ELSE health[a]]

NoteOverlap ==
    overlap' = (overlap \/ \E c, d \in Calls : c # d /\ Changing(c)' /\ Changing(d)')

(* get tries its adapters one after the other; every other operation sends *)
(* its requests to all its targets before it returns to the event loop.    *)
Sent(kind, ts) == IF kind = "get" THEN {} ELSE ts

Start(c, kind) ==
    /\ call[c] = "none"
    /\ Cardinality({d \in Calls : Running(d)}) < MaxConcurrent
    /\ LET ts == IF EarlyResult(kind) = "pending" THEN Snapshot(kind) ELSE {}
       IN  /\ call' = [call EXCEPT ![c] = kind]
           /\ result' = [result EXCEPT ![c] = EarlyResult(kind)]
           /\ targets' = [targets EXCEPT ![c] = ts]
           /\ step' = [step EXCEPT ![c] = [a \in Adapters |->
                          IF a \in Sent(kind, ts) THEN "trying" ELSE "waiting"]]
           /\ attempt' = [attempt EXCEPT ![c] = [a \in Adapters |->
                          IF a \in Sent(kind, ts) THEN 1 ELSE 0]]
    /\ UNCHANGED <<health, store, hit, aborted, orphans, applied>>
    /\ NoteOverlap

(* A call whose signal has fired already sends nothing; every target       *)
(* counts as failed.                                                       *)
StartAborted(c, kind) ==
    /\ call[c] = "none" /\ c \in Abortable /\ kind # "keys"
    /\ EarlyResult(kind) = "pending"
    /\ Cardinality({d \in Calls : Running(d)}) < MaxConcurrent
    /\ call' = [call EXCEPT ![c] = kind]
    /\ targets' = [targets EXCEPT ![c] = Snapshot(kind)]
    /\ step' = [step EXCEPT ![c] = [a \in Adapters |->
                   IF a \in Sent(kind, Snapshot(kind)) THEN "failed" ELSE "waiting"]]
    /\ ReportFailures(kind, Sent(kind, Snapshot(kind)))
    /\ aborted' = aborted \cup {c}
    /\ UNCHANGED <<store, attempt, hit, result, orphans, applied>>
    /\ NoteOverlap

-----------------------------------------------------------------------------
(* executeWithRetry on one target *)

(* The next adapter of a get: every earlier one has answered without a     *)
(* value or failed.                                                        *)
NextForGet(c, a) ==
    /\ Running(c) /\ call[c] = "get" /\ hit[c] = Null
    /\ a \in targets[c] /\ step[c][a] = "waiting"
    /\ \A b \in targets[c] : b < a => Settled(c, b)

BeginAttempt(c, a) ==
    /\ step' = [step EXCEPT ![c][a] = "trying"]
    /\ attempt' = [attempt EXCEPT ![c][a] = @ + 1]
    /\ health' = health

GiveUp(c, a) ==
    /\ step' = [step EXCEPT ![c][a] = "failed"]
    /\ ReportFailures(call[c], {a})
    /\ attempt' = attempt

TryAdapter(c, a) ==
    /\ NextForGet(c, a)
    /\ IF c \in aborted THEN GiveUp(c, a) ELSE BeginAttempt(c, a)
    /\ UNCHANGED <<store, call, targets, hit, result, aborted, orphans, applied, overlap>>

(* The delay is over; the attempt starts unless maxTotalDuration is spent. *)
Retry(c, a) ==
    /\ step[c][a] = "backoff"
    /\ BeginAttempt(c, a) \/ GiveUp(c, a)
    /\ UNCHANGED <<store, call, targets, hit, result, aborted, orphans, applied, overlap>>

(* Mutant: a delete leaves a marker that reads take for a value. *)
EffectLeavesMarker(c, a) ==
    /\ store' = IF Writes(c) \/ call[c] = "delete"
                THEN [store EXCEPT ![a] = c] ELSE store
    /\ applied' = IF Writes(c) \/ call[c] = "delete"
                  THEN [applied EXCEPT ![c] = @ \cup {a}] ELSE applied

(* What a request does when the adapter executes it. *)
Effect(c, a) ==
    /\ store' = CASE Writes(c)          -> [store EXCEPT ![a] = c]
                  [] call[c] = "delete" -> [store EXCEPT ![a] = Null]
                  [] OTHER              -> store
    /\ applied' = IF Writes(c) \/ call[c] = "delete"
                  THEN [applied EXCEPT ![c] = @ \cup {a}] ELSE applied

AttemptSucceeds(c, a) ==
    /\ step[c][a] = "trying"
    /\ Effect(c, a)
    /\ step' = [step EXCEPT ![c][a] = "ok"]
    /\ health' = [health EXCEPT ![a] = RecordSuccess(@)]
    /\ hit' = IF call[c] \in {"get", "delete"} /\ store[a] # Null
              THEN [hit EXCEPT ![c] = store[a]] ELSE hit
    /\ UNCHANGED <<callVars, aborted, orphans, overlap>>

MayRetry(c, a) == c \notin aborted /\ attempt[c][a] < MaxAttempts

(* The error is not retryable, the attempts or the total duration are      *)
(* spent, the caller aborted - or there will be another attempt.           *)
AttemptEnds(c, a) ==
    \/ GiveUp(c, a)
    \/ /\ MayRetry(c, a)
       /\ step' = [step EXCEPT ![c][a] = "backoff"]
       /\ UNCHANGED <<health, attempt>>

(* A batch is no transaction: one that is rejected may have executed the   *)
(* operations before the one that failed.                                  *)
AttemptRejected(c, a) ==
    /\ step[c][a] = "trying"
    /\ AttemptEnds(c, a)
    /\ \/ call[c] = "batch" /\ Effect(c, a)
       \/ UNCHANGED <<store, applied>>
    /\ UNCHANGED <<call, targets, hit, result, aborted, orphans, overlap>>

(* Mutant: the timer resolves the promise instead of rejecting it. *)
TimeoutResolves(c, a) ==
    /\ step[c][a] = "trying"
    /\ step' = [step EXCEPT ![c][a] = "ok"]
    /\ orphans' = orphans \cup {[call |-> c, adapter |-> a, attempt |-> attempt[c][a]]}
    /\ UNCHANGED <<health, store, callVars, hit, aborted, applied, overlap>>

AttemptTimesOut(c, a) ==
    /\ step[c][a] = "trying"
    /\ AttemptEnds(c, a)
    /\ orphans' = IF Writes(c) \/ call[c] = "delete"
                  THEN orphans \cup {[call |-> c, adapter |-> a,
                                      attempt |-> attempt[c][a]]}
                  ELSE orphans
    /\ UNCHANGED <<store, call, targets, hit, result, aborted, applied, overlap>>

(* Mutant: the abort clears the timer and leaves the delay unsettled. *)
AbortLosesDelay(c) ==
    /\ Running(c) /\ c \in Abortable \ aborted /\ call[c] # "keys"
    /\ aborted' = aborted \cup {c}
    /\ step' = [step EXCEPT ![c] = [a \in Adapters |->
                   IF step[c][a] = "backoff" THEN "waiting" ELSE step[c][a]]]
    /\ UNCHANGED <<health, store, callVars, hit, orphans, applied, overlap>>

(* The signal ends every delay at once; a request under way goes on.       *)
(* keys() takes no signal.                                                 *)
Abort(c) ==
    /\ Running(c) /\ c \in Abortable \ aborted /\ call[c] # "keys"
    /\ aborted' = aborted \cup {c}
    /\ LET delayed == {a \in Adapters : step[c][a] = "backoff"}
       IN  /\ step' = [step EXCEPT ![c] = [a \in Adapters |->
                          IF a \in delayed THEN "failed" ELSE step[c][a]]]
           /\ ReportFailures(call[c], delayed)
    /\ UNCHANGED <<store, callVars, hit, orphans, applied, overlap>>

-----------------------------------------------------------------------------
(* Ending a call *)

(* Mutant: the settled requests are counted instead of the successful ones. *)
OutcomeCountsSettled(c) ==
    IF call[c] = "set" /\ Cardinality(targets[c]) < WriteQuorum
    THEN "QUORUM_NOT_SATISFIED" ELSE "ok"

Outcome(c) ==
    LET ok == {a \in targets[c] : step[c][a] = "ok"}
    IN  CASE call[c] = "set"    -> IF Cardinality(ok) < WriteQuorum
                                   THEN "QUORUM_NOT_SATISFIED" ELSE "ok"
          [] call[c] = "delete" -> IF hit[c] # Null THEN "deleted" ELSE "nothing"
          [] call[c] = "get"    -> IF hit[c] # Null THEN "value" ELSE "null"
          [] OTHER              -> IF ok = targets[c] THEN "ok" ELSE "failed"

(* Mutant: a set returns as soon as the quorum is reached. *)
FinishAtQuorum(c) ==
    /\ Running(c)
    /\ \/ \A a \in targets[c] : Settled(c, a)
       \/ call[c] = "get" /\ hit[c] # Null
       \/ Outcome(c) = "ok"
    /\ result' = [result EXCEPT ![c] = Outcome(c)]
    /\ UNCHANGED <<health, store, call, targets, step, attempt, hit, aborted,
                   orphans, applied, overlap>>

Finish(c) ==
    /\ Running(c)
    /\ \/ \A a \in targets[c] : Settled(c, a)
       \/ call[c] = "get" /\ hit[c] # Null
    /\ result' = [result EXCEPT ![c] = Outcome(c)]
    /\ UNCHANGED <<health, store, call, targets, step, attempt, hit, aborted,
                   orphans, applied, overlap>>

-----------------------------------------------------------------------------
(* The world outside *)

(* An abandoned request reaches the adapter after all - or never does.     *)
OrphanExecutes(r) ==
    /\ Effect(r.call, r.adapter)
    /\ orphans' = orphans \ {r}
    /\ UNCHANGED <<health, callVars, step, hit, aborted, overlap>>

(* The interval of the health check; down are those that answer no. *)
HealthCheck ==
    \E down \in SUBSET Flaky :
        /\ health' = [a \in Adapters |-> IF a \in down THEN CheckFailed(health[a])
                                                       ELSE CheckPassed(health[a])]
        /\ UNCHANGED <<store, callVars, step, hit, aborted, orphans, applied, overlap>>

Progress(c) ==
    \/ Finish(c)
    \/ \E a \in Adapters :
         \/ TryAdapter(c, a)
         \/ Retry(c, a)
         \/ AttemptSucceeds(c, a)
         \/ AttemptRejected(c, a)
         \/ AttemptTimesOut(c, a)

Next ==
    \/ \E c \in Calls, kind \in Kinds : Start(c, kind) \/ StartAborted(c, kind)
    \/ \E c \in Calls : Abort(c) \/ Progress(c)
    \/ \E r \in orphans : OrphanExecutes(r)
    \/ HealthCheck

Spec == Init /\ [][Next]_vars

(* Every attempt ends, because withTimeout ends it; delays end; promises   *)
(* that are ready run.  The fate of an abandoned request is not promised.  *)
FairSpec == Spec /\ \A c \in Calls : WF_vars(Progress(c))
-----------------------------------------------------------------------------
(* The health records stay consistent (AdapterHealth) when concurrent      *)
(* calls, retries, aborts and health checks update them.                   *)
RecordsOK == \A a \in Adapters : RecordOK(health[a])

(* A set that returned without an error has been executed by at least      *)
(* writeQuorum adapters, through whatever retries, timeouts and aborts.    *)
SuccessMeansQuorum ==
    \A c \in Calls : (call[c] = "set" /\ result[c] = "ok")
                         => Cardinality(applied[c]) >= WriteQuorum

(* A value a call read or removed was written by a set or batch that one   *)
(* of the adapters the call asked had executed.                            *)
ReadsWereWritten ==
    \A c \in Calls : hit[c] # Null =>
        /\ hit[c] \in Calls /\ Writes(hit[c])
        /\ targets[c] \cap applied[hit[c]] # {}

(* An ended call changes a store only through a request it abandoned: no   *)
(* attempt outlives its call in any other way.                             *)
LateWritesAreOrphans ==
    [][\A c \in Calls :
         (result[c] # "pending" /\ \A r \in orphans : r.call # c)
            => applied'[c] = applied[c]]_vars

(* As long as no two calls that change stores have been under way          *)
(* together, the adapters that took every write and delete of the history  *)
(* at the first attempt hold the same value whenever none is under way:    *)
(* neither a request abandoned by an earlier attempt nor a read disturbs   *)
(* them.  Overlapping calls reach the adapters in different orders.        *)
TookEverything(a) ==
    \A c \in Calls : Mutates(c) =>
        a \in targets[c] /\ step[c][a] = "ok" /\ attempt[c][a] = 1

ReplicasAgree ==
    (~overlap /\ \A c \in Calls : ~Changing(c)) =>
        \A a, b \in Adapters :
            (TookEverything(a) /\ TookEverything(b)) => store[a] = store[b]
=============================================================================
