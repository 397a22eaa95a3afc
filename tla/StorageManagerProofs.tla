------------------------ MODULE StorageManagerProofs ------------------------
(***************************************************************************)
(* Theorems about StorageManager, for every number of adapters and calls,  *)
(* every quorum and every bound on the attempts.                           *)
(***************************************************************************)
EXTENDS StorageManager, AdapterHealthProofs

(* What the attempts of a call have to do with its phase.  An attempt is   *)
(* bounded because the delay before the next one is entered only below     *)
(* maxAttempts.                                                            *)
AttemptsBounded ==
    \A c \in Calls, a \in Adapters :
        /\ step[c][a] = "waiting" => attempt[c][a] = 0
        /\ step[c][a] = "trying"  => attempt[c][a] >= 1
        /\ step[c][a] = "backoff" => attempt[c][a] < MaxAttempts

(* A target that answered a write without an error has executed it.        *)
OkMeansApplied ==
    \A c \in Calls, a \in Adapters :
        (call[c] = "set" /\ step[c][a] = "ok") => a \in applied[c]

(* A call that has not started has no result and no attempt.               *)
IdleIsBlank ==
    \A c \in Calls : call[c] = "none" =>
        result[c] = "pending" /\ \A a \in Adapters : step[c][a] = "waiting"

TypeInv == TypeOK /\ AttemptsBounded
Safety  == OkMeansApplied /\ SuccessMeansQuorum
IInv    == TypeInv /\ RecordsOK /\ IdleIsBlank /\ Safety

-----------------------------------------------------------------------------
(* Updates of one entry of a map of maps. *)
LEMMA StepUpdate ==
  ASSUME TypeOK, NEW c \in Calls, NEW a \in Adapters, NEW s \in Steps
  PROVE  /\ [step EXCEPT ![c][a] = s] \in [Calls -> [Adapters -> Steps]]
         /\ \A d \in Calls, b \in Adapters :
              [step EXCEPT ![c][a] = s][d][b]
                 = IF d = c /\ b = a THEN s ELSE step[d][b]
  BY DEF TypeOK

LEMMA AttemptUpdate ==
  ASSUME TypeOK, NEW c \in Calls, NEW a \in Adapters,
         attempt[c][a] + 1 <= MaxAttempts
  PROVE  /\ [attempt EXCEPT ![c][a] = @ + 1] \in [Calls -> [Adapters -> 0..MaxAttempts]]
         /\ \A d \in Calls, b \in Adapters :
              [attempt EXCEPT ![c][a] = @ + 1][d][b]
                 = IF d = c /\ b = a THEN attempt[d][b] + 1 ELSE attempt[d][b]
  <1>1. attempt[c][a] \in 0..MaxAttempts
    BY DEF TypeOK
  <1>2. attempt[c][a] + 1 \in 0..MaxAttempts
    BY <1>1, StorageAssumption
  <1>3. QED
    BY <1>2 DEF TypeOK

(* Failures reported for any set of targets leave good records. *)
LEMMA ReportFailuresOK ==
  ASSUME TypeOK, RecordsOK, NEW kind, NEW failing, ReportFailures(kind, failing)
  PROVE  health' \in [Adapters -> HealthRecord] /\ RecordsOK'
  <1>1. \A a \in Adapters : /\ health[a] \in HealthRecord /\ RecordOK(health[a])
                            /\ RecordFailure(health[a]) \in HealthRecord
                            /\ RecordOK(RecordFailure(health[a]))
    BY RecordFailureOK DEF TypeOK, RecordsOK
  <1>2. CASE kind \in {"keys", "batch"}
    BY <1>2 DEF ReportFailures, TypeOK, RecordsOK
  <1>3. CASE kind \notin {"keys", "batch"}
    <2>1. health' = [a \in Adapters |-> IF a \in failing THEN RecordFailure(health[a])
                                                        ELSE health[a]]
      BY <1>3 DEF ReportFailures
    <2>2. QED
      BY <1>1, <2>1 DEF RecordsOK
  <1>4. QED
    BY <1>2, <1>3

LEMMA BeginAttemptOK ==
  ASSUME TypeInv, RecordsOK, NEW c \in Calls, NEW a \in Adapters,
         step[c][a] \in {"waiting", "backoff"}, BeginAttempt(c, a)
  PROVE  /\ health' \in [Adapters -> HealthRecord] /\ RecordsOK'
         /\ step' \in [Calls -> [Adapters -> Steps]]
         /\ attempt' \in [Calls -> [Adapters -> 0..MaxAttempts]]
         /\ AttemptsBounded'
         /\ \A d \in Calls, b \in Adapters : step'[d][b] = "ok" => step[d][b] = "ok"
  <1>1. attempt[c][a] \in 0..MaxAttempts /\ attempt[c][a] + 1 <= MaxAttempts
    BY StorageAssumption DEF TypeInv, TypeOK, AttemptsBounded
  <1>2. "trying" \in Steps
    BY DEF Steps
  <1>3. /\ step' \in [Calls -> [Adapters -> Steps]]
        /\ \A d \in Calls, b \in Adapters :
              step'[d][b] = IF d = c /\ b = a THEN "trying" ELSE step[d][b]
    BY <1>2, StepUpdate DEF BeginAttempt, TypeInv
  <1>4. /\ attempt' \in [Calls -> [Adapters -> 0..MaxAttempts]]
        /\ \A d \in Calls, b \in Adapters :
              attempt'[d][b] = IF d = c /\ b = a THEN attempt[d][b] + 1
                                                ELSE attempt[d][b]
    BY <1>1, AttemptUpdate DEF BeginAttempt, TypeInv
  <1>5. AttemptsBounded'
    BY <1>1, <1>3, <1>4, StorageAssumption DEF TypeInv, AttemptsBounded
  <1>6. health' = health
    BY DEF BeginAttempt
  <1>7. QED
    BY <1>3, <1>4, <1>5, <1>6 DEF TypeInv, TypeOK, RecordsOK

LEMMA GiveUpOK ==
  ASSUME TypeInv, RecordsOK, NEW c \in Calls, NEW a \in Adapters, GiveUp(c, a)
  PROVE  /\ health' \in [Adapters -> HealthRecord] /\ RecordsOK'
         /\ step' \in [Calls -> [Adapters -> Steps]]
         /\ attempt' \in [Calls -> [Adapters -> 0..MaxAttempts]]
         /\ AttemptsBounded'
         /\ \A d \in Calls, b \in Adapters : step'[d][b] = "ok" => step[d][b] = "ok"
  <1>1. /\ step' \in [Calls -> [Adapters -> Steps]]
        /\ \A d \in Calls, b \in Adapters :
              step'[d][b] = IF d = c /\ b = a THEN "failed" ELSE step[d][b]
    BY StepUpdate DEF GiveUp, TypeInv, Steps
  <1>2. health' \in [Adapters -> HealthRecord] /\ RecordsOK'
    BY ReportFailuresOK DEF GiveUp, TypeInv
  <1>3. QED
    BY <1>1, <1>2 DEF GiveUp, TypeInv, TypeOK, AttemptsBounded

(* The same for the two ways an attempt may end. *)
LEMMA AttemptEndsOK ==
  ASSUME TypeInv, RecordsOK, NEW c \in Calls, NEW a \in Adapters, AttemptEnds(c, a)
  PROVE  /\ health' \in [Adapters -> HealthRecord] /\ RecordsOK'
         /\ step' \in [Calls -> [Adapters -> Steps]]
         /\ attempt' \in [Calls -> [Adapters -> 0..MaxAttempts]]
         /\ AttemptsBounded'
         /\ \A d \in Calls, b \in Adapters : step'[d][b] = "ok" => step[d][b] = "ok"
  <1>1. CASE GiveUp(c, a)
    BY <1>1, GiveUpOK
  <1>2. CASE /\ MayRetry(c, a)
             /\ step' = [step EXCEPT ![c][a] = "backoff"]
             /\ UNCHANGED <<health, attempt>>
    <2>1. /\ step' \in [Calls -> [Adapters -> Steps]]
          /\ \A d \in Calls, b \in Adapters :
                step'[d][b] = IF d = c /\ b = a THEN "backoff" ELSE step[d][b]
      BY <1>2, StepUpdate DEF TypeInv, Steps
    <2>2. AttemptsBounded'
      BY <1>2, <2>1 DEF MayRetry, TypeInv, AttemptsBounded
    <2>3. QED
      BY <1>2, <2>1, <2>2 DEF TypeInv, TypeOK, RecordsOK
  <1>3. QED
    BY <1>1, <1>2 DEF AttemptEnds
-----------------------------------------------------------------------------
(* Sets of adapters are finite, so more adapters are at least as many. *)
LEMMA MoreAdapters ==
  ASSUME NEW S, NEW T, S \subseteq T, T \subseteq Adapters,
         Cardinality(S) >= WriteQuorum
  PROVE  Cardinality(T) >= WriteQuorum
  <1>1. IsFiniteSet(Adapters)
    BY HealthAssumption, FS_Interval DEF Adapters
  <1>2. IsFiniteSet(T) /\ IsFiniteSet(S)
    BY <1>1, FS_Subset
  <1>3. Cardinality(S) <= Cardinality(T)
    BY <1>2, FS_Subset
  <1>4. Cardinality(S) \in Nat /\ Cardinality(T) \in Nat
    BY <1>2, FS_CardinalityType
  <1>5. QED
    BY <1>3, <1>4, HealthAssumption

(* Executing a request only adds to what was applied. *)
LEMMA EffectOK ==
  ASSUME TypeOK, NEW c \in Calls, NEW a \in Adapters, Effect(c, a)
  PROVE  /\ store' \in [Adapters -> Values]
         /\ applied' \in [Calls -> SUBSET Adapters]
         /\ \A d \in Calls : applied[d] \subseteq applied'[d]
         /\ call[c] = "set" => a \in applied'[c]
  <1>1. store' \in [Adapters -> Values]
    BY DEF Effect, TypeOK, Values, Writes
  <1>2. CASE Writes(c) \/ call[c] = "delete"
    <2>1. applied' = [applied EXCEPT ![c] = applied[c] \cup {a}]
      BY <1>2 DEF Effect
    <2>2. QED
      BY <1>1, <2>1 DEF TypeOK
  <1>3. CASE ~(Writes(c) \/ call[c] = "delete")
    <2>1. applied' = applied /\ call[c] # "set"
      BY <1>3 DEF Effect, Writes
    <2>2. QED
      BY <1>1, <2>1 DEF TypeOK
  <1>4. QED
    BY <1>2, <1>3

(* What steps that start and end no call have to keep for Safety. *)
LEMMA SafetyKept ==
  ASSUME TypeOK, Safety, UNCHANGED <<call, result>>,
         applied' \in [Calls -> SUBSET Adapters],
         \A d \in Calls : applied[d] \subseteq applied'[d],
         \A d \in Calls, b \in Adapters :
            step'[d][b] = "ok" => step[d][b] = "ok" \/ (call[d] = "set" => b \in applied'[d])
  PROVE  Safety'
  <1>1. OkMeansApplied'
    BY DEF Safety, OkMeansApplied
  <1>2. ASSUME NEW d \in Calls, (call[d] = "set" /\ result[d] = "ok")'
        PROVE  Cardinality(applied[d])' >= WriteQuorum
    <2>1. Cardinality(applied[d]) >= WriteQuorum
      BY <1>2 DEF Safety, SuccessMeansQuorum
    <2>2. applied[d] \subseteq applied'[d] /\ applied'[d] \subseteq Adapters
      OBVIOUS
    <2>3. QED
      BY <2>1, <2>2, MoreAdapters
  <1>3. QED
    BY <1>1, <1>2 DEF Safety, SuccessMeansQuorum

(* ... and for IdleIsBlank. *)
LEMMA IdleKept ==
  ASSUME IdleIsBlank, NEW c \in Calls, call[c] # "none", call' = call,
         \A d \in Calls \ {c} : step'[d] = step[d] /\ result'[d] = result[d]
  PROVE  IdleIsBlank'
  BY DEF IdleIsBlank

-----------------------------------------------------------------------------
LEMMA InitEstablishes == Init => IInv
  <1> SUFFICES ASSUME Init PROVE IInv
    OBVIOUS
  <1>1. TypeOK
    <2>1. overlap \in BOOLEAN
      BY DEF Init
    <2>2. QED
      BY <2>1, InitialHealthOK, StorageAssumption
      DEF Init, TypeOK, Values, Steps, Results, Request
  <1>2. RecordsOK
    BY InitialHealthOK DEF Init, RecordsOK
  <1>3. AttemptsBounded /\ IdleIsBlank /\ OkMeansApplied /\ SuccessMeansQuorum
    BY DEF Init, AttemptsBounded, IdleIsBlank, OkMeansApplied, SuccessMeansQuorum
  <1>4. QED
    BY <1>1, <1>2, <1>3 DEF IInv, TypeInv, Safety

(* A call that starts: its early result is never a success, and its steps  *)
(* are fresh.                                                              *)
LEMMA EarlyResultOK ==
  ASSUME NEW kind
  PROVE  EarlyResult(kind) \in Results \ {"ok"}
  BY DEF EarlyResult, Results

LEMMA SnapshotOK ==
  ASSUME NEW kind
  PROVE  Snapshot(kind) \in SUBSET Adapters
  BY DEF Snapshot, FirstHealthy, HealthyAdapters

LEMMA StartPreserves ==
  ASSUME IInv, NEW c \in Calls, NEW kind \in Kinds, Start(c, kind)
  PROVE  IInv'
  <1> DEFINE ts == IF EarlyResult(kind) = "pending" THEN Snapshot(kind) ELSE {}
             st == [a \in Adapters |->
                      IF a \in Sent(kind, ts) THEN "trying" ELSE "waiting"]
             at == [a \in Adapters |-> IF a \in Sent(kind, ts) THEN 1 ELSE 0]
  <1>1. /\ call' = [call EXCEPT ![c] = kind]
        /\ result' = [result EXCEPT ![c] = EarlyResult(kind)]
        /\ targets' = [targets EXCEPT ![c] = ts]
        /\ step' = [step EXCEPT ![c] = st]
        /\ attempt' = [attempt EXCEPT ![c] = at]
        /\ UNCHANGED <<health, store, hit, aborted, orphans, applied>>
        /\ overlap' \in BOOLEAN
    BY DEF Start, NoteOverlap, IInv, TypeInv, TypeOK
  <1>2. /\ ts \in SUBSET Adapters
        /\ st \in [Adapters -> Steps]
        /\ at \in [Adapters -> 0..MaxAttempts]
    <2>1. ts \in SUBSET Adapters
      BY SnapshotOK
    <2>2. st \in [Adapters -> Steps]
      BY DEF Steps
    <2>3. at \in [Adapters -> 0..MaxAttempts]
      BY StorageAssumption
    <2>4. QED
      BY <2>1, <2>2, <2>3
  <1>3. \A a \in Adapters :
           (st[a] = "waiting" /\ at[a] = 0) \/ (st[a] = "trying" /\ at[a] = 1)
    OBVIOUS
  <1>4. kind # "none"
    BY StorageAssumption
  <1> HIDE DEF ts, st, at
  <1>5. TypeOK'
    BY <1>1, <1>2, EarlyResultOK DEF IInv, TypeInv, TypeOK
  <1>6. AttemptsBounded'
    BY <1>1, <1>3 DEF IInv, TypeInv, TypeOK, AttemptsBounded
  <1>7. IdleIsBlank'
    BY <1>1, <1>4 DEF IInv, TypeInv, TypeOK, IdleIsBlank
  <1>8. RecordsOK'
    BY <1>1 DEF IInv, RecordsOK
  <1>9. Safety'
    BY <1>1, <1>3, EarlyResultOK
    DEF IInv, TypeInv, TypeOK, Safety, OkMeansApplied, SuccessMeansQuorum
  <1>10. QED
    BY <1>5, <1>6, <1>7, <1>8, <1>9 DEF IInv, TypeInv

LEMMA StartAbortedPreserves ==
  ASSUME IInv, NEW c \in Calls, NEW kind \in Kinds, StartAborted(c, kind)
  PROVE  IInv'
  <1> DEFINE st == [a \in Adapters |->
                IF a \in Sent(kind, Snapshot(kind)) THEN "failed" ELSE "waiting"]
  <1>1. /\ call[c] = "none"
        /\ call' = [call EXCEPT ![c] = kind]
        /\ targets' = [targets EXCEPT ![c] = Snapshot(kind)]
        /\ step' = [step EXCEPT ![c] = st]
        /\ aborted' = aborted \cup {c}
        /\ UNCHANGED <<store, attempt, hit, result, orphans, applied>>
        /\ overlap' \in BOOLEAN
    BY DEF StartAborted, NoteOverlap, IInv, TypeInv, TypeOK
  <1>2. st \in [Adapters -> Steps] /\ \A a \in Adapters : st[a] \in {"failed", "waiting"}
    BY DEF Steps
  <1>3. health' \in [Adapters -> HealthRecord] /\ RecordsOK'
    BY ReportFailuresOK DEF StartAborted, IInv, TypeInv
  <1>4. kind # "none"
    BY StorageAssumption
  <1>5. result[c] = "pending" /\ \A a \in Adapters : attempt[c][a] = 0
    BY <1>1 DEF IInv, TypeInv, IdleIsBlank, AttemptsBounded
  <1> HIDE DEF st
  <1>6. TypeOK'
    BY <1>1, <1>2, <1>3, SnapshotOK DEF IInv, TypeInv, TypeOK
  <1>7. AttemptsBounded'
    BY <1>1, <1>2, <1>5 DEF IInv, TypeInv, TypeOK, AttemptsBounded
  <1>8. IdleIsBlank'
    BY <1>1, <1>4 DEF IInv, TypeInv, TypeOK, IdleIsBlank
  <1>9. Safety'
    BY <1>1, <1>2, <1>5
    DEF IInv, TypeInv, TypeOK, Safety, OkMeansApplied, SuccessMeansQuorum
  <1>10. QED
    BY <1>3, <1>6, <1>7, <1>8, <1>9 DEF IInv, TypeInv

(* The steps of executeWithRetry: each moves one target of one call.       *)
LEMMA TryAdapterPreserves ==
  ASSUME IInv, NEW c \in Calls, NEW a \in Adapters, TryAdapter(c, a)
  PROVE  IInv'
  <1>1. /\ UNCHANGED <<store, call, targets, hit, result, aborted, orphans, applied, overlap>>
        /\ GiveUp(c, a) \/ BeginAttempt(c, a)
        /\ call[c] # "none" /\ step[c][a] = "waiting"
    BY DEF TryAdapter, NextForGet, Running
  <1>2. /\ health' \in [Adapters -> HealthRecord] /\ RecordsOK'
        /\ step' \in [Calls -> [Adapters -> Steps]]
        /\ attempt' \in [Calls -> [Adapters -> 0..MaxAttempts]]
        /\ AttemptsBounded'
        /\ \A d \in Calls, b \in Adapters : step'[d][b] = "ok" => step[d][b] = "ok"
    BY <1>1, GiveUpOK, BeginAttemptOK DEF IInv
  <1>3. TypeOK'
    BY <1>1, <1>2 DEF IInv, TypeInv, TypeOK
  <1>4. Safety'
    BY <1>1, <1>2, <1>3, SafetyKept DEF IInv, TypeInv, TypeOK
  <1>5. IdleIsBlank'
    <2>1. \A d \in Calls \ {c} : step'[d] = step[d] /\ result'[d] = result[d]
      BY <1>1 DEF GiveUp, BeginAttempt, IInv, TypeInv, TypeOK
    <2>2. QED
      BY <1>1, <2>1, IdleKept DEF IInv
  <1>6. QED
    BY <1>2, <1>3, <1>4, <1>5 DEF IInv, TypeInv

LEMMA RetryPreserves ==
  ASSUME IInv, NEW c \in Calls, NEW a \in Adapters, Retry(c, a)
  PROVE  IInv'
  <1>1. /\ UNCHANGED <<store, call, targets, hit, result, aborted, orphans, applied, overlap>>
        /\ GiveUp(c, a) \/ BeginAttempt(c, a)
        /\ step[c][a] = "backoff"
    BY DEF Retry
  <1>2. /\ health' \in [Adapters -> HealthRecord] /\ RecordsOK'
        /\ step' \in [Calls -> [Adapters -> Steps]]
        /\ attempt' \in [Calls -> [Adapters -> 0..MaxAttempts]]
        /\ AttemptsBounded'
        /\ \A d \in Calls, b \in Adapters : step'[d][b] = "ok" => step[d][b] = "ok"
    BY <1>1, GiveUpOK, BeginAttemptOK DEF IInv
  <1>3. TypeOK'
    BY <1>1, <1>2 DEF IInv, TypeInv, TypeOK
  <1>4. Safety'
    BY <1>1, <1>2, <1>3, SafetyKept DEF IInv, TypeInv, TypeOK
  <1>5. IdleIsBlank'
    <2>1. \A d \in Calls \ {c} : step'[d] = step[d] /\ result'[d] = result[d]
      BY <1>1 DEF GiveUp, BeginAttempt, IInv, TypeInv, TypeOK
    <2>2. call[c] # "none"
      BY <1>1 DEF IInv, IdleIsBlank
    <2>3. QED
      BY <1>1, <2>1, <2>2, IdleKept DEF IInv
  <1>6. QED
    BY <1>2, <1>3, <1>4, <1>5 DEF IInv, TypeInv

(* A failed or timed-out attempt; the request may become an orphan.        *)
LEMMA AttemptEndsPreserves ==
  ASSUME IInv, NEW c \in Calls, NEW a \in Adapters,
         step[c][a] = "trying", AttemptEnds(c, a),
         UNCHANGED <<call, targets, hit, result, aborted, overlap>>,
         store' \in [Adapters -> Values], applied' \in [Calls -> SUBSET Adapters],
         \A d \in Calls : applied[d] \subseteq applied'[d],
         orphans' \subseteq Request
  PROVE  IInv'
  <1>1. /\ health' \in [Adapters -> HealthRecord] /\ RecordsOK'
        /\ step' \in [Calls -> [Adapters -> Steps]]
        /\ attempt' \in [Calls -> [Adapters -> 0..MaxAttempts]]
        /\ AttemptsBounded'
        /\ \A d \in Calls, b \in Adapters : step'[d][b] = "ok" => step[d][b] = "ok"
    BY AttemptEndsOK DEF IInv
  <1>2. TypeOK'
    BY <1>1 DEF IInv, TypeInv, TypeOK
  <1>3. Safety'
    BY <1>1, <1>2, SafetyKept DEF IInv, TypeInv, TypeOK
  <1>4. IdleIsBlank'
    <2>1. \A d \in Calls \ {c} : step'[d] = step[d] /\ result'[d] = result[d]
      BY DEF AttemptEnds, GiveUp, IInv, TypeInv, TypeOK
    <2>2. call[c] # "none"
      BY DEF IInv, IdleIsBlank
    <2>3. QED
      BY <2>1, <2>2, IdleKept DEF IInv
  <1>5. QED
    BY <1>1, <1>2, <1>3, <1>4 DEF IInv, TypeInv

LEMMA AttemptTimesOutPreserves ==
  ASSUME IInv, NEW c \in Calls, NEW a \in Adapters, AttemptTimesOut(c, a)
  PROVE  IInv'
  <1> DEFINE r == [call |-> c, adapter |-> a, attempt |-> attempt[c][a]]
  <1>1. /\ step[c][a] = "trying" /\ AttemptEnds(c, a)
        /\ UNCHANGED <<store, call, targets, hit, result, aborted, applied, overlap>>
        /\ orphans' = orphans \/ orphans' = orphans \cup {r}
    BY DEF AttemptTimesOut
  <1>2. r \in Request
    <2>1. attempt[c][a] \in 1..MaxAttempts
      BY <1>1, StorageAssumption DEF IInv, TypeInv, TypeOK, AttemptsBounded
    <2>2. QED
      BY <2>1 DEF Request
  <1>3. orphans' \subseteq Request
    BY <1>1, <1>2 DEF IInv, TypeInv, TypeOK
  <1>4. QED
    BY <1>1, <1>3, AttemptEndsPreserves DEF IInv, TypeInv, TypeOK

(* A rejected batch may have been executed in part.                        *)
LEMMA AttemptRejectedPreserves ==
  ASSUME IInv, NEW c \in Calls, NEW a \in Adapters, AttemptRejected(c, a)
  PROVE  IInv'
  <1>1. /\ step[c][a] = "trying" /\ AttemptEnds(c, a)
        /\ Effect(c, a) \/ UNCHANGED <<store, applied>>
        /\ UNCHANGED <<call, targets, hit, result, aborted, orphans, overlap>>
    BY DEF AttemptRejected
  <1>2. /\ store' \in [Adapters -> Values]
        /\ applied' \in [Calls -> SUBSET Adapters]
        /\ \A d \in Calls : applied[d] \subseteq applied'[d]
    BY <1>1, EffectOK DEF IInv, TypeInv, TypeOK
  <1>3. orphans' \subseteq Request
    BY <1>1 DEF IInv, TypeInv, TypeOK
  <1>4. QED
    BY <1>1, <1>2, <1>3, AttemptEndsPreserves

LEMMA AttemptSucceedsPreserves ==
  ASSUME IInv, NEW c \in Calls, NEW a \in Adapters, AttemptSucceeds(c, a)
  PROVE  IInv'
  <1>1. /\ step[c][a] = "trying" /\ Effect(c, a)
        /\ step' = [step EXCEPT ![c][a] = "ok"]
        /\ health' = [health EXCEPT ![a] = RecordSuccess(health[a])]
        /\ hit' = hit \/ hit' = [hit EXCEPT ![c] = store[a]]
        /\ UNCHANGED <<call, targets, attempt, result, aborted, orphans, overlap>>
    BY DEF AttemptSucceeds, callVars
  <1>2. /\ store' \in [Adapters -> Values]
        /\ applied' \in [Calls -> SUBSET Adapters]
        /\ \A d \in Calls : applied[d] \subseteq applied'[d]
        /\ call[c] = "set" => a \in applied'[c]
    BY <1>1, EffectOK DEF IInv, TypeInv
  <1>3. /\ step' \in [Calls -> [Adapters -> Steps]]
        /\ \A d \in Calls, b \in Adapters :
              step'[d][b] = IF d = c /\ b = a THEN "ok" ELSE step[d][b]
    BY <1>1, StepUpdate DEF IInv, TypeInv, Steps
  <1>4. health' \in [Adapters -> HealthRecord] /\ RecordsOK'
    <2>1. RecordSuccess(health[a]) \in HealthRecord /\ RecordOK(RecordSuccess(health[a]))
      BY RecordSuccessOK DEF IInv, TypeInv, TypeOK, RecordsOK
    <2>2. QED
      BY <1>1, <2>1 DEF IInv, TypeInv, TypeOK, RecordsOK
  <1>5. hit' \in [Calls -> Values]
    BY <1>1 DEF IInv, TypeInv, TypeOK
  <1>6. TypeOK'
    BY <1>1, <1>2, <1>3, <1>4, <1>5 DEF IInv, TypeInv, TypeOK
  <1>7. AttemptsBounded'
    BY <1>1, <1>3 DEF IInv, TypeInv, AttemptsBounded
  <1>8. Safety'
    BY <1>1, <1>2, <1>3, SafetyKept DEF IInv, TypeInv
  <1>9. IdleIsBlank'
    <2>1. \A d \in Calls \ {c} : step'[d] = step[d] /\ result'[d] = result[d]
      BY <1>1 DEF IInv, TypeInv, TypeOK
    <2>2. call[c] # "none"
      BY <1>1 DEF IInv, IdleIsBlank
    <2>3. QED
      BY <1>1, <2>1, <2>2, IdleKept DEF IInv
  <1>10. QED
    BY <1>4, <1>6, <1>7, <1>8, <1>9 DEF IInv, TypeInv

LEMMA AbortPreserves ==
  ASSUME IInv, NEW c \in Calls, Abort(c)
  PROVE  IInv'
  <1> DEFINE delayed == {a \in Adapters : step[c][a] = "backoff"}
             st == [a \in Adapters |-> IF a \in delayed THEN "failed" ELSE step[c][a]]
  <1>1. /\ call[c] # "none"
        /\ step' = [step EXCEPT ![c] = st]
        /\ ReportFailures(call[c], delayed)
        /\ aborted' = aborted \cup {c}
        /\ UNCHANGED <<store, call, targets, attempt, result, hit, orphans, applied, overlap>>
    BY DEF Abort, Running, callVars
  <1>2. st \in [Adapters -> Steps] /\ \A a \in Adapters : st[a] \in {"failed", step[c][a]}
    BY DEF IInv, TypeInv, TypeOK, Steps
  <1>3. health' \in [Adapters -> HealthRecord] /\ RecordsOK'
    BY <1>1, ReportFailuresOK DEF IInv, TypeInv
  <1> HIDE DEF st
  <1>4. TypeOK'
    BY <1>1, <1>2, <1>3 DEF IInv, TypeInv, TypeOK
  <1>5. \A d \in Calls, b \in Adapters : step'[d][b] \in {"failed", step[d][b]}
    BY <1>1, <1>2 DEF IInv, TypeInv, TypeOK
  <1>6. AttemptsBounded'
    BY <1>1, <1>5 DEF IInv, TypeInv, AttemptsBounded
  <1>7. Safety'
    BY <1>1, <1>4, <1>5, SafetyKept DEF IInv, TypeInv, TypeOK
  <1>8. IdleIsBlank'
    <2>1. \A d \in Calls \ {c} : step'[d] = step[d] /\ result'[d] = result[d]
      BY <1>1 DEF IInv, TypeInv, TypeOK
    <2>2. QED
      BY <1>1, <2>1, IdleKept DEF IInv
  <1>9. QED
    BY <1>3, <1>4, <1>6, <1>7, <1>8 DEF IInv, TypeInv

(* A call that ends with "ok" counted enough targets, and each of them has *)
(* executed the write.                                                     *)
LEMMA FinishPreserves ==
  ASSUME IInv, NEW c \in Calls, Finish(c)
  PROVE  IInv'
  <1>1. /\ call[c] # "none"
        /\ result' = [result EXCEPT ![c] = Outcome(c)]
        /\ UNCHANGED <<health, store, call, targets, step, attempt, hit, aborted,
                       orphans, applied, overlap>>
    BY DEF Finish, Running
  <1>2. Outcome(c) \in Results
    BY DEF Outcome, Results
  <1>3. TypeOK'
    BY <1>1, <1>2 DEF IInv, TypeInv, TypeOK
  <1>4. AttemptsBounded' /\ RecordsOK' /\ OkMeansApplied'
    BY <1>1 DEF IInv, TypeInv, AttemptsBounded, RecordsOK, Safety, OkMeansApplied
  <1>5. IdleIsBlank'
    BY <1>1, IdleKept DEF IInv, TypeInv, TypeOK
  <1>6. ASSUME call[c] = "set", Outcome(c) = "ok"
        PROVE  Cardinality(applied[c]) >= WriteQuorum
    <2> DEFINE ok == {a \in targets[c] : step[c][a] = "ok"}
    <2>1. Cardinality(ok) >= WriteQuorum
      <3>1. IsFiniteSet(ok)
        <4>1. ok \subseteq Adapters
          BY DEF IInv, TypeInv, TypeOK
        <4>2. IsFiniteSet(Adapters)
          BY HealthAssumption, FS_Interval DEF Adapters
        <4>3. QED
          BY <4>1, <4>2, FS_Subset
      <3>2. Cardinality(ok) \in Nat
        BY <3>1, FS_CardinalityType
      <3>3. ~(Cardinality(ok) < WriteQuorum)
        BY <1>6 DEF Outcome
      <3>4. QED
        BY <3>2, <3>3, HealthAssumption
    <2>2. ok \subseteq applied[c] /\ applied[c] \subseteq Adapters
      BY <1>6 DEF IInv, TypeInv, TypeOK, Safety, OkMeansApplied
    <2>3. QED
      BY <2>1, <2>2, MoreAdapters
  <1>7. SuccessMeansQuorum'
    BY <1>1, <1>6 DEF IInv, TypeInv, TypeOK, Safety, SuccessMeansQuorum
  <1>8. QED
    BY <1>3, <1>4, <1>5, <1>7 DEF IInv, TypeInv, Safety

LEMMA OrphanExecutesPreserves ==
  ASSUME IInv, NEW r \in orphans, OrphanExecutes(r)
  PROVE  IInv'
  <1>1. r.call \in Calls /\ r.adapter \in Adapters
    BY DEF IInv, TypeInv, TypeOK, Request
  <1>2. /\ Effect(r.call, r.adapter)
        /\ orphans' = orphans \ {r}
        /\ UNCHANGED <<health, call, targets, attempt, result, step, hit, aborted, overlap>>
    BY DEF OrphanExecutes, callVars
  <1>3. /\ store' \in [Adapters -> Values]
        /\ applied' \in [Calls -> SUBSET Adapters]
        /\ \A d \in Calls : applied[d] \subseteq applied'[d]
    BY <1>1, <1>2, EffectOK DEF IInv, TypeInv
  <1>4. TypeOK'
    BY <1>2, <1>3 DEF IInv, TypeInv, TypeOK
  <1>5. Safety'
    BY <1>2, <1>3, SafetyKept DEF IInv, TypeInv
  <1>6. AttemptsBounded' /\ RecordsOK' /\ IdleIsBlank'
    BY <1>2 DEF IInv, TypeInv, AttemptsBounded, RecordsOK, IdleIsBlank
  <1>7. QED
    BY <1>4, <1>5, <1>6 DEF IInv, TypeInv

LEMMA HealthCheckPreserves ==
  ASSUME IInv, HealthCheck
  PROVE  IInv'
  <1>1. PICK down \in SUBSET Flaky :
          /\ health' = [a \in Adapters |-> IF a \in down THEN CheckFailed(health[a])
                                                         ELSE CheckPassed(health[a])]
          /\ UNCHANGED <<store, call, targets, attempt, result, step, hit, aborted,
                         orphans, applied, overlap>>
    BY DEF HealthCheck, callVars
  <1>2. \A a \in Adapters :
           /\ CheckFailed(health[a]) \in HealthRecord /\ RecordOK(CheckFailed(health[a]))
           /\ CheckPassed(health[a]) \in HealthRecord /\ RecordOK(CheckPassed(health[a]))
    BY CheckPassedOK, TrackFailureOK
    DEF IInv, TypeInv, TypeOK, RecordsOK, CheckFailed
  <1>3. \A a \in Adapters : health'[a] \in HealthRecord /\ RecordOK(health'[a])
    BY <1>1, <1>2
  <1>4. health' \in [Adapters -> HealthRecord] /\ RecordsOK'
    BY <1>1, <1>3 DEF RecordsOK
  <1>5. TypeOK' /\ AttemptsBounded' /\ IdleIsBlank' /\ Safety'
    BY <1>1, <1>4
    DEF IInv, TypeInv, TypeOK, AttemptsBounded, IdleIsBlank, Safety,
        OkMeansApplied, SuccessMeansQuorum
  <1>6. QED
    BY <1>4, <1>5 DEF IInv, TypeInv

-----------------------------------------------------------------------------
LEMMA NextPreserves == IInv /\ [Next]_vars => IInv'
  <1> SUFFICES ASSUME IInv, [Next]_vars PROVE IInv'
    OBVIOUS
  <1>1. ASSUME NEW c \in Calls, NEW kind \in Kinds, Start(c, kind) PROVE IInv'
    BY <1>1, StartPreserves
  <1>2. ASSUME NEW c \in Calls, NEW kind \in Kinds, StartAborted(c, kind) PROVE IInv'
    BY <1>2, StartAbortedPreserves
  <1>3. ASSUME NEW c \in Calls, Abort(c) PROVE IInv'
    BY <1>3, AbortPreserves
  <1>4. ASSUME NEW c \in Calls, Progress(c) PROVE IInv'
    <2>1. CASE Finish(c)
      BY <2>1, FinishPreserves
    <2>2. ASSUME NEW a \in Adapters, TryAdapter(c, a) PROVE IInv'
      BY <2>2, TryAdapterPreserves
    <2>3. ASSUME NEW a \in Adapters, Retry(c, a) PROVE IInv'
      BY <2>3, RetryPreserves
    <2>4. ASSUME NEW a \in Adapters, AttemptSucceeds(c, a) PROVE IInv'
      BY <2>4, AttemptSucceedsPreserves
    <2>5. ASSUME NEW a \in Adapters, AttemptRejected(c, a) PROVE IInv'
      BY <2>5, AttemptRejectedPreserves
    <2>6. ASSUME NEW a \in Adapters, AttemptTimesOut(c, a) PROVE IInv'
      BY <2>6, AttemptTimesOutPreserves
    <2>7. QED
      BY <1>4, <2>1, <2>2, <2>3, <2>4, <2>5, <2>6 DEF Progress
  <1>5. ASSUME NEW r \in orphans, OrphanExecutes(r) PROVE IInv'
    BY <1>5, OrphanExecutesPreserves
  <1>6. CASE HealthCheck
    BY <1>6, HealthCheckPreserves
  <1>7. CASE UNCHANGED vars
    BY <1>7
    DEF vars, callVars, IInv, TypeInv, TypeOK, AttemptsBounded, RecordsOK, IdleIsBlank,
        Safety, OkMeansApplied, SuccessMeansQuorum
  <1>8. QED
    BY <1>1, <1>2, <1>3, <1>4, <1>5, <1>6, <1>7 DEF Next

THEOREM Invariance == Spec => []IInv
  BY InitEstablishes, NextPreserves, PTL DEF Spec

(* Every variable of the storage manager keeps its type; in particular no  *)
(* target sees more than maxAttempts attempts.                             *)
THEOREM TypeCorrect == Spec => []TypeOK
  <1>1. IInv => TypeOK
    BY DEF IInv, TypeInv
  <1>2. QED
    BY <1>1, Invariance, PTL

(* The health records stay consistent under every interleaving of calls,   *)
(* retries, aborts and health checks.                                      *)
THEOREM RecordsConsistent == Spec => []RecordsOK
  <1>1. IInv => RecordsOK
    BY DEF IInv
  <1>2. QED
    BY <1>1, Invariance, PTL

(* A set that returns without an error has been executed by writeQuorum    *)
(* adapters.                                                               *)
THEOREM QuorumWrites == Spec => []SuccessMeansQuorum
  <1>1. IInv => SuccessMeansQuorum
    BY DEF IInv, Safety
  <1>2. QED
    BY <1>1, Invariance, PTL

-----------------------------------------------------------------------------
(* What the stores, the reads and the late writes have to do with the      *)
(* calls that were made.                                                   *)
Active == {"trying", "backoff"}

(* The value v under a was written by a call that a has executed.          *)
Written(v, a) == v \in Calls /\ Writes(v) /\ a \in applied[v]

StoresWritten == \A a \in Adapters : store[a] # Null => Written(store[a], a)

(* Only requests that write are remembered when they are abandoned.        *)
OrphansWrite == \A r \in orphans : Writes(r.call) \/ call[r.call] = "delete"

(* Requests go to targets; an ended call has none under way, except a get, *)
(* which changes nothing.                                                  *)
TargetsOnly ==
    \A c \in Calls, a \in Adapters : step[c][a] \in Active => a \in targets[c]

EndedIsQuiet ==
    \A c \in Calls : (result[c] # "pending" /\ call[c] # "get")
                         => \A a \in Adapters : step[c][a] \notin Active

IdleIsFresh == \A c \in Calls : call[c] = "none" => hit[c] = Null

Requests == OrphansWrite /\ TargetsOnly /\ EndedIsQuiet /\ IdleIsFresh
Contents == StoresWritten /\ ReadsWereWritten
History  == Requests /\ Contents
HInv     == IInv /\ History

-----------------------------------------------------------------------------
(* A step that executes no request and reads nothing keeps the contents:   *)
(* the calls it starts have no values anywhere yet.                        *)
LEMMA ContentsKept ==
  ASSUME HInv, UNCHANGED <<store, hit, applied>>,
         \A d \in Calls : call[d] # "none" => call'[d] = call[d] /\ targets'[d] = targets[d]
  PROVE  Contents'
  <1>1. \A d \in Calls : Writes(d) => Writes(d)'
    BY DEF Writes
  <1>2. StoresWritten'
    BY <1>1 DEF HInv, History, Contents, StoresWritten, Written
  <1>3. ReadsWereWritten'
    BY <1>1 DEF HInv, History, Contents, Requests, IdleIsFresh, ReadsWereWritten
  <1>4. QED
    BY <1>2, <1>3 DEF Contents

(* A step that starts requests only for targets of calls under way.        *)
LEMMA RequestsKept ==
  ASSUME HInv, UNCHANGED <<call, targets, result>>,
         orphans' \subseteq orphans,
         \A d \in Calls : call[d] = "none" => hit'[d] = hit[d],
         \A d \in Calls, a \in Adapters : step'[d][a] \in Active =>
            step[d][a] \in Active \/ (Running(d) /\ a \in targets[d])
  PROVE  Requests'
  <1>1. OrphansWrite'
    BY DEF HInv, History, Requests, OrphansWrite, Writes
  <1>2. TargetsOnly' /\ EndedIsQuiet' /\ IdleIsFresh'
    BY DEF HInv, History, Requests, TargetsOnly, EndedIsQuiet, IdleIsFresh, Running
  <1>3. QED
    BY <1>1, <1>2 DEF Requests

LEMMA InitHistory == Init => History
  BY DEF Init, History, Requests, Contents, OrphansWrite, TargetsOnly, EndedIsQuiet,
         IdleIsFresh, StoresWritten, ReadsWereWritten, Active

-----------------------------------------------------------------------------
LEMMA StartHistory ==
  ASSUME HInv, NEW c \in Calls, NEW kind \in Kinds,
         Start(c, kind) \/ StartAborted(c, kind)
  PROVE  History'
  <1>1. /\ call[c] = "none"
        /\ call' = [call EXCEPT ![c] = kind]
        /\ UNCHANGED <<store, hit, orphans, applied>>
        /\ \A d \in Calls \ {c} : targets'[d] = targets[d] /\ result'[d] = result[d]
                                  /\ step'[d] = step[d]
    BY DEF Start, StartAborted, HInv, IInv, TypeInv, TypeOK
  <1>2. /\ \A a \in Adapters : step'[c][a] \in Active => a \in targets'[c]
        /\ result'[c] # "pending" => \A a \in Adapters : step'[c][a] \notin Active
    <2>1. CASE Start(c, kind)
      BY <2>1 DEF Start, Sent, Active, HInv, IInv, TypeInv, TypeOK
    <2>2. CASE StartAborted(c, kind)
      BY <2>2 DEF StartAborted, Active, HInv, IInv, TypeInv, TypeOK
    <2>3. QED
      BY <2>1, <2>2
  <1>3. Contents'
    BY <1>1, ContentsKept DEF HInv, IInv, TypeInv, TypeOK
  <1>4. OrphansWrite'
    <2>1. \A d \in Calls : call[d] # "none" => call'[d] = call[d]
      BY <1>1 DEF HInv, IInv, TypeInv, TypeOK
    <2>2. \A r \in orphans : r.call \in Calls
      BY DEF HInv, IInv, TypeInv, TypeOK, Request
    <2>3. QED
      BY <1>1, <2>1, <2>2 DEF HInv, History, Requests, OrphansWrite, Writes
  <1>5. TargetsOnly' /\ EndedIsQuiet' /\ IdleIsFresh'
    BY <1>1, <1>2
    DEF HInv, IInv, TypeInv, TypeOK, History, Requests, TargetsOnly, EndedIsQuiet, IdleIsFresh
  <1>6. QED
    BY <1>3, <1>4, <1>5 DEF History, Requests

(* The steps of executeWithRetry that execute nothing.                     *)
LEMMA StepsOfAttempts ==
  ASSUME HInv, NEW c \in Calls, NEW a \in Adapters,
         GiveUp(c, a) \/ BeginAttempt(c, a) \/ AttemptEnds(c, a)
  PROVE  \A d \in Calls, b \in Adapters :
            (d # c \/ b # a) => step'[d][b] = step[d][b]
  BY DEF GiveUp, BeginAttempt, AttemptEnds, HInv, IInv, TypeInv, TypeOK

LEMMA AttemptHistory ==
  ASSUME HInv, NEW c \in Calls, NEW a \in Adapters,
         \/ TryAdapter(c, a) \/ Retry(c, a)
         \/ AttemptRejected(c, a) /\ UNCHANGED <<store, applied>>
  PROVE  History'
  <1>1. /\ UNCHANGED <<store, call, targets, hit, result, orphans, applied>>
        /\ GiveUp(c, a) \/ BeginAttempt(c, a) \/ AttemptEnds(c, a)
        /\ step[c][a] \in Active \/ (Running(c) /\ a \in targets[c])
    BY DEF TryAdapter, NextForGet, Retry, AttemptRejected, Active
  <1>2. Contents'
    BY <1>1, ContentsKept
  <1>3. Requests'
    BY <1>1, StepsOfAttempts, RequestsKept
  <1>4. QED
    BY <1>2, <1>3 DEF History

LEMMA TimeoutHistory ==
  ASSUME HInv, NEW c \in Calls, NEW a \in Adapters, AttemptTimesOut(c, a)
  PROVE  History'
  <1> DEFINE r == [call |-> c, adapter |-> a, attempt |-> attempt[c][a]]
  <1>1. /\ UNCHANGED <<store, call, targets, hit, result, applied>>
        /\ AttemptEnds(c, a) /\ step[c][a] \in Active
        /\ \/ orphans' = orphans
           \/ orphans' = orphans \cup {r} /\ (Writes(c) \/ call[c] = "delete")
    BY DEF AttemptTimesOut, Active
  <1>2. Contents'
    BY <1>1, ContentsKept
  <1>3. OrphansWrite'
    BY <1>1 DEF HInv, History, Requests, OrphansWrite, Writes
  <1>4. \A d \in Calls, b \in Adapters :
           step'[d][b] \in Active => step[d][b] \in Active
    BY <1>1, StepsOfAttempts
  <1>5. TargetsOnly' /\ EndedIsQuiet' /\ IdleIsFresh'
    BY <1>1, <1>4 DEF HInv, History, Requests, TargetsOnly, EndedIsQuiet, IdleIsFresh
  <1>6. QED
    BY <1>2, <1>3, <1>5 DEF History, Requests

LEMMA AbortHistory ==
  ASSUME HInv, NEW c \in Calls, Abort(c)
  PROVE  History'
  <1>1. UNCHANGED <<store, call, targets, hit, result, orphans, applied>>
    BY DEF Abort, callVars
  <1>2. \A d \in Calls, b \in Adapters :
           step'[d][b] \in Active => step[d][b] \in Active
    BY DEF Abort, Active, HInv, IInv, TypeInv, TypeOK
  <1>3. QED
    BY <1>1, <1>2, ContentsKept, RequestsKept DEF History

LEMMA FinishHistory ==
  ASSUME HInv, NEW c \in Calls, Finish(c)
  PROVE  History'
  <1>1. /\ UNCHANGED <<store, call, targets, step, hit, orphans, applied>>
        /\ \A d \in Calls \ {c} : result'[d] = result[d]
        /\ call[c] # "get" => \A a \in targets[c] : Settled(c, a)
    BY DEF Finish, HInv, IInv, TypeInv, TypeOK
  <1>2. Contents'
    BY <1>1, ContentsKept
  <1>3. EndedIsQuiet'
    BY <1>1
    DEF HInv, History, Requests, TargetsOnly, EndedIsQuiet, Settled, Active
  <1>4. OrphansWrite' /\ TargetsOnly' /\ IdleIsFresh'
    BY <1>1 DEF HInv, History, Requests, OrphansWrite, TargetsOnly, IdleIsFresh, Writes
  <1>5. QED
    BY <1>2, <1>3, <1>4 DEF History, Requests

-----------------------------------------------------------------------------
(* A request that the adapter a executes for the call c, now or after it   *)
(* was abandoned.                                                          *)
LEMMA EffectWrites ==
  ASSUME HInv, NEW c \in Calls, NEW a \in Adapters, call[c] # "none", Effect(c, a),
         UNCHANGED call
  PROVE  /\ StoresWritten'
         /\ \A d \in Calls : applied[d] \subseteq applied'[d]
         /\ (call[c] = "get" => applied' = applied)
         /\ \A d \in Calls \ {c} : applied'[d] = applied[d]
  <1>1. /\ \A d \in Calls : applied[d] \subseteq applied'[d]
        /\ (Writes(c) => a \in applied'[c])
        /\ (call[c] = "get" => applied' = applied)
        /\ \A d \in Calls \ {c} : applied'[d] = applied[d]
    BY DEF Effect, Writes, HInv, IInv, TypeInv, TypeOK
  <1>2. ASSUME NEW b \in Adapters
        PROVE  store'[b] \in {Null, store[b]} \/ (Writes(c) /\ b = a /\ store'[b] = c)
    BY DEF Effect, HInv, IInv, TypeInv, TypeOK
  <1>3. \A d \in Calls : Writes(d)' = Writes(d)
    BY DEF Writes
  <1>4. StoresWritten'
    BY <1>1, <1>2, <1>3 DEF HInv, History, Contents, StoresWritten, Written
  <1>5. QED
    BY <1>1, <1>4

LEMMA SuccessHistory ==
  ASSUME HInv, NEW c \in Calls, NEW a \in Adapters, AttemptSucceeds(c, a)
  PROVE  History'
  <1>1. /\ step[c][a] = "trying" /\ Effect(c, a)
        /\ step' = [step EXCEPT ![c][a] = "ok"]
        /\ UNCHANGED <<call, targets, result, orphans>>
        /\ hit' = hit \/ (hit' = [hit EXCEPT ![c] = store[a]] /\ store[a] # Null)
    BY DEF AttemptSucceeds, callVars
  <1>2. call[c] # "none" /\ a \in targets[c]
    BY <1>1 DEF HInv, IInv, IdleIsBlank, History, Requests, TargetsOnly, Active
  <1>3. /\ StoresWritten'
        /\ \A d \in Calls : applied[d] \subseteq applied'[d]
    BY <1>1, <1>2, EffectWrites
  <1>4. \A d \in Calls : Writes(d)' = Writes(d)
    BY <1>1 DEF Writes
  <1>5. ReadsWereWritten'
    <2>1. ASSUME NEW d \in Calls, hit'[d] # Null, hit'[d] = hit[d]
          PROVE  /\ hit'[d] \in Calls /\ Writes(hit[d])'
                 /\ targets'[d] \cap applied'[hit'[d]] # {}
      BY <2>1, <1>1, <1>3, <1>4 DEF HInv, History, Contents, ReadsWereWritten
    <2>2. store[a] # Null => Written(store[a], a)
      BY DEF HInv, History, Contents, StoresWritten
    <2>3. ASSUME hit' = [hit EXCEPT ![c] = store[a]], store[a] # Null
          PROVE  /\ hit'[c] \in Calls /\ Writes(hit[c])'
                 /\ targets'[c] \cap applied'[hit'[c]] # {}
      <3>1. hit'[c] = store[a]
        BY <2>3 DEF HInv, IInv, TypeInv, TypeOK
      <3>2. QED
        BY <3>1, <2>2, <2>3, <1>1, <1>2, <1>3, <1>4 DEF Written
    <2>4. \A d \in Calls \ {c} : hit'[d] = hit[d]
      BY <1>1 DEF HInv, IInv, TypeInv, TypeOK
    <2>5. QED
      BY <2>1, <2>3, <2>4, <1>1 DEF ReadsWereWritten
  <1>6. Requests'
    <2>1. \A d \in Calls, b \in Adapters :
             step'[d][b] \in Active => step[d][b] \in Active
      BY <1>1 DEF Active, HInv, IInv, TypeInv, TypeOK
    <2>2. \A d \in Calls : call[d] = "none" => hit'[d] = hit[d]
      BY <1>1, <1>2 DEF HInv, IInv, TypeInv, TypeOK
    <2>3. QED
      BY <1>1, <2>1, <2>2, RequestsKept
  <1>7. QED
    BY <1>3, <1>5, <1>6 DEF History, Contents

(* A rejected attempt that executed its request has done what an attempt   *)
(* that succeeds does, and answers nothing.                                *)
LEMMA RejectedHistory ==
  ASSUME HInv, NEW c \in Calls, NEW a \in Adapters, AttemptRejected(c, a)
  PROVE  History'
  <1>1. /\ step[c][a] = "trying" /\ AttemptEnds(c, a)
        /\ Effect(c, a) \/ UNCHANGED <<store, applied>>
        /\ UNCHANGED <<call, targets, hit, result, orphans>>
    BY DEF AttemptRejected
  <1>2. call[c] # "none" /\ step[c][a] \in Active
    BY <1>1 DEF HInv, IInv, IdleIsBlank, Active
  <1>3. CASE UNCHANGED <<store, applied>>
    BY <1>3, AttemptHistory
  <1>4. CASE Effect(c, a)
    <2>1. /\ StoresWritten'
          /\ \A d \in Calls : applied[d] \subseteq applied'[d]
      BY <1>1, <1>2, <1>4, EffectWrites
    <2>2. ReadsWereWritten'
      BY <1>1, <2>1 DEF HInv, History, Contents, ReadsWereWritten, Writes
    <2>3. Requests'
      BY <1>1, <1>2, StepsOfAttempts, RequestsKept
    <2>4. QED
      BY <2>1, <2>2, <2>3 DEF History, Contents
  <1>5. QED
    BY <1>1, <1>3, <1>4

LEMMA OrphanHistory ==
  ASSUME HInv, NEW r \in orphans, OrphanExecutes(r)
  PROVE  History'
  <1>1. /\ Effect(r.call, r.adapter)
        /\ orphans' \subseteq orphans
        /\ UNCHANGED <<call, targets, result, step, hit>>
    BY DEF OrphanExecutes, callVars
  <1>2. /\ r.call \in Calls /\ r.adapter \in Adapters
        /\ call[r.call] # "none"
    BY DEF HInv, IInv, TypeInv, TypeOK, Request, History, Requests, OrphansWrite, Writes
  <1>3. /\ StoresWritten'
        /\ \A d \in Calls : applied[d] \subseteq applied'[d]
    BY <1>1, <1>2, EffectWrites
  <1>4. ReadsWereWritten'
    BY <1>1, <1>3 DEF HInv, History, Contents, ReadsWereWritten, Writes
  <1>5. Requests'
    BY <1>1, RequestsKept
  <1>6. QED
    BY <1>3, <1>4, <1>5 DEF History, Contents

LEMMA StillHistory ==
  ASSUME HInv, UNCHANGED <<store, call, targets, step, hit, result, orphans, applied>>
  PROVE  History'
  BY ContentsKept, RequestsKept DEF History

-----------------------------------------------------------------------------
LEMMA HistoryPreserved == HInv /\ [Next]_vars => HInv'
  <1> SUFFICES ASSUME HInv, [Next]_vars PROVE HInv'
    OBVIOUS
  <1>1. IInv'
    BY NextPreserves DEF HInv
  <1>2. ASSUME NEW c \in Calls, NEW kind \in Kinds,
               Start(c, kind) \/ StartAborted(c, kind)
        PROVE  History'
    BY <1>2, StartHistory
  <1>3. ASSUME NEW c \in Calls, Abort(c) PROVE History'
    BY <1>3, AbortHistory
  <1>4. ASSUME NEW c \in Calls, Progress(c) PROVE History'
    BY <1>4, FinishHistory, AttemptHistory, RejectedHistory, TimeoutHistory, SuccessHistory
    DEF Progress
  <1>5. ASSUME NEW r \in orphans, OrphanExecutes(r) PROVE History'
    BY <1>5, OrphanHistory
  <1>6. ASSUME HealthCheck PROVE History'
    BY <1>6, StillHistory DEF HealthCheck, callVars
  <1>7. ASSUME UNCHANGED vars PROVE History'
    BY <1>7, StillHistory DEF vars
  <1>8. History'
    BY <1>2, <1>3, <1>4, <1>5, <1>6, <1>7 DEF Next
  <1>9. QED
    BY <1>1, <1>8 DEF HInv

THEOREM HistoryInvariant == Spec => []HInv
  <1>1. Init => HInv
    BY InitEstablishes, InitHistory DEF HInv
  <1>2. QED
    BY <1>1, HistoryPreserved, PTL DEF Spec

(* A value a call read or removed was written by a set or batch that one   *)
(* of the adapters it asked had executed, late and repeated requests       *)
(* included.                                                               *)
THEOREM ReadsAreWrites == Spec => []ReadsWereWritten
  <1>1. HInv => ReadsWereWritten
    BY DEF HInv, History, Contents
  <1>2. QED
    BY <1>1, HistoryInvariant, PTL

(* Once a call has ended, only a request it abandoned changes a store.     *)
LEMMA LateStep ==
  ASSUME HInv, [Next]_vars, NEW c \in Calls,
         result[c] # "pending", \A r \in orphans : r.call # c
  PROVE  applied'[c] = applied[c]
  <1>1. ASSUME NEW d \in Calls, NEW a \in Adapters, AttemptSucceeds(d, a)
        PROVE  applied'[c] = applied[c]
    <2>1. Effect(d, a) /\ step[d][a] \in Active /\ UNCHANGED call /\ call[d] # "none"
      BY <1>1 DEF AttemptSucceeds, callVars, Active, HInv, IInv, IdleIsBlank
    <2>2. d = c => call[c] = "get"
      BY <2>1 DEF HInv, History, Requests, EndedIsQuiet
    <2>3. QED
      BY <2>1, <2>2, EffectWrites
  <1>2. ASSUME NEW r \in orphans, OrphanExecutes(r) PROVE applied'[c] = applied[c]
    <2>1. /\ r.call \in Calls /\ r.call # c /\ r.adapter \in Adapters
          /\ Effect(r.call, r.adapter) /\ UNCHANGED call
          /\ call[r.call] # "none"
      BY <1>2
      DEF OrphanExecutes, callVars, HInv, IInv, TypeInv, TypeOK, Request, History,
          Requests, OrphansWrite, Writes
    <2>2. QED
      BY <2>1, EffectWrites
  <1>3. ASSUME NEW d \in Calls, Progress(d) PROVE applied'[c] = applied[c]
    <2>1. CASE Finish(d)
      BY <2>1 DEF Finish
    <2>2. ASSUME NEW a \in Adapters,
                 TryAdapter(d, a) \/ Retry(d, a) \/ AttemptTimesOut(d, a)
          PROVE  applied' = applied
      BY <2>2 DEF TryAdapter, Retry, AttemptTimesOut
    <2>3. ASSUME NEW a \in Adapters, AttemptRejected(d, a)
          PROVE  applied'[c] = applied[c]
      <3>1. /\ step[d][a] \in Active /\ UNCHANGED call /\ call[d] # "none"
            /\ (call[d] = "batch" /\ Effect(d, a)) \/ applied' = applied
        BY <2>3 DEF AttemptRejected, Active, HInv, IInv, IdleIsBlank
      <3>2. d = c => call[c] = "get"
        BY <3>1 DEF HInv, History, Requests, EndedIsQuiet
      <3>3. QED
        BY <3>1, <3>2, EffectWrites
    <2>4. QED
      BY <1>1, <1>3, <2>1, <2>2, <2>3 DEF Progress
  <1>4. ASSUME NEW d \in Calls, NEW kind \in Kinds,
               Start(d, kind) \/ StartAborted(d, kind)
        PROVE  applied' = applied
    BY <1>4 DEF Start, StartAborted
  <1>5. ASSUME NEW d \in Calls, Abort(d) PROVE applied' = applied
    BY <1>5 DEF Abort
  <1>6. CASE HealthCheck
    BY <1>6 DEF HealthCheck
  <1>7. CASE UNCHANGED vars
    BY <1>7 DEF vars
  <1>8. QED
    BY <1>2, <1>3, <1>4, <1>5, <1>6, <1>7 DEF Next

THEOREM LateWrites == Spec => LateWritesAreOrphans
  <1>1. HInv /\ [Next]_vars =>
          [\A c \in Calls :
             (result[c] # "pending" /\ \A r \in orphans : r.call # c)
                => applied'[c] = applied[c]]_vars
    BY LateStep
  <1>2. QED
    BY <1>1, HistoryInvariant, PTL DEF Spec, LateWritesAreOrphans

-----------------------------------------------------------------------------
(* Adapters that took every write agree.  While no two calls that change   *)
(* stores have been under way together, one value describes the stores of  *)
(* all adapters that have not missed, repeated or abandoned anything: what *)
(* the calls before the present one left, or, where the present one has    *)
(* been executed, what it writes.                                          *)
NewValue(c)  == IF Writes(c) THEN c ELSE Null
Took(c, a)   == a \in targets[c] /\ attempt[c][a] = 1 /\ step[c][a] \in {"trying", "ok"}
Unspoilt(a)  == \A c \in Calls : Mutates(c) => Took(c, a)
Executed(c, a) == Changing(c) /\ step[c][a] = "ok"

(* A request abandoned by a call spoils its adapter: the adapter was given *)
(* up or has begun another attempt.                                        *)
Spoils(c, a) ==
    /\ a \in targets[c]
    /\ step[c][a] # "waiting"
    /\ step[c][a] \in {"trying", "ok"} => attempt[c][a] > 1
OrphansSpoil == \A r \in orphans : Spoils(r.call, r.adapter)

(* An adapter waiting for a retry has seen an attempt. *)
DelaysCount == \A c \in Calls, a \in Adapters : step[c][a] = "backoff" => attempt[c][a] >= 1

OneAtATime == \A c, d \in Calls : (Changing(c) /\ Changing(d)) => c = d

Holds(a, old) ==
    /\ \A c \in Calls : Executed(c, a) => store[a] = NewValue(c)
    /\ (\A c \in Calls : ~Executed(c, a)) => store[a] = old
Agreement == \E old \in Values : \A a \in Adapters : Unspoilt(a) => Holds(a, old)

AInv == HInv /\ OrphansSpoil /\ DelaysCount /\ (~overlap => OneAtATime /\ Agreement)

LEMMA InitAgreement == Init => AInv
  <1> SUFFICES ASSUME Init PROVE AInv
    OBVIOUS
  <1>1. HInv
    BY InitEstablishes, InitHistory DEF HInv
  <1>2. OrphansSpoil /\ DelaysCount
    BY DEF Init, OrphansSpoil, DelaysCount
  <1>3. \A c \in Calls : ~Changing(c)
    BY DEF Init, Changing, Running
  <1>4. \A a \in Adapters : store[a] = Null
    BY DEF Init
  <1>5. OneAtATime /\ Agreement
    BY <1>3, <1>4 DEF OneAtATime, Agreement, Holds, Executed, Values
  <1>6. QED
    BY <1>1, <1>2, <1>5 DEF AInv

(* What a step that executes nothing leaves as it is: no adapter becomes   *)
(* unspoilt, and no call gains or loses an execution.                      *)
LEMMA AgreementKept ==
  ASSUME Agreement, UNCHANGED store,
         \A a \in Adapters : Unspoilt(a)' => Unspoilt(a),
         \A c \in Calls, a \in Adapters : Executed(c, a)' <=> Executed(c, a),
         \A c \in Calls, a \in Adapters : Executed(c, a) => NewValue(c)' = NewValue(c)
  PROVE  Agreement'
  <1>1. PICK old \in Values : \A a \in Adapters : Unspoilt(a) => Holds(a, old)
    BY DEF Agreement
  <1>2. ASSUME NEW a \in Adapters, Unspoilt(a)' PROVE Holds(a, old)'
    <2>1. Holds(a, old)
      BY <1>1, <1>2
    <2>2. QED
      BY <2>1 DEF Holds
  <1>3. QED
    BY <1>2 DEF Agreement, Values

(* A call that starts has nothing executed, and the calls before it stay   *)
(* as they are.                                                            *)
LEMMA StartAgreement ==
  ASSUME AInv, NEW c \in Calls, NEW kind \in Kinds,
         Start(c, kind) \/ StartAborted(c, kind)
  PROVE  OrphansSpoil' /\ DelaysCount' /\ (~overlap' => OneAtATime' /\ Agreement')
  <1>1. /\ call[c] = "none"
        /\ UNCHANGED <<store, orphans>>
        /\ NoteOverlap
        /\ \A d \in Calls \ {c} : /\ call'[d] = call[d] /\ targets'[d] = targets[d]
                                  /\ result'[d] = result[d] /\ step'[d] = step[d]
                                  /\ attempt'[d] = attempt[d]
        /\ \A a \in Adapters : step'[c][a] \in {"waiting", "trying", "failed"}
    BY DEF Start, StartAborted, AInv, HInv, IInv, TypeInv, TypeOK
  <1>2. \A r \in orphans : r.call \in Calls \ {c}
    BY <1>1
    DEF AInv, HInv, IInv, TypeInv, TypeOK, Request, History, Requests, OrphansWrite, Writes
  <1>3. OrphansSpoil'
    BY <1>1, <1>2 DEF AInv, OrphansSpoil, Spoils
  <1>4. DelaysCount'
    BY <1>1 DEF AInv, DelaysCount
  <1>5. ASSUME ~overlap' PROVE OneAtATime' /\ Agreement'
    <2>1. OneAtATime' /\ ~overlap
      BY <1>1, <1>5 DEF NoteOverlap, OneAtATime
    <2>2. ~Mutates(c) /\ \A a \in Adapters : ~Executed(c, a) /\ ~Executed(c, a)'
      BY <1>1 DEF Mutates, Writes, Executed, Changing
    <2>3. \A d \in Calls \ {c} : (Mutates(d)' <=> Mutates(d)) /\ (Changing(d)' <=> Changing(d))
      BY <1>1 DEF Mutates, Writes, Changing, Running
    <2>4. \A a \in Adapters : Unspoilt(a)' => Unspoilt(a)
      BY <1>1, <2>2, <2>3 DEF Unspoilt, Took
    <2>5. \A d \in Calls, a \in Adapters : Executed(d, a)' <=> Executed(d, a)
      BY <1>1, <2>2, <2>3 DEF Executed
    <2>6. \A d \in Calls, a \in Adapters : Executed(d, a) => NewValue(d)' = NewValue(d)
      BY <1>1, <2>2 DEF NewValue, Writes
    <2>7. Agreement
      BY <2>1 DEF AInv
    <2>8. QED
      BY <1>1, <2>1, <2>4, <2>5, <2>6, <2>7, AgreementKept
  <1>6. QED
    BY <1>3, <1>4, <1>5

-----------------------------------------------------------------------------
(* Steps of executeWithRetry that execute nothing: the retry of a call     *)
(* that changes stores is at least the second attempt.                     *)
Unexecuted ==
    /\ UNCHANGED <<store, call, targets, result, overlap>>
    /\ \A d \in Calls, a \in Adapters : step'[d][a] = "ok" <=> step[d][a] = "ok"
    /\ \A d \in Calls, a \in Adapters :
          (Mutates(d) /\ step'[d][a] \in {"trying", "ok"} /\ attempt'[d][a] = 1)
              => step[d][a] \in {"trying", "ok"} /\ attempt[d][a] = 1

LEMMA UnexecutedKeeps ==
  ASSUME Unexecuted, ~overlap => OneAtATime /\ Agreement
  PROVE  ~overlap' => OneAtATime' /\ Agreement'
  <1>1. \A d \in Calls : (Mutates(d)' <=> Mutates(d)) /\ (Changing(d)' <=> Changing(d))
    BY DEF Unexecuted, Mutates, Writes, Changing, Running
  <1>2. \A a \in Adapters : Unspoilt(a)' => Unspoilt(a)
    BY <1>1 DEF Unexecuted, Unspoilt, Took
  <1>3. \A d \in Calls, a \in Adapters : Executed(d, a)' <=> Executed(d, a)
    BY <1>1 DEF Unexecuted, Executed
  <1>4. \A d \in Calls, a \in Adapters : Executed(d, a) => NewValue(d)' = NewValue(d)
    BY DEF Unexecuted, NewValue, Writes
  <1>5. ~overlap' => OneAtATime'
    BY <1>1 DEF Unexecuted, OneAtATime
  <1>6. UNCHANGED <<store, overlap>>
    BY DEF Unexecuted
  <1>7. QED
    BY <1>2, <1>3, <1>4, <1>5, <1>6, AgreementKept

(* One target moves, by one of the three updates of executeWithRetry.      *)
GoneOn(c, a) ==
    /\ step' = [step EXCEPT ![c][a] = "trying"]
    /\ attempt' = [attempt EXCEPT ![c][a] = @ + 1]
Stopped(c, a) ==
    /\ \/ step' = [step EXCEPT ![c][a] = "failed"]
       \/ step' = [step EXCEPT ![c][a] = "backoff"] /\ step[c][a] = "trying"
    /\ attempt' = attempt

LEMMA GoneOnMoves ==
  ASSUME AInv, NEW c \in Calls, NEW a \in Adapters, GoneOn(c, a),
         UNCHANGED <<store, call, targets, result, orphans, overlap>>,
         \/ step[c][a] = "backoff"
         \/ step[c][a] = "waiting" /\ call[c] = "get"
  PROVE  Unexecuted /\ DelaysCount' /\ OrphansSpoil'
  <1>1. \A d \in Calls, b \in Adapters :
           /\ step'[d][b] = IF d = c /\ b = a THEN "trying" ELSE step[d][b]
           /\ attempt'[d][b] = IF d = c /\ b = a THEN attempt[d][b] + 1
                                                ELSE attempt[d][b]
           /\ attempt[d][b] \in Nat
    BY StorageAssumption DEF GoneOn, AInv, HInv, IInv, TypeInv, TypeOK
  <1>2. step[c][a] = "backoff" => attempt[c][a] >= 1
    BY DEF AInv, DelaysCount
  <1>3. Mutates(c) => step[c][a] = "backoff"
    BY DEF Mutates, Writes
  <1>4. Unexecuted
    BY <1>1, <1>2, <1>3 DEF Unexecuted
  <1>5. DelaysCount'
    BY <1>1 DEF AInv, DelaysCount
  <1>6. ASSUME NEW r \in orphans PROVE Spoils(r.call, r.adapter)'
    <2>1. r.call \in Calls /\ r.adapter \in Adapters /\ Spoils(r.call, r.adapter)
      BY DEF AInv, HInv, IInv, TypeInv, TypeOK, Request, OrphansSpoil
    <2>2. (r.call = c /\ r.adapter = a) => step[c][a] = "backoff"
      BY <2>1 DEF Spoils
    <2>3. QED
      BY <1>1, <1>2, <2>1, <2>2 DEF Spoils
  <1>7. OrphansSpoil'
    BY <1>6 DEF OrphansSpoil
  <1>8. QED
    BY <1>4, <1>5, <1>7

LEMMA StoppedMoves ==
  ASSUME AInv, NEW c \in Calls, NEW a \in Adapters, Stopped(c, a),
         step[c][a] \notin {"ok", "failed"},
         UNCHANGED <<store, call, targets, result, overlap>>
  PROVE  /\ Unexecuted /\ DelaysCount'
         /\ \A r \in orphans : Spoils(r.call, r.adapter)'
         /\ a \in targets[c] => Spoils(c, a)'
  <1>1. \A d \in Calls, b \in Adapters :
           /\ (d # c \/ b # a) => step'[d][b] = step[d][b]
           /\ attempt'[d][b] = attempt[d][b]
    BY DEF Stopped, AInv, HInv, IInv, TypeInv, TypeOK
  <1>2. \/ step'[c][a] = "failed"
        \/ step'[c][a] = "backoff" /\ step[c][a] = "trying"
    BY DEF Stopped, AInv, HInv, IInv, TypeInv, TypeOK
  <1>3. step[c][a] = "trying" => attempt[c][a] >= 1
    BY DEF AInv, HInv, IInv, TypeInv, AttemptsBounded
  <1>4. Unexecuted
    BY <1>1, <1>2 DEF Unexecuted
  <1>5. DelaysCount'
    BY <1>1, <1>2, <1>3 DEF AInv, DelaysCount
  <1>6. ASSUME NEW r \in orphans PROVE Spoils(r.call, r.adapter)'
    <2>1. r.call \in Calls /\ r.adapter \in Adapters /\ Spoils(r.call, r.adapter)
      BY DEF AInv, HInv, IInv, TypeInv, TypeOK, Request, OrphansSpoil
    <2>2. QED
      BY <1>1, <1>2, <2>1 DEF Spoils
  <1>7. a \in targets[c] => Spoils(c, a)'
    BY <1>2 DEF Spoils
  <1>8. QED
    BY <1>4, <1>5, <1>6, <1>7

LEMMA AttemptAgreement ==
  ASSUME AInv, NEW c \in Calls, NEW a \in Adapters,
         \/ TryAdapter(c, a) \/ Retry(c, a)
         \/ AttemptRejected(c, a) /\ UNCHANGED store
  PROVE  OrphansSpoil' /\ DelaysCount' /\ (~overlap' => OneAtATime' /\ Agreement')
  <1>1. UNCHANGED <<store, call, targets, result, orphans, overlap>>
    BY DEF TryAdapter, Retry, AttemptRejected
  <1>2. \/ /\ GoneOn(c, a)
           /\ step[c][a] = "backoff" \/ (step[c][a] = "waiting" /\ call[c] = "get")
        \/ Stopped(c, a) /\ step[c][a] \notin {"ok", "failed"}
    BY DEF TryAdapter, NextForGet, Retry, AttemptRejected, AttemptEnds, BeginAttempt,
           GiveUp, GoneOn, Stopped
  <1>3. Unexecuted /\ DelaysCount' /\ OrphansSpoil'
    BY <1>1, <1>2, GoneOnMoves, StoppedMoves DEF OrphansSpoil
  <1>4. QED
    BY <1>3, UnexecutedKeeps DEF AInv

(* A rejected attempt that executed its request: its adapter is spoilt, as *)
(* the batch has not taken it at the first attempt.                        *)
LEMMA RejectedAgreement ==
  ASSUME AInv, NEW c \in Calls, NEW a \in Adapters, AttemptRejected(c, a)
  PROVE  OrphansSpoil' /\ DelaysCount' /\ (~overlap' => OneAtATime' /\ Agreement')
  <1>1. CASE UNCHANGED store
    BY <1>1, AttemptAgreement
  <1>2. CASE call[c] = "batch" /\ Effect(c, a)
    <2>1. /\ UNCHANGED <<call, targets, result, orphans, overlap>>
          /\ Stopped(c, a) /\ step[c][a] = "trying" /\ UNCHANGED attempt
          /\ step'[c][a] \in {"failed", "backoff"}
          /\ \A d \in Calls, b \in Adapters : (d # c \/ b # a) => step'[d][b] = step[d][b]
      BY DEF AttemptRejected, AttemptEnds, GiveUp, Stopped, AInv, HInv, IInv, TypeInv, TypeOK
    <2>2. step[c][a] = "trying" => attempt[c][a] >= 1
      BY DEF AInv, HInv, IInv, TypeInv, AttemptsBounded
    <2>3. DelaysCount'
      BY <2>1, <2>2 DEF AInv, DelaysCount
    <2>4. ASSUME NEW r \in orphans PROVE Spoils(r.call, r.adapter)'
      <3>1. r.call \in Calls /\ r.adapter \in Adapters /\ Spoils(r.call, r.adapter)
        BY DEF AInv, HInv, IInv, TypeInv, TypeOK, Request, OrphansSpoil
      <3>2. QED
        BY <2>1, <3>1 DEF Spoils
    <2>5. OrphansSpoil'
      BY <2>1, <2>4 DEF OrphansSpoil
    <2>6. \A b \in Adapters : b # a => store'[b] = store[b]
      BY <1>2 DEF Effect, AInv, HInv, IInv, TypeInv, TypeOK
    <2>7. \A d \in Calls : /\ Mutates(d)' <=> Mutates(d)
                           /\ Changing(d)' <=> Changing(d)
                           /\ NewValue(d)' = NewValue(d)
      BY <2>1 DEF Mutates, Writes, Changing, Running, NewValue
    <2>8. ~Unspoilt(a)'
      <3>1. Mutates(c)'
        BY <1>2, <2>1
        DEF Mutates, Writes, AInv, HInv, History, Requests, TargetsOnly, Active
      <3>2. ~Took(c, a)'
        BY <2>1 DEF Took
      <3>3. QED
        BY <3>1, <3>2 DEF Unspoilt
    <2>9. \A d \in Calls, b \in Adapters : Executed(d, b)' <=> Executed(d, b)
      BY <2>1, <2>7 DEF Executed
    <2>10. ASSUME NEW b \in Adapters, Unspoilt(b)' PROVE b # a /\ Unspoilt(b)
      <3>1. b # a
        BY <2>8, <2>10
      <3>2. \A d \in Calls : Took(d, b)' <=> Took(d, b)
        BY <2>1, <3>1 DEF Took
      <3>3. QED
        BY <2>7, <2>10, <3>1, <3>2 DEF Unspoilt
    <2>11. ASSUME ~overlap' PROVE OneAtATime' /\ Agreement'
      <3>1. OneAtATime /\ Agreement
        BY <2>1, <2>11 DEF AInv
      <3>2. PICK old \in Values : \A b \in Adapters : Unspoilt(b) => Holds(b, old)
        BY <3>1 DEF Agreement
      <3>3. ASSUME NEW b \in Adapters, Unspoilt(b)' PROVE Holds(b, old)'
        <4>1. Holds(b, old) /\ store'[b] = store[b]
          BY <2>6, <2>10, <3>2, <3>3
        <4>2. QED
          BY <2>7, <2>9, <4>1 DEF Holds
      <3>4. Agreement'
        BY <3>3 DEF Agreement, Values
      <3>5. QED
        BY <2>7, <3>1, <3>4 DEF OneAtATime
    <2>12. QED
      BY <2>3, <2>5, <2>11
  <1>3. QED
    BY <1>1, <1>2 DEF AttemptRejected

LEMMA TimeoutAgreement ==
  ASSUME AInv, NEW c \in Calls, NEW a \in Adapters, AttemptTimesOut(c, a)
  PROVE  OrphansSpoil' /\ DelaysCount' /\ (~overlap' => OneAtATime' /\ Agreement')
  <1> DEFINE r == [call |-> c, adapter |-> a, attempt |-> attempt[c][a]]
  <1>1. /\ UNCHANGED <<store, call, targets, result, overlap>>
        /\ step[c][a] = "trying" /\ orphans' \subseteq orphans \cup {r}
    BY DEF AttemptTimesOut
  <1>2. Stopped(c, a)
    BY <1>1 DEF AttemptTimesOut, AttemptEnds, GiveUp, Stopped
  <1>3. a \in targets[c]
    BY <1>1 DEF AInv, HInv, History, Requests, TargetsOnly, Active
  <1>4. /\ Unexecuted /\ DelaysCount'
        /\ \A q \in orphans : Spoils(q.call, q.adapter)'
        /\ Spoils(c, a)'
    BY <1>1, <1>2, <1>3, StoppedMoves
  <1>5. r.call = c /\ r.adapter = a
    OBVIOUS
  <1> HIDE DEF r
  <1>6. OrphansSpoil'
    BY <1>1, <1>4, <1>5 DEF OrphansSpoil
  <1>7. QED
    BY <1>4, <1>6, UnexecutedKeeps DEF AInv

LEMMA AbortAgreement ==
  ASSUME AInv, NEW c \in Calls, Abort(c)
  PROVE  OrphansSpoil' /\ DelaysCount' /\ (~overlap' => OneAtATime' /\ Agreement')
  <1>1. /\ UNCHANGED <<store, call, targets, result, attempt, orphans, overlap>>
        /\ \A d \in Calls, b \in Adapters :
              \/ step'[d][b] = step[d][b]
              \/ step'[d][b] = "failed" /\ step[d][b] = "backoff"
    BY DEF Abort, callVars, AInv, HInv, IInv, TypeInv, TypeOK
  <1>2. Unexecuted
    BY <1>1 DEF Unexecuted
  <1>3. DelaysCount'
    BY <1>1 DEF AInv, DelaysCount
  <1>4. ASSUME NEW r \in orphans PROVE Spoils(r.call, r.adapter)'
    <2>1. r.call \in Calls /\ r.adapter \in Adapters /\ Spoils(r.call, r.adapter)
      BY DEF AInv, HInv, IInv, TypeInv, TypeOK, Request, OrphansSpoil
    <2>2. QED
      BY <1>1, <2>1 DEF Spoils
  <1>5. OrphansSpoil'
    BY <1>1, <1>4 DEF OrphansSpoil
  <1>6. QED
    BY <1>2, <1>3, <1>5, UnexecutedKeeps DEF AInv

-----------------------------------------------------------------------------
(* A call that ends leaves what it wrote, at every adapter that is         *)
(* unspoilt then.                                                          *)
LEMMA FinishAgreement ==
  ASSUME AInv, NEW c \in Calls, Finish(c)
  PROVE  OrphansSpoil' /\ DelaysCount' /\ (~overlap' => OneAtATime' /\ Agreement')
  <1>1. /\ UNCHANGED <<store, call, targets, step, attempt, orphans, overlap>>
        /\ \A d \in Calls \ {c} : result'[d] = result[d]
        /\ Running(c) /\ result'[c] # "pending"
        /\ call[c] # "get" => \A a \in targets[c] : Settled(c, a)
    <2>1. Outcome(c) # "pending"
      BY DEF Outcome
    <2>2. QED
      BY <2>1 DEF Finish, AInv, HInv, IInv, TypeInv, TypeOK
  <1>2. OrphansSpoil' /\ DelaysCount'
    BY <1>1 DEF AInv, OrphansSpoil, Spoils, DelaysCount
  <1>3. /\ \A d \in Calls : Mutates(d)' <=> Mutates(d)
        /\ \A d \in Calls \ {c} : Changing(d)' <=> Changing(d)
        /\ ~Changing(c)'
        /\ Changing(c) <=> Mutates(c)
    BY <1>1 DEF Mutates, Writes, Changing, Running
  <1>4. \A a \in Adapters : Unspoilt(a)' <=> Unspoilt(a)
    BY <1>1, <1>3 DEF Unspoilt, Took
  <1>5. \A d \in Calls : NewValue(d)' = NewValue(d)
    BY <1>1 DEF NewValue, Writes
  <1>6. ASSUME ~overlap' PROVE OneAtATime' /\ Agreement'
    <2>1. OneAtATime /\ Agreement
      BY <1>1, <1>6 DEF AInv
    <2>2. OneAtATime'
      BY <1>3, <2>1 DEF OneAtATime
    <2>3. CASE ~Mutates(c)
      <3>1. \A d \in Calls, a \in Adapters : Executed(d, a)' <=> Executed(d, a)
        BY <1>1, <1>3, <2>3 DEF Executed
      <3>2. QED
        BY <1>1, <1>4, <1>5, <2>1, <2>2, <3>1, AgreementKept
    <2>4. CASE Mutates(c)
      <3>1. \A d \in Calls : ~Changing(d)'
        BY <1>3, <2>1, <2>4 DEF OneAtATime
      <3>2. call[c] # "get"
        BY <2>4 DEF Mutates, Writes
      <3>3. PICK old \in Values : \A a \in Adapters : Unspoilt(a) => Holds(a, old)
        BY <2>1 DEF Agreement
      <3>4. ASSUME NEW a \in Adapters, Unspoilt(a) PROVE store[a] = NewValue(c)
        <4>1. Took(c, a)
          BY <2>4, <3>4 DEF Unspoilt
        <4>2. step[c][a] = "ok"
          BY <1>1, <3>2, <4>1 DEF Took, Settled
        <4>3. Executed(c, a)
          BY <1>3, <2>4, <4>2 DEF Executed
        <4>4. QED
          BY <3>3, <3>4, <4>3 DEF Holds
      <3>5. PICK new : new = NewValue(c)
        OBVIOUS
      <3>6. new \in Values
        BY <3>5 DEF NewValue, Values
      <3>7. \A a \in Adapters : Unspoilt(a)' => Holds(a, new)'
        BY <1>1, <1>4, <3>1, <3>4, <3>5 DEF Holds, Executed
      <3>8. Agreement'
        BY <3>6, <3>7 DEF Agreement, Values
      <3>9. QED
        BY <2>2, <3>8
    <2>5. QED
      BY <2>3, <2>4
  <1>7. QED
    BY <1>2, <1>6

(* The adapter executes the request: the call is the only one under way,   *)
(* so the adapter holds what it writes.                                    *)
LEMMA SuccessAgreement ==
  ASSUME AInv, NEW c \in Calls, NEW a \in Adapters, AttemptSucceeds(c, a)
  PROVE  OrphansSpoil' /\ DelaysCount' /\ (~overlap' => OneAtATime' /\ Agreement')
  <1>1. /\ UNCHANGED <<call, targets, attempt, result, orphans, overlap>>
        /\ step[c][a] = "trying" /\ Effect(c, a)
        /\ step'[c][a] = "ok"
        /\ \A d \in Calls, b \in Adapters : (d # c \/ b # a) => step'[d][b] = step[d][b]
    BY DEF AttemptSucceeds, callVars, AInv, HInv, IInv, TypeInv, TypeOK
  <1>2. DelaysCount'
    BY <1>1 DEF AInv, DelaysCount
  <1>3. ASSUME NEW r \in orphans PROVE Spoils(r.call, r.adapter)'
    <2>1. r.call \in Calls /\ r.adapter \in Adapters /\ Spoils(r.call, r.adapter)
      BY DEF AInv, HInv, IInv, TypeInv, TypeOK, Request, OrphansSpoil
    <2>2. QED
      BY <1>1, <2>1 DEF Spoils
  <1>4. OrphansSpoil'
    BY <1>1, <1>3 DEF OrphansSpoil
  <1>5. \A d \in Calls : /\ Mutates(d)' <=> Mutates(d)
                         /\ Changing(d)' <=> Changing(d)
                         /\ NewValue(d)' = NewValue(d)
    BY <1>1 DEF Mutates, Writes, Changing, Running, NewValue
  <1>6. \A b \in Adapters : Unspoilt(b)' => Unspoilt(b)
    BY <1>1, <1>5 DEF Unspoilt, Took
  <1>7. ASSUME ~overlap' PROVE OneAtATime' /\ Agreement'
    <2>1. OneAtATime /\ Agreement
      BY <1>1, <1>7 DEF AInv
    <2>2. OneAtATime'
      BY <1>5, <2>1 DEF OneAtATime
    <2>3. a \in targets[c] /\ call[c] # "none"
      BY <1>1 DEF AInv, HInv, IInv, IdleIsBlank, History, Requests, TargetsOnly, Active
    <2>4. CASE ~Mutates(c)
      <3>1. store' = store
        BY <1>1, <2>3, <2>4 DEF Effect, Mutates
      <3>2. \A d \in Calls, b \in Adapters : Executed(d, b)' <=> Executed(d, b)
        BY <1>1, <1>5, <2>4 DEF Executed, Changing
      <3>3. QED
        BY <1>5, <1>6, <2>1, <2>2, <3>1, <3>2, AgreementKept
    <2>5. CASE Mutates(c)
      <3>1. Changing(c)
        <4>1. call[c] # "get" /\ step[c][a] \in Active
          BY <1>1, <2>5 DEF Mutates, Writes, Active
        <4>2. result[c] = "pending"
          BY <4>1 DEF AInv, HInv, History, Requests, EndedIsQuiet
        <4>3. QED
          BY <2>3, <2>5, <4>2 DEF Changing, Running
      <3>2. /\ store'[a] = NewValue(c)
            /\ \A b \in Adapters : b # a => store'[b] = store[b]
        <4>1. store' = [store EXCEPT ![a] = NewValue(c)]
          <5>1. CASE call[c] \in {"set", "batch"}
            BY <1>1, <5>1 DEF Effect, NewValue, Writes
          <5>2. CASE call[c] = "delete"
            BY <1>1, <5>2 DEF Effect, NewValue, Writes
          <5>3. QED
            BY <2>5, <5>1, <5>2 DEF Mutates, Writes
        <4>2. store \in [Adapters -> Values]
          BY DEF AInv, HInv, IInv, TypeInv, TypeOK
        <4>3. QED
          BY <4>1, <4>2
      <3>3. PICK old \in Values : \A b \in Adapters : Unspoilt(b) => Holds(b, old)
        BY <2>1 DEF Agreement
      <3>4. \A d \in Calls : Executed(d, a)' <=> d = c
        BY <1>1, <1>5, <2>1, <3>1 DEF Executed, OneAtATime
      <3>5. Holds(a, old)'
        BY <1>5, <3>2, <3>4 DEF Holds
      <3>6. ASSUME NEW b \in Adapters, b # a, Unspoilt(b)' PROVE Holds(b, old)'
        <4>1. Holds(b, old)
          BY <1>6, <3>3, <3>6
        <4>2. \A d \in Calls : Executed(d, b)' <=> Executed(d, b)
          BY <1>1, <1>5, <3>6 DEF Executed
        <4>3. QED
          BY <1>5, <3>2, <3>6, <4>1, <4>2 DEF Holds
      <3>7. Agreement'
        BY <3>5, <3>6 DEF Agreement, Values
      <3>8. QED
        BY <2>2, <3>7
    <2>6. QED
      BY <2>4, <2>5
  <1>8. QED
    BY <1>2, <1>4, <1>7

(* A request executed after it was abandoned meets a spoilt adapter. *)
LEMMA OrphanAgreement ==
  ASSUME AInv, NEW r \in orphans, OrphanExecutes(r)
  PROVE  OrphansSpoil' /\ DelaysCount' /\ (~overlap' => OneAtATime' /\ Agreement')
  <1>1. /\ UNCHANGED <<call, targets, attempt, result, step, overlap>>
        /\ orphans' \subseteq orphans /\ Effect(r.call, r.adapter)
    BY DEF OrphanExecutes, callVars
  <1>2. OrphansSpoil' /\ DelaysCount'
    BY <1>1 DEF AInv, OrphansSpoil, Spoils, DelaysCount
  <1>3. PICK c \in Calls, a \in Adapters : c = r.call /\ a = r.adapter
    BY DEF AInv, HInv, IInv, TypeInv, TypeOK, Request
  <1>4. ~Unspoilt(a)
    <2>1. Spoils(c, a)
      BY <1>3 DEF AInv, OrphansSpoil
    <2>2. Mutates(c)
      BY <1>3, <2>1 DEF AInv, HInv, History, Requests, OrphansWrite, Mutates, Spoils
    <2>3. QED
      BY <2>1, <2>2 DEF Unspoilt, Took, Spoils
  <1>5. \A b \in Adapters : b # a => store'[b] = store[b]
    BY <1>1, <1>3 DEF Effect, AInv, HInv, IInv, TypeInv, TypeOK
  <1>6. \A d \in Calls : /\ Mutates(d)' <=> Mutates(d)
                         /\ Changing(d)' <=> Changing(d)
                         /\ NewValue(d)' = NewValue(d)
    BY <1>1 DEF Mutates, Writes, Changing, Running, NewValue
  <1>7. /\ \A b \in Adapters : Unspoilt(b)' <=> Unspoilt(b)
        /\ \A d \in Calls, b \in Adapters : Executed(d, b)' <=> Executed(d, b)
    BY <1>1, <1>6 DEF Unspoilt, Took, Executed
  <1>8. ASSUME ~overlap' PROVE OneAtATime' /\ Agreement'
    <2>1. OneAtATime /\ Agreement
      BY <1>1, <1>8 DEF AInv
    <2>2. PICK old \in Values : \A b \in Adapters : Unspoilt(b) => Holds(b, old)
      BY <2>1 DEF Agreement
    <2>3. ASSUME NEW b \in Adapters, Unspoilt(b)' PROVE Holds(b, old)'
      <3>1. Holds(b, old) /\ store'[b] = store[b]
        BY <1>4, <1>5, <1>7, <2>2, <2>3
      <3>2. QED
        BY <1>6, <1>7, <3>1 DEF Holds
    <2>4. Agreement'
      BY <2>3 DEF Agreement, Values
    <2>5. QED
      BY <1>6, <2>1, <2>4 DEF OneAtATime
  <1>9. QED
    BY <1>2, <1>8

LEMMA StillAgreement ==
  ASSUME AInv, UNCHANGED <<store, call, targets, step, attempt, result, orphans, overlap>>
  PROVE  OrphansSpoil' /\ DelaysCount' /\ (~overlap' => OneAtATime' /\ Agreement')
  <1>1. OrphansSpoil' /\ DelaysCount'
    BY DEF AInv, OrphansSpoil, Spoils, DelaysCount
  <1>2. Unexecuted
    BY DEF Unexecuted
  <1>3. QED
    BY <1>1, <1>2, UnexecutedKeeps DEF AInv

-----------------------------------------------------------------------------
LEMMA AgreementPreserved == AInv /\ [Next]_vars => AInv'
  <1> SUFFICES ASSUME AInv, [Next]_vars PROVE AInv'
    OBVIOUS
  <1> DEFINE Goal == OrphansSpoil' /\ DelaysCount' /\ (~overlap' => OneAtATime' /\ Agreement')
  <1>1. HInv'
    BY HistoryPreserved DEF AInv
  <1>2. ASSUME NEW c \in Calls, NEW kind \in Kinds,
               Start(c, kind) \/ StartAborted(c, kind)
        PROVE  Goal
    BY <1>2, StartAgreement
  <1>3. ASSUME NEW c \in Calls, Abort(c) PROVE Goal
    BY <1>3, AbortAgreement
  <1>4. ASSUME NEW c \in Calls, Progress(c) PROVE Goal
    BY <1>4, FinishAgreement, AttemptAgreement, RejectedAgreement, TimeoutAgreement,
       SuccessAgreement
    DEF Progress
  <1>5. ASSUME NEW r \in orphans, OrphanExecutes(r) PROVE Goal
    BY <1>5, OrphanAgreement
  <1>6. ASSUME HealthCheck PROVE Goal
    BY <1>6, StillAgreement DEF HealthCheck, callVars
  <1>7. ASSUME UNCHANGED vars PROVE Goal
    BY <1>7, StillAgreement DEF vars
  <1> HIDE DEF Goal
  <1>8. Goal
    BY <1>2, <1>3, <1>4, <1>5, <1>6, <1>7 DEF Next
  <1>9. QED
    BY <1>1, <1>8 DEF AInv, Goal

(* As long as calls that change stores do not overlap, the adapters that   *)
(* took each of them at the first attempt hold the same value whenever     *)
(* none is under way, for any number of adapters, calls and attempts:      *)
(* requests abandoned by other adapters and late executions do not reach   *)
(* them.                                                                   *)
THEOREM ReplicasAreEqual == Spec => []ReplicasAgree
  <1>1. ASSUME AInv PROVE ReplicasAgree
    <2> SUFFICES ASSUME ~overlap, \A c \in Calls : ~Changing(c),
                        NEW a \in Adapters, NEW b \in Adapters,
                        TookEverything(a), TookEverything(b)
                 PROVE  store[a] = store[b]
      BY DEF ReplicasAgree
    <2>1. PICK old \in Values : \A d \in Adapters : Unspoilt(d) => Holds(d, old)
      BY <1>1 DEF AInv, Agreement
    <2>2. Unspoilt(a) /\ Unspoilt(b)
      BY DEF TookEverything, Unspoilt, Took
    <2>3. Holds(a, old) /\ Holds(b, old)
      BY <2>1, <2>2
    <2>4. store[a] = old /\ store[b] = old
      BY <2>3 DEF Holds, Executed
    <2>5. QED
      BY <2>4
  <1>2. QED
    BY <1>1, InitAgreement, AgreementPreserved, PTL DEF Spec
=============================================================================
