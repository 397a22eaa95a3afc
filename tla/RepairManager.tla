---------------------------- MODULE RepairManager ----------------------------
(***************************************************************************)
(* The RepairManager: a bounded queue of failed operations, and background *)
(* runs that try them again on the adapters that missed them.              *)
(*                                                                         *)
(* setInterval starts a run whether or not the previous one has ended, and *)
(* a run awaits every request it sends, without a timeout.  Runs therefore *)
(* overlap with each other, with new failures that evict queued operations *)
(* and with the cleanup at the end of other runs, and they all hold the    *)
(* same operation objects.                                                 *)
(*                                                                         *)
(* Time passes in ticks; ages and pauses are counted up to the limits the  *)
(* code compares them with.  Operations are recorded by the application:   *)
(* no code of the SDK calls ResilienceManager.recordFailedOperation.       *)
(***************************************************************************)
EXTENDS AdapterHealth, Lists

CONSTANTS
    Ops,            \* operations that may fail
    Missed,         \* per operation: failedAdapters when it is recorded
    None,           \* no operation
    Runs,           \* BOUND: background runs under way at a time
    MaxQueueSize,   \* repair.maxQueueSize
    Eviction,       \* repair.evictionPolicy
    BatchSize,      \* repair.batchSize
    MaxAttempts,    \* repair.maxAttempts
    MaxAge,         \* repair.maxAge, in ticks
    Interval,       \* repair.interval, in ticks
    Unfit           \* <<adapter, operation>>: key or value beyond its limits

ASSUME RepairAssumption ==
    /\ None \notin Ops /\ IsFiniteSet(Runs)
    /\ Missed \in [Ops -> SUBSET Adapters]
    /\ MaxQueueSize \in Nat \ {0}
    /\ Eviction \in {"oldest", "least-attempts", "random"}
    /\ BatchSize \in Nat \ {0} /\ MaxAttempts \in Nat \ {0}
    /\ MaxAge \in Nat /\ Interval \in Nat \ {0}
    /\ Unfit \subseteq Adapters \X Ops

VARIABLES
    health,     \* the records of the HealthTracker
    queue,      \* failedOperations: the operations in insertion order
    recorded,   \* operations that have failed
    age,        \* per operation: ticks since timestamp, up to MaxAge + 1
    rest,       \* ticks since lastRepairAttempt, up to Interval
    attempts,   \* repairAttempts
    failed,     \* failedAdapters
    run,        \* the background runs
    timer,      \* ticks since the interval last came round
    active,     \* the interval is set
    dropped,    \* history: operations an operationDropped event was emitted for
    repairedOn, \* history: adapters a repair of the operation succeeded on
    alone       \* history: runs under way that no other run has overlapped

clocks == <<age, rest, timer>>
vars == <<health, queue, recorded, clocks, attempts, failed, run, active,
          dropped, repairedOn, alone>>

RunState ==
    [phase: {"idle", "between", "executing"}, todo: Seq(Ops),
     op: Ops \cup {None}, on: SUBSET Adapters]
IdleRun == [phase |-> "idle", todo |-> <<>>, op |-> None, on |-> {}]

TypeOK ==
    /\ health   \in [Adapters -> HealthRecord]
    /\ queue    \in Seq(Ops) /\ IsInjective(queue)
    /\ recorded \subseteq Ops
    /\ age      \in [Ops -> 0..(MaxAge + 1)]
    /\ rest     \in [Ops -> 0..Interval]
    /\ timer    \in 0..Interval
    /\ attempts \in [Ops -> Nat]
    /\ failed   \in [Ops -> SUBSET Adapters]
    /\ run      \in [Runs -> RunState]
    /\ active   \in BOOLEAN
    /\ dropped  \subseteq Ops
    /\ repairedOn \in [Ops -> SUBSET Adapters]
    /\ alone    \subseteq Runs

Init ==
    /\ health   = [a \in Adapters |-> InitialHealth]
    /\ queue    = <<>>
    /\ recorded = {}
    /\ age      = [o \in Ops |-> 0]
    /\ rest     = [o \in Ops |-> Interval]
    /\ timer    = 0
    /\ attempts = [o \in Ops |-> 0]
    /\ failed   = Missed
    /\ run      = [r \in Runs |-> IdleRun]
    /\ active   = TRUE
    /\ dropped  = {}
    /\ repairedOn = [o \in Ops |-> {}]
    /\ alone    = {}

Queued == ToSet(queue)
Without(S) == Keep(queue, Ops \ S)

-----------------------------------------------------------------------------
(* Recording a failure, which may evict another one.  Ticks are coarser    *)
(* than timestamps: among operations of the same age any may be the oldest.*)
Evictable ==
    {o \in Queued :
       /\ Eviction = "oldest" => \A p \in Queued : age[o] >= age[p]
       /\ Eviction = "least-attempts" => \A p \in Queued : attempts[o] <= attempts[p]}

RecordFailedOperation(o) ==
    /\ o \notin recorded
    /\ recorded' = recorded \cup {o}
    /\ IF Len(queue) >= MaxQueueSize
       THEN \E e \in Evictable : /\ queue' = Append(Without({e}), o)
                                 /\ dropped' = dropped \cup {e}
       ELSE queue' = Append(queue, o) /\ dropped' = dropped
    /\ UNCHANGED <<health, clocks, attempts, failed, run, active, repairedOn, alone>>

-----------------------------------------------------------------------------
(* A background run.  Between two awaits it is one step.                   *)

(* Mutant: the pause between two attempts is forgotten. *)
EligibleAtOnce(o) == age[o] <= MaxAge /\ attempts[o] < MaxAttempts

ShouldRepairOperation(o) ==
    age[o] <= MaxAge /\ attempts[o] < MaxAttempts /\ rest[o] >= Interval

Batch ==
    LET eligible == Keep(queue, {o \in Ops : ShouldRepairOperation(o)})
    IN  SubSeq(eligible, 1, IF Len(eligible) < BatchSize THEN Len(eligible) ELSE BatchSize)

(* Mutant: operations that are too old stay. *)
CleanupSpentOnly(o) == attempts[o] >= MaxAttempts

ShouldCleanupOperation(o) == age[o] > MaxAge \/ attempts[o] >= MaxAttempts

CleanupOldOperations(r) ==
    LET old == {o \in Queued : ShouldCleanupOperation(o)}
    IN  /\ queue' = Without(old)
        /\ dropped' = dropped \cup old
        /\ run' = [run EXCEPT ![r] = IdleRun]
        /\ UNCHANGED <<rest, attempts>>

Between(r, todo) ==
    run' = [run EXCEPT ![r] = [IdleRun EXCEPT !.phase = "between", !.todo = todo]]

(* Mutant: attempts are counted per adapter instead of per operation. *)
CountPerAdapter(o, valid) == [attempts EXCEPT ![o] = @ + Cardinality(valid)]

CountAttempt(o, valid) == [attempts EXCEPT ![o] = @ + 1]

(* validateRepairOperation: those that answer isAvailable() with yes and   *)
(* whose limits the key and the value keep.                                *)
ValidCandidates(available, o) == {a \in available : <<a, o>> \notin Unfit}

(* attemptRepair up to its first request.  available: the candidates whose *)
(* isAvailable() answers yes.                                              *)
BeginRepair(r, o, todo) ==
    LET candidates == HealthyAdapters(health) \cap failed[o]
    IN  \E available \in SUBSET candidates :
          LET valid == ValidCandidates(available, o)
          IN  \/ /\ candidates = {}
                 /\ Between(r, todo)
                 /\ UNCHANGED <<queue, dropped, rest, attempts>>
              \/ /\ candidates # {} /\ valid = {}
                 /\ queue' = Without({o})
                 /\ dropped' = dropped \cup {o}
                 /\ Between(r, todo)
                 /\ UNCHANGED <<rest, attempts>>
              \/ /\ valid # {}
                 /\ attempts' = CountAttempt(o, valid)
                 /\ rest' = [rest EXCEPT ![o] = 0]
                 /\ run' = [run EXCEPT ![r] = [phase |-> "executing", todo |-> todo,
                                              op |-> o, on |-> valid]]
                 /\ UNCHANGED <<queue, dropped>>

Proceed(r, todo) ==
    IF todo = <<>> THEN CleanupOldOperations(r)
                   ELSE BeginRepair(r, Head(todo), Tail(todo))

NoteAlone ==
    alone' = {r \in Runs :
                /\ run'[r].phase # "idle" /\ (run[r].phase = "idle" \/ r \in alone)
                /\ \A q \in Runs \ {r} : run[q].phase = "idle" /\ run'[q].phase = "idle"}

StartRun(r) ==
    /\ active /\ timer = Interval /\ run[r].phase = "idle"
    /\ timer' = 0
    /\ Proceed(r, Batch) /\ NoteAlone
    /\ UNCHANGED <<health, recorded, age, failed, active, repairedOn>>

ContinueRun(r) ==
    /\ run[r].phase = "between"
    /\ Proceed(r, run[r].todo) /\ NoteAlone
    /\ UNCHANGED <<health, recorded, age, timer, failed, active, repairedOn>>

(* Mutant: an attempt that has ended takes the operation off the queue. *)
QueueWithoutAttempted(o, left) == Without({o})

(* failedOperations after an attempt that leaves these adapters.  Map.set  *)
(* keeps the place of an entry and appends one that has gone meanwhile.    *)
QueueAfterAttempt(o, left) ==
    IF left = {} THEN Without({o}) ELSE IF o \in Queued THEN queue ELSE Append(queue, o)

(* The request to adapter a is answered; left: the adapters still missing. *)
RequestAnswered(r, a, left) ==
    /\ run[r].phase = "executing"
    /\ a \in run[r].on /\ \A b \in run[r].on : a <= b
    /\ failed' = [failed EXCEPT ![run[r].op] = left]
    /\ IF run[r].on = {a}
       THEN /\ queue' = QueueAfterAttempt(run[r].op, left)
            /\ Between(r, run[r].todo)
       ELSE /\ queue' = queue
            /\ run' = [run EXCEPT ![r].on = @ \ {a}]
    /\ UNCHANGED <<recorded, clocks, attempts, active, dropped, alone>>

RepairSucceeds(r, a) ==
    /\ RequestAnswered(r, a, failed[run[r].op] \ {a})
    /\ repairedOn' = [repairedOn EXCEPT ![run[r].op] = @ \cup {a}]
    /\ UNCHANGED health

(* A failed repair is told to the tracker, not to the circuit breaker. *)
RepairFails(r, a) ==
    /\ RequestAnswered(r, a, failed[run[r].op])
    /\ health' = [health EXCEPT ![a] = TrackFailure(@)]
    /\ UNCHANGED repairedOn

-----------------------------------------------------------------------------
Initialize ==
    /\ ~active
    /\ active' = TRUE /\ timer' = 0
    /\ UNCHANGED <<health, queue, recorded, age, rest, attempts, failed, run,
                   dropped, repairedOn, alone>>

(* The interval is cleared; runs under way go on. *)
Shutdown ==
    /\ active
    /\ active' = FALSE /\ timer' = 0
    /\ UNCHANGED <<health, queue, recorded, age, rest, attempts, failed, run,
                   dropped, repairedOn, alone>>

(* Operations and health checks elsewhere change the health records. *)
HealthChanges(a) ==
    /\ \E h \in {RecordSuccess(health[a]), RecordFailure(health[a]),
                  CheckPassed(health[a]), CheckFailed(health[a])} :
          health' = [health EXCEPT ![a] = h]
    /\ UNCHANGED <<queue, recorded, clocks, attempts, failed, run, active,
                   dropped, repairedOn, alone>>

(* Time does not pass over an interval that is due while a run can start. *)
Tick ==
    /\ active /\ timer = Interval => \A r \in Runs : run[r].phase # "idle"
    /\ age' = [o \in Ops |-> IF o \in recorded /\ age[o] <= MaxAge
                             THEN age[o] + 1 ELSE age[o]]
    /\ rest' = [o \in Ops |-> IF rest[o] < Interval THEN rest[o] + 1 ELSE Interval]
    /\ timer' = IF active /\ timer < Interval THEN timer + 1 ELSE timer
    /\ UNCHANGED <<health, queue, recorded, attempts, failed, run, active,
                   dropped, repairedOn, alone>>

Progress(r) ==
    \/ StartRun(r)
    \/ ContinueRun(r)
    \/ \E a \in Adapters : RepairSucceeds(r, a) \/ RepairFails(r, a)

Next ==
    \/ \E o \in Ops : RecordFailedOperation(o)
    \/ \E r \in Runs : Progress(r)
    \/ \E a \in Adapters : HealthChanges(a)
    \/ Initialize \/ Shutdown \/ Tick

Spec == Init /\ [][Next]_vars

(* The interval fires and the adapters answer.  The code puts no timeout   *)
(* on a repair request: that the adapters answer is assumed of them.       *)
FairSpec == Spec /\ WF_vars(Tick) /\ \A r \in Runs : WF_vars(Progress(r))

-----------------------------------------------------------------------------
(* Every failed operation is accounted for: it is queued, or an            *)
(* operationDropped event told the application, or every adapter that      *)
(* missed it has executed it.                                              *)
Accounted ==
    \A o \in recorded :
        o \in Queued \/ o \in dropped \/ Missed[o] \subseteq repairedOn[o]

(* No failed operation disappears, whatever runs, evictions and cleanups   *)
(* overlap, and the queue holds an operation once (repair-manager.ts).     *)
NothingLost == TypeOK /\ Accounted

(* An operation is tried at most maxAttempts times, and once more for each *)
(* other run that may be under way: the limit is compared when a run makes *)
(* its list and the attempt is counted later, after awaits.                *)
AttemptsBounded ==
    \A o \in Ops : attempts[o] <= MaxAttempts + Cardinality(Runs) - 1

(* The attempts of an operation are an interval apart as long as runs do   *)
(* not overlap: what a run has on its list rests until the run tries it.   *)
SpacedAlone ==
    [][\A r \in Runs, o \in Ops :
         (r \in alone' /\ run'[r] # run[r] /\ attempts'[o] > attempts[o])
            => rest[o] = Interval]_vars
=============================================================================
