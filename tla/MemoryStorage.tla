---------------------------- MODULE MemoryStorage ----------------------------
(***************************************************************************)
(* The MemoryStorageAdapter.  get, has, set, delete, getStats and clear()  *)
(* without a prefix run without giving up the event loop and are one step  *)
(* each.  batch and clear(prefix) await after every operation: other calls *)
(* run in between, and an operation that throws ends them half way.        *)
(*                                                                         *)
(* Whether the time of an item is over is all that is kept of its expiry;  *)
(* an entry without a value stands for a key the map does not hold.        *)
(***************************************************************************)
EXTENDS Integers, Lists

CONSTANTS
    Keys,           \* the keys in use, finitely many
    Values, None,
    Size,           \* size of each value; nothing for None
    MaxSize,        \* maxSize, the quota
    BadKeys,        \* keys the validator rejects
    BadValues,      \* values the validator rejects
    Prefixed,       \* keys that start with the prefix given to clear
    Batches,        \* BOUND: the operation lists given to batch
    Callers         \* BOUND: batch and clear calls under way at a time

BatchOperation == [type: {"set", "delete"}, key: Keys, value: Values]

ASSUME MemoryAssumption ==
    /\ IsFiniteSet(Keys) /\ None \notin Values
    /\ Size \in [Values \cup {None} -> Nat] /\ Size[None] = 0
    /\ MaxSize \in Nat
    /\ BadKeys \subseteq Keys /\ BadValues \subseteq Values
    /\ Prefixed \subseteq Keys
    /\ Batches \subseteq Seq(BatchOperation)

VARIABLES
    storage,      \* the map
    totalSize,
    initialized, closed,
    interval,     \* cleanupInterval is set
    answer,       \* what get answered last
    job,          \* what a batch or clear call has still to do
    done          \* operations a batch has executed

memoryVars == <<storage, totalSize, initialized, closed, interval, answer, job, done>>
lifecycle == <<initialized, closed, interval>>

Item   == [value: Values \cup {None}, expiry: {"never", "pending", "over"}]
NoItem == [value |-> None, expiry |-> "never"]
Idle   == [kind |-> "none", ops |-> <<>>, keys |-> {}]
Failed == [Idle EXCEPT !.kind = "failed"]
Job == [kind: {"none", "failed", "batch", "clear"}, ops: Seq(BatchOperation),
        keys: SUBSET Keys]

MemoryTypeOK ==
    /\ storage     \in [Keys -> Item]
    /\ totalSize   \in Nat
    /\ initialized \in BOOLEAN /\ closed \in BOOLEAN /\ interval \in BOOLEAN
    /\ answer      \in Values \cup {None}
    /\ job         \in [Callers -> Job]
    /\ done        \in [Callers -> Nat]

MemoryInit ==
    /\ storage     = [k \in Keys |-> NoItem]
    /\ totalSize   = 0
    /\ initialized = FALSE /\ closed = FALSE /\ interval = FALSE
    /\ answer      = None
    /\ job         = [p \in Callers |-> Idle]
    /\ done        = [p \in Callers |-> 0]

Ready    == initialized /\ ~closed
Holds(k) == storage[k].value # None
SizeOf(k) == Size[storage[k].value]
Expired(k) == storage[k].expiry = "over"
Sizes == [k \in Keys |-> SizeOf(k)]
SumOfSizes(S) == Total(Sizes, S)

-----------------------------------------------------------------------------
(* The effects of set and delete on the map, when they do not throw. *)

MaySet(k, v) ==
    /\ Ready
    /\ k \notin BadKeys /\ v \notin BadValues
    /\ totalSize + Size[v] - SizeOf(k) <= MaxSize

(* Mutant: the size of the replaced value is not given back. *)
StoreForgetsOld(k, v, expiry) ==
    /\ storage' = [storage EXCEPT ![k] = [value |-> v, expiry |-> expiry]]
    /\ totalSize' = totalSize + Size[v]

Store(k, v, expiry) ==
    /\ storage' = [storage EXCEPT ![k] = [value |-> v, expiry |-> expiry]]
    /\ totalSize' = totalSize + Size[v] - SizeOf(k)

Drop(S) ==
    /\ storage' = [k \in Keys |-> IF k \in S THEN NoItem ELSE storage[k]]
    /\ totalSize' = totalSize - SumOfSizes(S)

Set(k, v, expiry) ==
    /\ MaySet(k, v)
    /\ Store(k, v, expiry)
    /\ UNCHANGED <<lifecycle, answer, job, done>>

Delete(k) ==
    /\ Ready /\ k \notin BadKeys
    /\ Drop({k})
    /\ UNCHANGED <<lifecycle, answer, job, done>>

(* Mutant: a lookup does not look at the expiry. *)
GetIgnoresExpiry(k) ==
    /\ Ready /\ k \notin BadKeys
    /\ answer' = storage[k].value
    /\ UNCHANGED <<storage, totalSize, lifecycle, job, done>>

(* get and has: an expired item is removed by the lookup that meets it. *)
Get(k) ==
    /\ Ready /\ k \notin BadKeys
    /\ answer' = IF Expired(k) THEN None ELSE storage[k].value
    /\ Drop(IF Expired(k) THEN {k} ELSE {})
    /\ UNCHANGED <<lifecycle, job, done>>

ClearAll ==
    /\ Ready
    /\ storage' = [k \in Keys |-> NoItem]
    /\ totalSize' = 0
    /\ UNCHANGED <<lifecycle, answer, job, done>>

(* The interval of the cleanup, and getStats, which cleans up as well. *)
CleanupExpired ==
    /\ interval \/ Ready
    /\ Drop({k \in Keys : Expired(k)})
    /\ UNCHANGED <<lifecycle, answer, job, done>>

-----------------------------------------------------------------------------
(* batch *)

SizeChange(op) ==
    (IF op.type = "set" THEN Size[op.value] ELSE 0) - SizeOf(op.key)

(* Computed from the map as it is, also for keys that occur twice. *)
BatchFits(ops) ==
    totalSize + FoldFunction(+, 0, [i \in DOMAIN ops |-> SizeChange(ops[i])]) <= MaxSize

(* The next operation of a batch, or its end. *)
BatchStep(p, ops, n) ==
    \/ /\ ops = <<>>
       /\ job' = [job EXCEPT ![p] = Idle]
       /\ done' = [done EXCEPT ![p] = 0]
       /\ UNCHANGED <<storage, totalSize>>
    \/ /\ ops # <<>> /\ Head(ops).type = "set"
       /\ MaySet(Head(ops).key, Head(ops).value)
       /\ Store(Head(ops).key, Head(ops).value, "never")
       /\ job' = [job EXCEPT ![p] = [Idle EXCEPT !.kind = "batch", !.ops = Tail(ops)]]
       /\ done' = [done EXCEPT ![p] = n + 1]
    \/ /\ ops # <<>> /\ Head(ops).type = "delete"
       /\ Ready /\ Head(ops).key \notin BadKeys
       /\ Drop({Head(ops).key})
       /\ job' = [job EXCEPT ![p] = [Idle EXCEPT !.kind = "batch", !.ops = Tail(ops)]]
       /\ done' = [done EXCEPT ![p] = n + 1]
    \/ /\ ops # <<>>
       /\ ~Ready \/ Head(ops).key \in BadKeys
             \/ (Head(ops).type = "set" /\ ~MaySet(Head(ops).key, Head(ops).value))
       /\ job' = [job EXCEPT ![p] = Failed]
       /\ done' = [done EXCEPT ![p] = n]
       /\ UNCHANGED <<storage, totalSize>>

Batch(p, ops) ==
    /\ job[p].kind \in {"none", "failed"}
    /\ Ready /\ BatchFits(ops)
    /\ BatchStep(p, ops, 0)
    /\ UNCHANGED <<lifecycle, answer>>

(* Mutant: a batch that passed its checks goes on whatever happened. *)
ResumeBatchBlindly(p) ==
    /\ job[p].kind = "batch" /\ job[p].ops # <<>>
    /\ Head(job[p].ops).type = "set"
    /\ Store(Head(job[p].ops).key, Head(job[p].ops).value, "never")
    /\ job' = [job EXCEPT ![p].ops = Tail(@)]
    /\ done' = [done EXCEPT ![p] = @ + 1]
    /\ UNCHANGED <<lifecycle, answer>>

ResumeBatch(p) ==
    /\ job[p].kind = "batch"
    /\ BatchStep(p, job[p].ops, done[p])
    /\ UNCHANGED <<lifecycle, answer>>

-----------------------------------------------------------------------------
(* clear(prefix): the keys are listed first and deleted one by one. *)
Clear(p) ==
    /\ job[p].kind \in {"none", "failed"} /\ Ready
    /\ job' = [job EXCEPT ![p] = [Idle EXCEPT !.kind = "clear",
                                  !.keys = {k \in Prefixed : Holds(k)}]]
    /\ done' = [done EXCEPT ![p] = 0]
    /\ UNCHANGED <<storage, totalSize, lifecycle, answer>>

ResumeClear(p) ==
    /\ job[p].kind = "clear"
    /\ \/ /\ Ready
          /\ \E k \in job[p].keys :
                Drop({k}) /\ job' = [job EXCEPT ![p].keys = @ \ {k}]
       \/ /\ job[p].keys = {} \/ ~Ready
          /\ job' = [job EXCEPT ![p] = IF @.keys = {} THEN Idle ELSE Failed]
          /\ UNCHANGED <<storage, totalSize>>
    /\ UNCHANGED <<lifecycle, answer, done>>

-----------------------------------------------------------------------------
(* Mutant: the interval is not started. *)
InitializeWithoutInterval ==
    /\ ~initialized
    /\ initialized' = TRUE /\ interval' = FALSE
    /\ UNCHANGED <<storage, totalSize, closed, answer, job, done>>

Initialize ==
    /\ ~initialized
    /\ initialized' = TRUE /\ interval' = TRUE
    /\ UNCHANGED <<storage, totalSize, closed, answer, job, done>>

Close ==
    /\ closed' = TRUE /\ interval' = FALSE
    /\ storage' = [k \in Keys |-> NoItem]
    /\ totalSize' = 0
    /\ UNCHANGED <<initialized, answer, job, done>>

TimePasses(k) ==
    /\ storage[k].expiry = "pending"
    /\ storage' = [storage EXCEPT ![k].expiry = "over"]
    /\ UNCHANGED <<totalSize, lifecycle, answer, job, done>>

MemoryNext ==
    \/ \E k \in Keys :
         \/ \E v \in Values, expiry \in {"never", "pending"} : Set(k, v, expiry)
         \/ Delete(k)
         \/ Get(k)
         \/ TimePasses(k)
    \/ ClearAll
    \/ CleanupExpired
    \/ \E p \in Callers :
         \/ \E ops \in Batches : Batch(p, ops)
         \/ ResumeBatch(p)
         \/ Clear(p)
         \/ ResumeClear(p)
    \/ Initialize
    \/ Close

MemorySpec == MemoryInit /\ [][MemoryNext]_memoryVars

(* The interval of the cleanup keeps firing while it is set. *)
MemoryFairSpec == MemorySpec /\ WF_memoryVars(interval /\ CleanupExpired)

-----------------------------------------------------------------------------
(* totalSize is the sum of the sizes of what is stored, also in the middle *)
(* of a batch that other calls interleave with and after one that failed.  *)
SizeAccounted == totalSize = SumOfSizes(Keys)

(* The quota holds at every moment, between the operations of overlapping  *)
(* batches too, each of which checked its total on an older map.           *)
WithinQuota == totalSize <= MaxSize

(* What a batch reads of the sizes before it awaits, and every call before *)
(* it stores, it may rely on: they are accounted and within the quota.     *)
QuotaKept == MemoryTypeOK /\ SizeAccounted /\ WithinQuota

(* Once closed the adapter holds nothing, although batches it was closed   *)
(* under go on.                                                            *)
ClosedHoldsNothing == closed => \A k \in Keys : ~Holds(k)

(* An item whose time is over is removed from memory in the end, without   *)
(* anybody asking for it.                                                  *)
ExpiredGoes == \A k \in Keys : Expired(k) ~> ~Expired(k)

(* A batch that throws has executed none of its operations                 *)
(* (storage-adapter.ts:169, "Performs multiple storage operations          *)
(* atomically (if supported)"; the adapter reports supportsTransactions).  *)
FailedBatchDidNothing ==
    \A p \in Callers : job[p].kind = "failed" => done[p] = 0

(* The adapter implements the map of KeyValueStore: a key whose item is    *)
(* over has no value, and cleaning up changes nothing a caller can see.    *)
KV == INSTANCE KeyValueStore WITH
        kv <- [k \in Keys |-> IF Expired(k) THEN None ELSE storage[k].value]

ImplementsStore == KV!KVSpec
=============================================================================
