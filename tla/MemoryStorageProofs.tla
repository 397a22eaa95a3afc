------------------------- MODULE MemoryStorageProofs -------------------------
(***************************************************************************)
(* Theorems about MemoryStorage, for all keys, values, sizes, quotas and   *)
(* batches: the adapter implements the map of KeyValueStore, counts the    *)
(* sizes of what it holds right, and stays within the quota.               *)
(***************************************************************************)
EXTENDS MemoryStorage, ListsProofs

(* The abstract value under a key. *)
Abs(k) == IF Expired(k) THEN None ELSE storage[k].value

(* What the refinement needs of the concrete state: well formed items and  *)
(* batches, and nothing stored once closed.                                *)
StoreInv ==
    /\ storage \in [Keys -> Item]
    /\ job \in [Callers -> Job]

IInv == StoreInv /\ ClosedHoldsNothing

-----------------------------------------------------------------------------
LEMMA StoreRefines ==
  ASSUME IInv, NEW k \in Keys, NEW v \in Values,
         NEW expiry \in {"never", "pending"},
         ~closed, Store(k, v, expiry), UNCHANGED <<closed, answer>>
  PROVE  KV!Put(k, v) /\ storage' \in [Keys -> Item] /\ ClosedHoldsNothing'
  <1>1. storage' = [storage EXCEPT ![k] = [value |-> v, expiry |-> expiry]]
    BY DEF Store
  <1>2. storage' \in [Keys -> Item]
    BY <1>1 DEF IInv, StoreInv, Item
  <1>3. \A j \in Keys : (IF Expired(j) THEN None ELSE storage[j].value)'
                          = IF j = k THEN v ELSE Abs(j)
    BY <1>1 DEF IInv, StoreInv, Expired, Abs
  <1>4. KV!Put(k, v)
    BY <1>3 DEF KV!Put, Abs
  <1>5. QED
    BY <1>2, <1>4 DEF ClosedHoldsNothing

LEMMA DropRefines ==
  ASSUME IInv, NEW S, Drop(S), UNCHANGED closed
  PROVE  /\ storage' \in [Keys -> Item]
         /\ ClosedHoldsNothing'
         /\ \A j \in Keys : Abs(j)' = IF j \in S THEN None ELSE Abs(j)
  <1>1. storage' = [k \in Keys |-> IF k \in S THEN NoItem ELSE storage[k]]
    BY DEF Drop
  <1>2. NoItem \in Item
    BY DEF NoItem, Item
  <1>3. storage' \in [Keys -> Item]
    BY <1>1, <1>2 DEF IInv, StoreInv
  <1>4. \A j \in Keys : Abs(j)' = IF j \in S THEN None ELSE Abs(j)
    BY <1>1 DEF Abs, Expired, NoItem
  <1>5. ClosedHoldsNothing'
    BY <1>1 DEF IInv, ClosedHoldsNothing, Holds, NoItem
  <1>6. QED
    BY <1>3, <1>4, <1>5

(* Removing keys from the map: the abstract Remove. *)
LEMMA RemoveRefines ==
  ASSUME IInv, NEW S \in SUBSET Keys, Drop(S), UNCHANGED <<closed, answer>>
  PROVE  KV!Remove(S)
  BY DropRefines DEF KV!Remove, Abs

(* Steps that leave the map, closed and the answer alone stutter. *)
LEMMA StutterRefines ==
  ASSUME UNCHANGED <<storage, closed, answer>>
  PROVE  UNCHANGED KV!kvars
  BY DEF KV!kvars, Expired

(* Jobs the actions put in place. *)
LEMMA JobsOK ==
  /\ Idle \in Job /\ Failed \in Job
  /\ \A ops \in Seq(BatchOperation) :
        [Idle EXCEPT !.kind = "batch", !.ops = ops] \in Job
  /\ \A S \in SUBSET Keys : [Idle EXCEPT !.kind = "clear", !.keys = S] \in Job
  <1> DEFINE Ops == Seq(BatchOperation)
  <1>0. <<>> \in Ops
    OBVIOUS
  <1> HIDE DEF Ops
  <1>1. Idle \in Job
    <2>1. Job = [kind: {"none", "failed", "batch", "clear"}, ops: Ops, keys: SUBSET Keys]
      BY DEF Job, Ops
    <2>2. QED
      BY <1>0, <2>1 DEF Idle
  <1>2. Failed \in Job
    BY <1>1 DEF Failed, Job
  <1>3. ASSUME NEW ops \in Seq(BatchOperation)
        PROVE  [Idle EXCEPT !.kind = "batch", !.ops = ops] \in Job
    BY DEF Idle, Job
  <1>4. ASSUME NEW S \in SUBSET Keys
        PROVE  [Idle EXCEPT !.kind = "clear", !.keys = S] \in Job
    BY <1>1 DEF Job
  <1>5. QED
    BY <1>1, <1>2, <1>3, <1>4

(* One step of a batch is a Put, a Remove or a stutter. *)
LEMMA BatchStepRefines ==
  ASSUME IInv, NEW p \in Callers, NEW ops \in Seq(BatchOperation), NEW n,
         BatchStep(p, ops, n), UNCHANGED <<lifecycle, answer>>
  PROVE  IInv' /\ [KV!KVNext]_KV!kvars
  <1>0. UNCHANGED <<closed, answer>>
    BY DEF lifecycle
  <1>1. CASE UNCHANGED storage
    <2>1. job' = [job EXCEPT ![p] = Idle] \/ job' = [job EXCEPT ![p] = Failed]
            \/ (ops # <<>> /\ job' = [job EXCEPT ![p] =
                    [Idle EXCEPT !.kind = "batch", !.ops = Tail(ops)]])
      BY DEF BatchStep
    <2>2. ops # <<>> => Tail(ops) \in Seq(BatchOperation)
      OBVIOUS
    <2>3. job' \in [Callers -> Job]
      BY <2>1, <2>2, JobsOK DEF IInv, StoreInv
    <2>4. QED
      BY <1>0, <1>1, <2>3, StutterRefines
      DEF IInv, StoreInv, ClosedHoldsNothing, Holds
  <1>2. CASE /\ ops # <<>> /\ Head(ops).type = "set"
             /\ MaySet(Head(ops).key, Head(ops).value)
             /\ Store(Head(ops).key, Head(ops).value, "never")
             /\ job' = [job EXCEPT ![p] =
                          [Idle EXCEPT !.kind = "batch", !.ops = Tail(ops)]]
    <2>1. Head(ops) \in BatchOperation /\ Tail(ops) \in Seq(BatchOperation)
      BY <1>2
    <2>2. Head(ops).key \in Keys /\ Head(ops).value \in Values
      BY <2>1 DEF BatchOperation
    <2>3. ~closed
      BY <1>2 DEF MaySet, Ready
    <2>4. /\ KV!Put(Head(ops).key, Head(ops).value)
          /\ storage' \in [Keys -> Item] /\ ClosedHoldsNothing'
      BY <1>0, <1>2, <2>2, <2>3, StoreRefines
    <2>5. job' \in [Callers -> Job]
      BY <1>2, <2>1, JobsOK DEF IInv, StoreInv
    <2>6. QED
      BY <2>2, <2>4, <2>5 DEF IInv, StoreInv, KV!KVNext
  <1>3. CASE /\ ops # <<>> /\ Drop({Head(ops).key})
             /\ job' = [job EXCEPT ![p] =
                          [Idle EXCEPT !.kind = "batch", !.ops = Tail(ops)]]
    <2>1. Head(ops) \in BatchOperation /\ Tail(ops) \in Seq(BatchOperation)
      BY <1>3
    <2>2. {Head(ops).key} \in SUBSET Keys
      BY <2>1 DEF BatchOperation
    <2>3. KV!Remove({Head(ops).key})
      BY <1>0, <1>3, <2>2, RemoveRefines
    <2>4. storage' \in [Keys -> Item] /\ ClosedHoldsNothing'
      BY <1>0, <1>3, DropRefines
    <2>5. job' \in [Callers -> Job]
      BY <1>3, <2>1, JobsOK DEF IInv, StoreInv
    <2>6. QED
      BY <2>2, <2>3, <2>4, <2>5 DEF IInv, StoreInv, KV!KVNext
  <1>4. QED
    BY <1>1, <1>2, <1>3 DEF BatchStep

-----------------------------------------------------------------------------
LEMMA InitRefines == MemoryInit => IInv /\ KV!KVInit
  <1> SUFFICES ASSUME MemoryInit PROVE IInv /\ KV!KVInit
    OBVIOUS
  <1>1. IInv
    BY JobsOK DEF MemoryInit, IInv, StoreInv, NoItem, Item, ClosedHoldsNothing
  <1>2. KV!KVInit
    BY DEF MemoryInit, KV!KVInit, Expired, NoItem
  <1>3. QED
    BY <1>1, <1>2

(* A step that empties the map. *)
LEMMA EmptyMap ==
  ASSUME storage' = [k \in Keys |-> NoItem]
  PROVE  /\ storage' \in [Keys -> Item]
         /\ \A k \in Keys : ~Holds(k)' /\ Abs(k)' = None
  BY DEF NoItem, Item, Holds, Abs, Expired

LEMMA NextRefines ==
  ASSUME IInv, [MemoryNext]_memoryVars
  PROVE  IInv' /\ [KV!KVNext]_KV!kvars
  <1>1. ASSUME NEW k \in Keys, NEW v \in Values, NEW e \in {"never", "pending"},
               Set(k, v, e)
        PROVE  IInv' /\ [KV!KVNext]_KV!kvars
    <2>1. ~closed /\ Store(k, v, e) /\ UNCHANGED <<closed, answer, job>>
      BY <1>1 DEF Set, MaySet, Ready, lifecycle
    <2>2. KV!Put(k, v) /\ storage' \in [Keys -> Item] /\ ClosedHoldsNothing'
      BY <2>1, StoreRefines
    <2>3. QED
      BY <2>1, <2>2 DEF IInv, StoreInv, KV!KVNext
  <1>2. ASSUME NEW S \in SUBSET Keys, Drop(S), UNCHANGED <<closed, answer>>,
               job' \in [Callers -> Job]
        PROVE  IInv' /\ [KV!KVNext]_KV!kvars
    <2>1. KV!Remove(S)
      BY <1>2, RemoveRefines
    <2>2. storage' \in [Keys -> Item] /\ ClosedHoldsNothing'
      BY <1>2, DropRefines
    <2>3. QED
      BY <1>2, <2>1, <2>2 DEF IInv, StoreInv, KV!KVNext
  <1>3. ASSUME NEW k \in Keys, Delete(k) PROVE IInv' /\ [KV!KVNext]_KV!kvars
    BY <1>2, <1>3 DEF Delete, lifecycle, IInv, StoreInv
  <1>4. ASSUME NEW k \in Keys, Get(k) PROVE IInv' /\ [KV!KVNext]_KV!kvars
    <2>1. /\ ~closed /\ UNCHANGED <<closed, job>>
          /\ answer' = Abs(k)
          /\ Drop(IF Expired(k) THEN {k} ELSE {})
      BY <1>4 DEF Get, Ready, lifecycle, Abs
    <2>2. /\ storage' \in [Keys -> Item] /\ ClosedHoldsNothing'
          /\ \A j \in Keys : Abs(j)' = Abs(j)
      BY <2>1, DropRefines DEF Abs
    <2>3. KV!Lookup(k)
      BY <2>1, <2>2 DEF KV!Lookup, Abs
    <2>4. QED
      BY <2>1, <2>2, <2>3 DEF IInv, StoreInv, KV!KVNext
  <1>5. ASSUME NEW k \in Keys, TimePasses(k) PROVE IInv' /\ [KV!KVNext]_KV!kvars
    <2>1. /\ storage' = [storage EXCEPT ![k].expiry = "over"]
          /\ UNCHANGED <<closed, answer, job>>
      BY <1>5 DEF TimePasses, lifecycle
    <2>2. storage' \in [Keys -> Item]
      BY <2>1 DEF IInv, StoreInv, Item
    <2>3. \A j \in Keys : Abs(j)' = IF j \in {k} THEN None ELSE Abs(j)
      BY <2>1 DEF IInv, StoreInv, Abs, Expired, Item
    <2>4. KV!Remove({k})
      BY <2>1, <2>3 DEF KV!Remove, Abs
    <2>5. ClosedHoldsNothing'
      BY <2>1 DEF IInv, StoreInv, Item, ClosedHoldsNothing, Holds
    <2>6. QED
      BY <2>1, <2>2, <2>4, <2>5 DEF IInv, StoreInv, KV!KVNext
  <1>6. CASE ClearAll
    <2>1. UNCHANGED <<closed, answer, job>> /\ storage' = [k \in Keys |-> NoItem]
      BY <1>6 DEF ClearAll, lifecycle
    <2>2. KV!Remove(Keys)
      BY <2>1, EmptyMap DEF KV!Remove, Abs
    <2>3. QED
      BY <2>1, <2>2, EmptyMap DEF IInv, StoreInv, ClosedHoldsNothing, KV!KVNext
  <1>7. CASE CleanupExpired
    <2>1. {k \in Keys : Expired(k)} \in SUBSET Keys
      OBVIOUS
    <2>2. QED
      BY <1>2, <1>7, <2>1 DEF CleanupExpired, lifecycle, IInv, StoreInv
  <1>8. ASSUME NEW p \in Callers, NEW ops \in Batches, Batch(p, ops)
        PROVE  IInv' /\ [KV!KVNext]_KV!kvars
    BY <1>8, MemoryAssumption, BatchStepRefines DEF Batch
  <1>9. ASSUME NEW p \in Callers, ResumeBatch(p)
        PROVE  IInv' /\ [KV!KVNext]_KV!kvars
    <2>1. job[p].ops \in Seq(BatchOperation)
      BY DEF IInv, StoreInv, Job
    <2>2. QED
      BY <1>9, <2>1, BatchStepRefines DEF ResumeBatch
  <1>10. ASSUME NEW p \in Callers, Clear(p) PROVE IInv' /\ [KV!KVNext]_KV!kvars
    <2>1. /\ UNCHANGED <<storage, closed, answer>>
          /\ job' = [job EXCEPT ![p] = [Idle EXCEPT !.kind = "clear",
                                        !.keys = {k \in Prefixed : Holds(k)}]]
      BY <1>10 DEF Clear, lifecycle
    <2>2. {k \in Prefixed : Holds(k)} \in SUBSET Keys
      BY MemoryAssumption
    <2>3. job' \in [Callers -> Job]
      BY <2>1, <2>2, JobsOK DEF IInv, StoreInv
    <2>4. QED
      BY <2>1, <2>3, StutterRefines DEF IInv, StoreInv, ClosedHoldsNothing, Holds
  <1>11. ASSUME NEW p \in Callers, ResumeClear(p)
         PROVE  IInv' /\ [KV!KVNext]_KV!kvars
    <2>1. UNCHANGED <<closed, answer>>
      BY <1>11 DEF ResumeClear, lifecycle
    <2>2. CASE \E k \in job[p].keys :
                  Drop({k}) /\ job' = [job EXCEPT ![p].keys = @ \ {k}]
      <3>1. PICK k \in job[p].keys :
                  Drop({k}) /\ job' = [job EXCEPT ![p].keys = @ \ {k}]
        BY <2>2
      <3>2. {k} \in SUBSET Keys /\ job' \in [Callers -> Job]
        BY <3>1 DEF IInv, StoreInv, Job
      <3>3. QED
        BY <1>2, <2>1, <3>1, <3>2
    <2>3. CASE /\ job' = [job EXCEPT ![p] = IF @.keys = {} THEN Idle ELSE Failed]
               /\ UNCHANGED storage
      <3>1. job' \in [Callers -> Job]
        BY <2>3, JobsOK DEF IInv, StoreInv
      <3>2. QED
        BY <2>1, <2>3, <3>1, StutterRefines
        DEF IInv, StoreInv, ClosedHoldsNothing, Holds
    <2>4. QED
      BY <1>11, <2>2, <2>3 DEF ResumeClear
  <1>12. CASE Initialize
    BY <1>12, StutterRefines DEF Initialize, IInv, StoreInv, ClosedHoldsNothing, Holds
  <1>13. CASE Close
    <2>1. /\ closed' = TRUE /\ storage' = [k \in Keys |-> NoItem]
          /\ UNCHANGED <<answer, job>>
      BY <1>13 DEF Close
    <2>2. KV!Close
      BY <2>1, EmptyMap DEF KV!Close, Abs
    <2>3. QED
      BY <2>1, <2>2, EmptyMap DEF IInv, StoreInv, ClosedHoldsNothing, KV!KVNext
  <1>14. CASE UNCHANGED memoryVars
    BY <1>14, StutterRefines DEF memoryVars, IInv, StoreInv, ClosedHoldsNothing, Holds
  <1>15. QED
    BY <1>1, <1>3, <1>4, <1>5, <1>6, <1>7, <1>8, <1>9, <1>10, <1>11, <1>12, <1>13,
       <1>14 DEF MemoryNext

THEOREM Invariance == MemorySpec => []IInv
  BY InitRefines, NextRefines, PTL DEF MemorySpec

(* A closed adapter holds nothing, whatever batch it was closed under. *)
THEOREM ClosedIsEmpty == MemorySpec => []ClosedHoldsNothing
  <1>1. IInv => ClosedHoldsNothing
    BY DEF IInv
  <1>2. QED
    BY <1>1, Invariance, PTL

(* Every behaviour of the adapter is one of the abstract map: batches are  *)
(* sequences of puts and removals, expiry a removal, cleanup a stutter.    *)
THEOREM Refinement == MemorySpec => ImplementsStore
  BY InitRefines, NextRefines, Invariance, PTL DEF MemorySpec, ImplementsStore, KV!KVSpec

-----------------------------------------------------------------------------
(* The account of the sizes.                                               *)
LEMMA SizesOK ==
  ASSUME storage \in [Keys -> Item]
  PROVE  IsFiniteSet(Keys) /\ \A k \in Keys : Sizes[k] \in Nat /\ Sizes[k] = SizeOf(k)
  BY MemoryAssumption DEF Sizes, SizeOf, Item

(* What is stored is within the quota when it was checked just before.     *)
LEMMA StoreAccounts ==
  ASSUME QuotaKept, NEW k \in Keys, NEW v \in Values, NEW expiry \in {"never", "pending"},
         MaySet(k, v), Store(k, v, expiry)
  PROVE  storage' \in [Keys -> Item] /\ totalSize' \in Nat /\ SizeAccounted' /\ WithinQuota'
  <1>1. /\ storage \in [Keys -> Item] /\ totalSize = Total(Sizes, Keys)
        /\ totalSize + Size[v] - SizeOf(k) <= MaxSize
    BY DEF QuotaKept, MemoryTypeOK, SizeAccounted, SumOfSizes, MaySet
  <1>2. /\ storage' = [storage EXCEPT ![k] = [value |-> v, expiry |-> expiry]]
        /\ totalSize' = totalSize + Size[v] - SizeOf(k)
    BY DEF Store
  <1>3. /\ storage' \in [Keys -> Item] /\ storage'[k].value = v
        /\ \A j \in Keys \ {k} : storage'[j] = storage[j]
    BY <1>1, <1>2 DEF Item
  <1>4. IsFiniteSet(Keys) /\ \A j \in Keys : Sizes[j] \in Nat /\ Sizes[j] = SizeOf(j)
    BY <1>1, SizesOK
  <1>5. /\ Sizes'[k] = Size[v] /\ Size[v] \in Nat
        /\ \A j \in Keys \ {k} : Sizes'[j] = Sizes[j]
    BY <1>3, MemoryAssumption DEF Sizes, SizeOf
  <1>6. \A j \in Keys : Sizes'[j] \in Nat
    BY <1>4, <1>5
  <1>7. Total(Sizes', Keys) + Sizes[k] = Total(Sizes, Keys) + Sizes'[k]
    BY <1>4, <1>5, <1>6, TotalDiffer
  <1>8. Total(Sizes, Keys) \in Nat /\ Total(Sizes', Keys) \in Nat
    BY <1>4, <1>6, TotalNat
  <1>9. totalSize' = Total(Sizes', Keys)
    BY <1>1, <1>2, <1>4, <1>5, <1>7, <1>8
  <1>10. SizeAccounted'
    BY <1>9 DEF SizeAccounted, SumOfSizes
  <1>11. QED
    BY <1>1, <1>2, <1>3, <1>8, <1>9, <1>10 DEF WithinQuota

LEMMA DropAccounts ==
  ASSUME QuotaKept, NEW S \in SUBSET Keys, Drop(S)
  PROVE  storage' \in [Keys -> Item] /\ totalSize' \in Nat /\ SizeAccounted' /\ WithinQuota'
  <1>1. /\ storage \in [Keys -> Item] /\ totalSize = Total(Sizes, Keys) /\ totalSize <= MaxSize
    BY DEF QuotaKept, MemoryTypeOK, SizeAccounted, WithinQuota, SumOfSizes
  <1>2. /\ storage' = [k \in Keys |-> IF k \in S THEN NoItem ELSE storage[k]]
        /\ totalSize' = totalSize - Total(Sizes, S)
    BY DEF Drop, SumOfSizes
  <1>3. storage' \in [Keys -> Item]
    BY <1>1, <1>2 DEF NoItem, Item
  <1>4. IsFiniteSet(Keys) /\ \A j \in Keys : Sizes[j] \in Nat /\ Sizes[j] = SizeOf(j)
    BY <1>1, SizesOK
  <1>5. \A j \in Keys : Sizes'[j] = IF j \in S THEN 0 ELSE Sizes[j]
    BY <1>2, MemoryAssumption DEF Sizes, SizeOf, NoItem
  <1>6. Total(Sizes', Keys) = Total(Sizes, Keys) - Total(Sizes, S)
    BY <1>4, <1>5, TotalWithout
  <1>7. IsFiniteSet(S)
    BY <1>4, FS_Subset
  <1>8. Total(Sizes, Keys) \in Nat /\ Total(Sizes', Keys) \in Nat /\ Total(Sizes, S) \in Nat
    BY <1>4, <1>5, <1>7, TotalNat
  <1>9. totalSize' = Total(Sizes', Keys) /\ totalSize' \in Nat /\ totalSize' <= MaxSize
    BY <1>1, <1>2, <1>6, <1>8, MemoryAssumption
  <1>10. SizeAccounted' /\ WithinQuota'
    BY <1>9 DEF SizeAccounted, WithinQuota, SumOfSizes
  <1>11. QED
    BY <1>3, <1>9, <1>10

(* Emptying the map is dropping every key.                                 *)
LEMMA EmptyAccounts ==
  ASSUME QuotaKept, storage' = [k \in Keys |-> NoItem], totalSize' = 0
  PROVE  storage' \in [Keys -> Item] /\ totalSize' \in Nat /\ SizeAccounted' /\ WithinQuota'
  <1>1. storage \in [Keys -> Item] /\ totalSize = SumOfSizes(Keys) /\ totalSize \in Nat
    BY DEF QuotaKept, MemoryTypeOK, SizeAccounted
  <1>2. storage' = [k \in Keys |-> IF k \in Keys THEN NoItem ELSE storage[k]]
    OBVIOUS
  <1>3. Drop(Keys)
    BY <1>1, <1>2 DEF Drop
  <1>4. QED
    BY <1>3, DropAccounts

(* A step of a batch keeps the account, whatever ran since its check.      *)
LEMMA BatchStepAccounts ==
  ASSUME QuotaKept, NEW p \in Callers, NEW ops \in Seq(BatchOperation), NEW n \in Nat,
         BatchStep(p, ops, n), UNCHANGED <<lifecycle, answer>>, job' \in [Callers -> Job]
  PROVE  QuotaKept'
  <1>1. /\ MemoryTypeOK /\ \E m \in Nat : done' = [done EXCEPT ![p] = m]
        /\ UNCHANGED <<initialized, closed, interval, answer>>
    BY DEF QuotaKept, BatchStep, lifecycle
  <1>2. done' \in [Callers -> Nat]
    BY <1>1 DEF MemoryTypeOK
  <1>3. ASSUME ops # <<>>
        PROVE  Head(ops).key \in Keys /\ Head(ops).value \in Values
    <2>1. Head(ops) \in BatchOperation
      BY <1>3
    <2>2. QED
      BY <2>1 DEF BatchOperation
  <1>4. CASE /\ ops # <<>> /\ MaySet(Head(ops).key, Head(ops).value)
             /\ Store(Head(ops).key, Head(ops).value, "never")
    <2>1. storage' \in [Keys -> Item] /\ totalSize' \in Nat /\ SizeAccounted' /\ WithinQuota'
      BY <1>3, <1>4, StoreAccounts
    <2>2. QED
      BY <1>1, <1>2, <2>1 DEF QuotaKept, MemoryTypeOK
  <1>5. CASE ops # <<>> /\ Drop({Head(ops).key})
    <2>1. {Head(ops).key} \in SUBSET Keys
      BY <1>3, <1>5
    <2>2. storage' \in [Keys -> Item] /\ totalSize' \in Nat /\ SizeAccounted' /\ WithinQuota'
      BY <1>5, <2>1, DropAccounts
    <2>3. QED
      BY <1>1, <1>2, <2>2 DEF QuotaKept, MemoryTypeOK
  <1>6. CASE UNCHANGED <<storage, totalSize>>
    BY <1>1, <1>2, <1>6 DEF QuotaKept, MemoryTypeOK, SizeAccounted, WithinQuota, SumOfSizes, Sizes,
                            SizeOf
  <1>7. QED
    BY <1>4, <1>5, <1>6 DEF BatchStep

(* One lemma for the steps that drop some keys, or change nothing stored.  *)
LEMMA SameAccount ==
  ASSUME QuotaKept, UNCHANGED <<storage, totalSize>>, UNCHANGED answer, job' \in [Callers -> Job],
         done' \in [Callers -> Nat], initialized' \in BOOLEAN, closed' \in BOOLEAN,
         interval' \in BOOLEAN
  PROVE  QuotaKept'
  BY DEF QuotaKept, MemoryTypeOK, SizeAccounted, WithinQuota, SumOfSizes, Sizes, SizeOf

LEMMA DropStep ==
  ASSUME QuotaKept, NEW S \in SUBSET Keys, Drop(S), answer' \in Values \cup {None},
         job' \in [Callers -> Job], UNCHANGED <<lifecycle, done>>
  PROVE  QuotaKept'
  <1>1. storage' \in [Keys -> Item] /\ totalSize' \in Nat /\ SizeAccounted' /\ WithinQuota'
    BY DropAccounts
  <1>2. QED
    BY <1>1 DEF QuotaKept, MemoryTypeOK, lifecycle

LEMMA QuotaStep ==
  ASSUME QuotaKept, IInv, IInv', [MemoryNext]_memoryVars
  PROVE  QuotaKept'
  <1>1. MemoryTypeOK /\ job' \in [Callers -> Job] /\ storage' \in [Keys -> Item]
    BY DEF QuotaKept, IInv, StoreInv
  <1>2. ASSUME NEW k \in Keys, NEW v \in Values, NEW e \in {"never", "pending"}, Set(k, v, e)
        PROVE  QuotaKept'
    <2>1. MaySet(k, v) /\ Store(k, v, e) /\ UNCHANGED <<lifecycle, answer, job, done>>
      BY <1>2 DEF Set
    <2>2. totalSize' \in Nat /\ SizeAccounted' /\ WithinQuota'
      BY <2>1, StoreAccounts
    <2>3. QED
      BY <1>1, <2>1, <2>2 DEF QuotaKept, MemoryTypeOK, lifecycle
  <1>3. ASSUME NEW k \in Keys, Delete(k) PROVE QuotaKept'
    BY <1>1, <1>3, DropStep DEF Delete, MemoryTypeOK
  <1>4. ASSUME NEW k \in Keys, Get(k) PROVE QuotaKept'
    <2> DEFINE S == IF Expired(k) THEN {k} ELSE {}
    <2>1. Drop(S) /\ UNCHANGED <<lifecycle, job, done>>
      BY <1>4 DEF Get
    <2>2. answer' \in Values \cup {None}
      BY <1>1, <1>4 DEF Get, MemoryTypeOK, Item
    <2>3. S \in SUBSET Keys
      OBVIOUS
    <2> HIDE DEF S
    <2>4. QED
      BY <1>1, <2>1, <2>2, <2>3, DropStep
  <1>5. ASSUME NEW k \in Keys, TimePasses(k) PROVE QuotaKept'
    <2>1. /\ storage' = [storage EXCEPT ![k].expiry = "over"]
          /\ UNCHANGED <<totalSize, lifecycle, answer, job, done>>
      BY <1>5 DEF TimePasses
    <2>2. \A j \in Keys : storage'[j].value = storage[j].value
      BY <1>1, <2>1 DEF MemoryTypeOK, Item
    <2>3. Sizes' = Sizes
      BY <2>2 DEF Sizes, SizeOf
    <2>4. QED
      BY <1>1, <2>1, <2>3 DEF QuotaKept, MemoryTypeOK, SizeAccounted, WithinQuota, SumOfSizes, lifecycle
  <1>6. CASE ClearAll \/ Close
    <2>1. /\ storage' = [k \in Keys |-> NoItem] /\ totalSize' = 0
          /\ UNCHANGED <<initialized, answer, job, done>>
          /\ closed' \in BOOLEAN /\ interval' \in BOOLEAN
      BY <1>1, <1>6 DEF ClearAll, Close, lifecycle, MemoryTypeOK
    <2>2. totalSize' \in Nat /\ SizeAccounted' /\ WithinQuota'
      BY <2>1, EmptyAccounts
    <2>3. QED
      BY <1>1, <2>1, <2>2 DEF QuotaKept, MemoryTypeOK
  <1>7. CASE CleanupExpired
    <2>1. {k \in Keys : Expired(k)} \in SUBSET Keys
      OBVIOUS
    <2>2. QED
      BY <1>1, <1>7, <2>1, DropStep DEF CleanupExpired, MemoryTypeOK
  <1>8. ASSUME NEW p \in Callers, NEW ops \in Batches, Batch(p, ops) PROVE QuotaKept'
    <2>1. ops \in Seq(BatchOperation) /\ 0 \in Nat
      BY MemoryAssumption
    <2>2. QED
      BY <1>1, <1>8, <2>1, BatchStepAccounts DEF Batch
  <1>9. ASSUME NEW p \in Callers, ResumeBatch(p) PROVE QuotaKept'
    <2>1. job[p].ops \in Seq(BatchOperation) /\ done[p] \in Nat
      BY <1>1 DEF MemoryTypeOK, Job
    <2>2. QED
      BY <1>1, <1>9, <2>1, BatchStepAccounts DEF ResumeBatch
  <1>10. ASSUME NEW p \in Callers, Clear(p) PROVE QuotaKept'
    BY <1>1, <1>10, SameAccount DEF Clear, MemoryTypeOK, lifecycle
  <1>11. ASSUME NEW p \in Callers, ResumeClear(p) PROVE QuotaKept'
    <2>1. UNCHANGED <<lifecycle, answer, done>>
      BY <1>11 DEF ResumeClear
    <2>2. ASSUME NEW k \in job[p].keys, Drop({k}) PROVE QuotaKept'
      <3>1. {k} \in SUBSET Keys
        BY <1>1 DEF MemoryTypeOK, Job
      <3>2. QED
        BY <1>1, <2>1, <2>2, <3>1, DropStep DEF MemoryTypeOK
    <2>3. CASE UNCHANGED <<storage, totalSize>>
      BY <1>1, <2>1, <2>3, SameAccount DEF MemoryTypeOK, lifecycle
    <2>4. QED
      BY <1>11, <2>2, <2>3 DEF ResumeClear
  <1>12. CASE Initialize
    BY <1>1, <1>12, SameAccount DEF Initialize, MemoryTypeOK
  <1>13. CASE UNCHANGED memoryVars
    BY <1>1, <1>13, SameAccount DEF memoryVars, MemoryTypeOK
  <1>14. QED
    BY <1>2, <1>3, <1>4, <1>5, <1>6, <1>7, <1>8, <1>9, <1>10, <1>11, <1>12, <1>13 DEF MemoryNext

(* The size is accounted and the quota holds at every moment, between the  *)
(* operations of overlapping batches and clears too.                       *)
THEOREM QuotaHolds == MemorySpec => []QuotaKept
  <1>1. MemoryInit => QuotaKept
    <2> SUFFICES ASSUME MemoryInit PROVE QuotaKept
      OBVIOUS
    <2>1. MemoryTypeOK
      BY JobsOK DEF MemoryInit, MemoryTypeOK, NoItem, Item
    <2>2. \A k \in Keys : Sizes[k] = 0
      BY MemoryAssumption DEF MemoryInit, Sizes, SizeOf, NoItem
    <2>3. \A k \in Keys : Sizes[k] = (IF k \in Keys THEN 0 ELSE Sizes[k]) /\ Sizes[k] \in Int
      BY <2>2
    <2>4. Total(Sizes, Keys) = Total(Sizes, Keys) - Total(Sizes, Keys)
      BY <2>3, MemoryAssumption, TotalWithout
    <2>5. Total(Sizes, Keys) \in Int
      BY <2>3, MemoryAssumption, TotalType
    <2>6. SizeAccounted /\ WithinQuota
      BY <2>4, <2>5, MemoryAssumption DEF MemoryInit, SizeAccounted, WithinQuota, SumOfSizes
    <2>7. QED
      BY <2>1, <2>6 DEF QuotaKept
  <1>2. QED
    BY <1>1, QuotaStep, Invariance, PTL DEF MemorySpec
=============================================================================
