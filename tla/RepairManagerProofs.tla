------------------------- MODULE RepairManagerProofs -------------------------
(***************************************************************************)
(* What is proved of RepairManager, for any number of adapters, operations *)
(* and overlapping runs, every policy and every limit: no failed operation *)
(* is lost, an operation is tried at most maxAttempts times and once more  *)
(* for each further run, and its attempts are an interval apart while runs *)
(* do not overlap.                                                         *)
(*                                                                         *)
(* The invariant they rest on, IInv, adds to the types                     *)
(*   RecordsFine   what AdapterHealthProofs keeps of the health records    *)
(*   KnownOnly     queues and lists hold operations that have failed       *)
(*   MissingLeft   failedAdapters is what is left to repair                *)
(*   Accounted     as checked by TLC                                       *)
(*   BudgetKept    the attempts made, with those that runs have on their   *)
(*                 lists, keep the limit                                   *)
(***************************************************************************)
EXTENDS RepairManager, AdapterHealthProofs, ListsProofs

RecordsFine == \A a \in Adapters : RecordOK(health[a])

KnownOnly ==
    /\ Queued \subseteq recorded
    /\ \A r \in Runs : /\ ToSet(run[r].todo) \subseteq recorded
                       /\ IsInjective(run[r].todo)
                       /\ run[r].phase = "executing" => run[r].op \in recorded

MissingLeft == \A o \in Ops : failed[o] = Missed[o] \ repairedOn[o]

Planning(o) == {r \in Runs : o \in ToSet(run[r].todo)}

BudgetKept ==
    \A o \in Ops : attempts[o] + Cardinality(Planning(o))
                      <= MaxAttempts + Cardinality(Runs) - 1

IInv == TypeOK /\ RecordsFine /\ KnownOnly /\ MissingLeft /\ Accounted /\ BudgetKept

Budget == MaxAttempts + Cardinality(Runs) - 1

-----------------------------------------------------------------------------
(* Without and Batch take operations of the queue, in its order.           *)
LEMMA WithoutOK ==
  ASSUME IInv, NEW S
  PROVE  /\ Without(S) \in Seq(Ops) /\ IsInjective(Without(S))
         /\ ToSet(Without(S)) = Queued \ S
  <1>1. queue \in Seq(Ops) /\ IsInjective(queue)
    BY DEF IInv, TypeOK
  <1>2. /\ Without(S) \in Seq(Ops) /\ IsInjective(Without(S))
        /\ ToSet(Without(S)) = ToSet(queue) \cap (Ops \ S)
    BY <1>1, KeepResult DEF Without
  <1>3. ToSet(queue) \subseteq Ops
    BY <1>1 DEF ToSet
  <1>4. QED
    BY <1>2, <1>3 DEF Queued

LEMMA BatchOK ==
  ASSUME IInv
  PROVE  /\ Batch \in Seq(Ops) /\ IsInjective(Batch)
         /\ ToSet(Batch) \subseteq {o \in Queued : ShouldRepairOperation(o)}
  <1> DEFINE Fit == {o \in Ops : ShouldRepairOperation(o)}
             eligible == Keep(queue, Fit)
             n == IF Len(eligible) < BatchSize THEN Len(eligible) ELSE BatchSize
  <1>1. queue \in Seq(Ops) /\ IsInjective(queue)
    BY DEF IInv, TypeOK
  <1>2. /\ eligible \in Seq(Ops) /\ IsInjective(eligible)
        /\ ToSet(eligible) = ToSet(queue) \cap Fit
    BY <1>1, KeepResult
  <1>3. Batch = SubSeq(eligible, 1, n)
    BY DEF Batch
  <1> HIDE DEF eligible
  <1>4. n \in 0..Len(eligible) /\ 1 \in 1..(Len(eligible) + 1)
    BY <1>2, RepairAssumption
  <1>5. /\ Batch \in Seq(Ops) /\ IsInjective(Batch)
        /\ ToSet(Batch) \subseteq ToSet(eligible)
    BY <1>2, <1>3, <1>4, SliceResult
  <1>6. QED
    BY <1>2, <1>5 DEF Queued

(* The queue gets operations that have failed, each once.                  *)
LEMMA QueuedBefore ==
  ASSUME IInv
  PROVE  Queued \subseteq recorded /\ recorded \subseteq Ops
  BY DEF IInv, TypeOK, KnownOnly

LEMMA QueueAfterAttemptOK ==
  ASSUME IInv, NEW o \in recorded, NEW left
  PROVE  LET q == QueueAfterAttempt(o, left)
         IN  /\ q \in Seq(Ops) /\ IsInjective(q)
             /\ ToSet(q) \subseteq recorded /\ Queued \ {o} \subseteq ToSet(q)
             /\ left # {} => o \in ToSet(q)
  <1>1. queue \in Seq(Ops) /\ IsInjective(queue) /\ o \in Ops
    BY DEF IInv, TypeOK
  <1>2. CASE left = {}
    BY <1>2, WithoutOK, QueuedBefore DEF QueueAfterAttempt
  <1>3. CASE left # {} /\ o \in Queued
    BY <1>1, <1>3, QueuedBefore DEF QueueAfterAttempt, Queued
  <1>4. CASE left # {} /\ o \notin Queued
    <2>1. /\ Append(queue, o) \in Seq(Ops) /\ IsInjective(Append(queue, o))
          /\ ToSet(Append(queue, o)) = Queued \cup {o}
      BY <1>1, <1>4, AppendResult DEF Queued
    <2>2. QED
      BY <1>4, <2>1, QueuedBefore DEF QueueAfterAttempt
  <1>5. QED
    BY <1>2, <1>3, <1>4

-----------------------------------------------------------------------------
LEMMA InitInvariant == Init => IInv
  <1> SUFFICES ASSUME Init PROVE IInv
    OBVIOUS
  <1> USE DEF Init
  <1>1. TypeOK
    <2>1. queue \in Seq(Ops) /\ IsInjective(queue)
      BY EmptyList
    <2>2. IdleRun \in RunState
      BY DEF IdleRun, RunState
    <2>3. health \in [Adapters -> HealthRecord]
      BY InitialHealthOK
    <2>4. age \in [Ops -> 0..(MaxAge + 1)] /\ rest \in [Ops -> 0..Interval] /\ timer \in 0..Interval
      BY RepairAssumption
    <2>5. QED
      BY <2>1, <2>2, <2>3, <2>4, RepairAssumption DEF TypeOK
  <1>2. RecordsFine
    BY InitialHealthOK DEF RecordsFine
  <1>3. \A r \in Runs : ToSet(run[r].todo) = {} /\ IsInjective(run[r].todo)
                         /\ run[r].phase = "idle"
    BY EmptyList DEF IdleRun
  <1>4. KnownOnly
    BY <1>3, EmptyList DEF KnownOnly, Queued
  <1>5. MissingLeft /\ Accounted
    BY RepairAssumption DEF MissingLeft, Accounted
  <1>6. BudgetKept
    <2> SUFFICES ASSUME NEW o \in Ops
                 PROVE  0 + Cardinality(Planning(o)) <= MaxAttempts + Cardinality(Runs) - 1
      BY DEF BudgetKept
    <2>1. Planning(o) = {}
      BY <1>3 DEF Planning
    <2>2. Cardinality(Planning(o)) = 0 /\ Cardinality(Runs) \in Nat
      BY <2>1, FS_EmptySet, FS_CardinalityType, RepairAssumption
    <2>3. QED
      BY <2>2, RepairAssumption
  <1>7. QED
    BY <1>1, <1>2, <1>4, <1>5, <1>6 DEF IInv

-----------------------------------------------------------------------------
(* One step of run r, which has the operations of plan before it.          *)
CarriesOn(r, plan) ==
    /\ Proceed(r, plan)
    /\ timer' \in 0..Interval
    /\ NoteAlone
    /\ UNCHANGED <<health, recorded, age, failed, active, repairedOn>>

Fits(r, plan) ==
    /\ plan \in Seq(Ops) /\ IsInjective(plan) /\ ToSet(plan) \subseteq recorded
    /\ \A o \in ToSet(plan) :
          attempts[o] + Cardinality(Planning(o) \cup {r}) <= Budget

(* What the step does to the queue, to the run and to the attempts.        *)
LEMMA ProceedEffect ==
  ASSUME IInv, NEW r \in Runs, NEW plan, Fits(r, plan), Proceed(r, plan)
  PROVE  /\ queue' \in Seq(Ops) /\ IsInjective(queue') /\ Queued' \subseteq recorded
         /\ dropped \subseteq dropped' /\ dropped' \subseteq Ops
         /\ Queued \subseteq Queued' \cup dropped'
         /\ rest' \in [Ops -> 0..Interval]
         /\ \E new \in RunState :
               /\ run' = [run EXCEPT ![r] = new]
               /\ new.phase = "executing" => new.op \in recorded
               /\ IF plan = <<>>
                  THEN /\ new.todo = <<>> /\ attempts' = attempts
                       /\ new.phase = "idle" /\ rest' = rest
                  ELSE /\ new.todo = Tail(plan) /\ new.phase # "idle"
                       /\ \/ attempts' = attempts
                          \/ attempts' = [attempts EXCEPT ![Head(plan)] = @ + 1]
                       /\ \A o \in Ops \ {Head(plan)} : rest'[o] = rest[o]
  <1>1. /\ queue \in Seq(Ops) /\ IsInjective(queue) /\ Queued \subseteq recorded
        /\ dropped \subseteq Ops /\ rest \in [Ops -> 0..Interval] /\ recorded \subseteq Ops
        /\ attempts \in [Ops -> Nat]
    BY QueuedBefore DEF IInv, TypeOK
  <1>2. CASE plan = <<>>
    <2> DEFINE old == {o \in Queued : ShouldCleanupOperation(o)}
    <2>1. /\ queue' = Without(old) /\ dropped' = dropped \cup old
          /\ run' = [run EXCEPT ![r] = IdleRun] /\ UNCHANGED <<rest, attempts>>
      BY <1>2 DEF Proceed, CleanupOldOperations
    <2>2. /\ Without(old) \in Seq(Ops) /\ IsInjective(Without(old))
          /\ Queued' = Queued \ old
      BY <2>1, WithoutOK DEF Queued
    <2>3. IdleRun \in RunState /\ IdleRun.todo = <<>> /\ IdleRun.phase = "idle"
      BY EmptyList DEF IdleRun, RunState
    <2> HIDE DEF old
    <2>4. old \subseteq Queued
      BY DEF old
    <2>5. QED
      BY <1>1, <1>2, <2>1, <2>2, <2>3, <2>4
  <1>3. CASE plan # <<>>
    <2> DEFINE o == Head(plan)
               todo == Tail(plan)
               candidates == HealthyAdapters(health) \cap failed[o]
    <2>1. o \in recorded /\ o \in Ops /\ todo \in Seq(Ops)
      BY <1>1, <1>3, TailResult DEF Fits
    <2>2. BeginRepair(r, o, todo)
      BY <1>3 DEF Proceed
    <2> HIDE DEF o, todo
    <2>3. PICK available \in SUBSET candidates :
          LET valid == ValidCandidates(available, o)
          IN  \/ /\ candidates = {}
                 /\ Between(r, todo)
                 /\ UNCHANGED <<queue, dropped, rest, attempts>>
              \/ /\ candidates # {} /\ valid = {}
                 /\ queue' = Without({o})
                 /\ dropped' = dropped \cup {o}
                 /\ Between(r, todo)
                 /\ UNCHANGED <<rest, attempts>>
              \/ /\ valid # {}
                 /\ attempts' = CountAttempt(o, valid)
                 /\ rest' = [rest EXCEPT ![o] = 0]
                 /\ run' = [run EXCEPT ![r] = [phase |-> "executing", todo |-> todo,
                                              op |-> o, on |-> valid]]
                 /\ UNCHANGED <<queue, dropped>>
      BY <2>2 DEF BeginRepair
    <2> DEFINE valid == ValidCandidates(available, o)
               between == [IdleRun EXCEPT !.phase = "between", !.todo = todo]
               executing == [phase |-> "executing", todo |-> todo, op |-> o, on |-> valid]
    <2>4. between \in RunState /\ between.todo = todo /\ between.phase = "between"
      BY <2>1 DEF IdleRun, RunState
    <2>5. /\ executing \in RunState /\ executing.todo = todo /\ executing.op = o
          /\ executing.phase = "executing"
      BY <2>1 DEF RunState, ValidCandidates, HealthyAdapters
    <2> HIDE DEF executing, between, candidates
    <2>6. CASE /\ candidates = {} /\ Between(r, todo)
               /\ UNCHANGED <<queue, dropped, rest, attempts>>
      <3>1. run' = [run EXCEPT ![r] = between]
        BY <2>6 DEF Between, between
      <3>2. Queued' = Queued
        BY <2>6 DEF Queued
      <3>3. QED
        BY <1>1, <1>3, <2>4, <2>6, <3>1, <3>2 DEF todo
    <2>7. CASE /\ queue' = Without({o}) /\ dropped' = dropped \cup {o}
               /\ Between(r, todo) /\ UNCHANGED <<rest, attempts>>
      <3>1. run' = [run EXCEPT ![r] = between]
        BY <2>7 DEF Between, between
      <3>2. queue' \in Seq(Ops) /\ IsInjective(queue') /\ Queued' = Queued \ {o}
        BY <2>7, WithoutOK DEF Queued
      <3>3. QED
        <4>1. Queued' \subseteq recorded /\ Queued \subseteq Queued' \cup dropped'
              /\ dropped' \subseteq Ops /\ dropped \subseteq dropped'
          BY <1>1, <2>1, <2>7, <3>2
        <4>2. /\ rest' \in [Ops -> 0..Interval] /\ attempts' = attempts
              /\ \A p \in Ops \ {Head(plan)} : rest'[p] = rest[p]
          BY <1>1, <2>7
        <4>3. QED
          BY <1>3, <2>4, <3>1, <3>2, <4>1, <4>2 DEF todo
    <2>8. CASE /\ attempts' = CountAttempt(o, valid)
               /\ rest' = [rest EXCEPT ![o] = 0]
               /\ run' = [run EXCEPT ![r] = executing]
               /\ UNCHANGED <<queue, dropped>>
      <3>1. Queued' = Queued
        BY <2>8 DEF Queued
      <3>2. rest' \in [Ops -> 0..Interval]
        <4>1. 0 \in 0..Interval
          BY RepairAssumption
        <4>2. rest' = [rest EXCEPT ![o] = 0]
          BY <2>8
        <4>3. QED
          BY <1>1, <4>1, <4>2
      <3>3. attempts' = [attempts EXCEPT ![Head(plan)] = @ + 1]
        BY <2>8 DEF CountAttempt, o
      <3>4. QED
        <4>1. Queued' \subseteq recorded /\ Queued \subseteq Queued' \cup dropped'
              /\ dropped' \subseteq Ops /\ dropped \subseteq dropped'
              /\ queue' \in Seq(Ops) /\ IsInjective(queue')
          BY <1>1, <2>8, <3>1
        <4>2. /\ run' = [run EXCEPT ![r] = executing] /\ executing \in RunState
              /\ executing.todo = Tail(plan) /\ executing.op \in recorded
              /\ executing.phase # "idle"
          BY <2>1, <2>5, <2>8 DEF todo
        <4>3. \A p \in Ops \ {Head(plan)} : rest'[p] = rest[p]
          BY <1>1, <2>8 DEF o
        <4>4. QED
          BY <1>3, <3>2, <3>3, <4>1, <4>2, <4>3
    <2>9. QED
      BY <2>3, <2>6, <2>7, <2>8 DEF executing
  <1>4. QED
    BY <1>2, <1>3

LEMMA ProceedOK ==
  ASSUME IInv, NEW r \in Runs, NEW plan, Fits(r, plan), CarriesOn(r, plan)
  PROVE  IInv'
  <1>0. Proceed(r, plan)
    BY DEF CarriesOn
  <1>1. /\ queue' \in Seq(Ops) /\ IsInjective(queue') /\ Queued' \subseteq recorded
        /\ dropped \subseteq dropped' /\ dropped' \subseteq Ops
        /\ Queued \subseteq Queued' \cup dropped'
        /\ rest' \in [Ops -> 0..Interval]
    BY <1>0, ProceedEffect
  <1>2. PICK new \in RunState :
               /\ run' = [run EXCEPT ![r] = new]
               /\ new.phase = "executing" => new.op \in recorded
               /\ IF plan = <<>>
                  THEN new.todo = <<>> /\ attempts' = attempts
                  ELSE /\ new.todo = Tail(plan)
                       /\ \/ attempts' = attempts
                          \/ attempts' = [attempts EXCEPT ![Head(plan)] = @ + 1]
    BY <1>0, ProceedEffect
  <1>3. /\ timer' \in 0..Interval /\ alone' \subseteq Runs
        /\ UNCHANGED <<health, recorded, age, failed, active, repairedOn>>
    BY DEF CarriesOn, NoteAlone
  <1>4. /\ ToSet(new.todo) \subseteq ToSet(plan) /\ IsInjective(new.todo)
        /\ plan # <<>> => Head(plan) \in ToSet(plan) \ ToSet(new.todo)
    BY <1>2, TailResult, EmptyList DEF Fits
  <1>5. TypeOK /\ recorded \subseteq Ops /\ ToSet(plan) \subseteq recorded
    BY DEF IInv, TypeOK, Fits
  <1>6. attempts' \in [Ops -> Nat]
    <2>1. attempts \in [Ops -> Nat]
      BY <1>5 DEF TypeOK
    <2>2. CASE plan = <<>>
      BY <1>2, <2>1, <2>2
    <2>3. CASE plan # <<>>
      <3>1. Head(plan) \in Ops
        BY <1>4, <1>5, <2>3
      <3>2. attempts[Head(plan)] + 1 \in Nat
        BY <2>1, <3>1
      <3>3. attempts' = attempts \/ attempts' = [attempts EXCEPT ![Head(plan)] = @ + 1]
        BY <1>2, <2>3
      <3>4. QED
        BY <2>1, <3>2, <3>3
    <2>4. QED
      BY <2>2, <2>3
  <1>7. TypeOK'
    <2>1. run' \in [Runs -> RunState]
      BY <1>2, <1>5 DEF TypeOK
    <2>2. QED
      BY <1>1, <1>3, <1>5, <1>6, <2>1 DEF TypeOK
  <1>8. \A q \in Runs : run'[q] = IF q = r THEN new ELSE run[q]
    BY <1>2, <1>5 DEF TypeOK
  <1>9. RecordsFine'
    BY <1>3 DEF IInv, RecordsFine
  <1>10. KnownOnly'
    <2>1. KnownOnly
      BY DEF IInv
    <2>2. ASSUME NEW q \in Runs
          PROVE  /\ ToSet(run'[q].todo) \subseteq recorded'
                 /\ IsInjective(run'[q].todo)
                 /\ run'[q].phase = "executing" => run'[q].op \in recorded'
      BY <1>2, <1>3, <1>4, <1>5, <1>8, <2>1 DEF KnownOnly
    <2>3. QED
      BY <1>1, <1>3, <2>2 DEF KnownOnly
  <1>11. MissingLeft'
    BY <1>3 DEF IInv, MissingLeft
  <1>12. Accounted'
    BY <1>1, <1>3 DEF IInv, Accounted
  <1>13. BudgetKept'
    <2> SUFFICES ASSUME NEW o \in Ops
                 PROVE  attempts'[o] + Cardinality(Planning(o)') <= Budget
      BY DEF BudgetKept, Budget
    <2>1. /\ attempts[o] + Cardinality(Planning(o)) <= Budget
          /\ attempts[o] \in Nat /\ Budget \in Int
      BY <1>5, RepairAssumption, FS_CardinalityType DEF IInv, BudgetKept, Budget, TypeOK
    <2>2. Planning(o)' = (Planning(o) \ {r}) \cup (IF o \in ToSet(new.todo) THEN {r} ELSE {})
      BY <1>8 DEF Planning
    <2> DEFINE before == Planning(o)
               after  == Planning(o)'
    <2>3. /\ IsFiniteSet(before) /\ IsFiniteSet(before \cup {r}) /\ IsFiniteSet(after)
          /\ Cardinality(before) \in Nat /\ Cardinality(before \cup {r}) \in Nat
          /\ Cardinality(after) \in Nat
      <3>1. before \subseteq Runs /\ before \cup {r} \subseteq Runs /\ after \subseteq Runs
        BY DEF Planning
      <3>2. QED
        BY <3>1, RepairAssumption, FS_Subset, FS_CardinalityType
    <2>4. CASE attempts'[o] = attempts[o] /\ o \notin ToSet(new.todo)
      <3>1. after \subseteq before
        BY <2>2, <2>4
      <3>2. Cardinality(after) <= Cardinality(before)
        BY <2>3, <3>1, FS_Subset
      <3>3. QED
        BY <2>1, <2>3, <2>4, <3>2
    <2>5. CASE attempts'[o] = attempts[o] /\ o \in ToSet(new.todo)
      <3>1. after \subseteq before \cup {r}
        BY <2>2
      <3>2. Cardinality(after) <= Cardinality(before \cup {r})
        BY <2>3, <3>1, FS_Subset
      <3>3. attempts[o] + Cardinality(before \cup {r}) <= Budget
        BY <1>4, <2>5 DEF Fits
      <3>4. QED
        BY <2>1, <2>3, <2>5, <3>2, <3>3
    <2>6. CASE attempts'[o] # attempts[o]
      <3>1. plan # <<>> /\ o = Head(plan) /\ attempts'[o] = attempts[o] + 1
        BY <1>2, <1>5, <2>6 DEF TypeOK
      <3>2. o \in ToSet(plan) /\ o \notin ToSet(new.todo)
        BY <1>4, <3>1
      <3>3. after = (before \cup {r}) \ {r}
        BY <2>2, <3>2
      <3>4. Cardinality(after) = Cardinality(before \cup {r}) - 1
        BY <2>3, <3>3, FS_RemoveElement
      <3>5. attempts[o] + Cardinality(before \cup {r}) <= Budget
        BY <3>2 DEF Fits
      <3>6. QED
        BY <2>1, <2>3, <3>1, <3>4, <3>5
    <2>7. QED
      BY <2>4, <2>5, <2>6
  <1>14. QED
    BY <1>7, <1>9, <1>10, <1>11, <1>12, <1>13 DEF IInv

(* A run that starts has the batch before it, and one that goes on the     *)
(* rest of its list.                                                       *)
LEMMA StartCarriesOn ==
  ASSUME IInv, NEW r \in Runs, StartRun(r)
  PROVE  CarriesOn(r, Batch) /\ Fits(r, Batch)
  <1>1. TypeOK
    BY DEF IInv
  <1>2. CarriesOn(r, Batch)
    BY RepairAssumption DEF StartRun, CarriesOn
  <1>3. ASSUME NEW o \in ToSet(Batch)
        PROVE  attempts[o] + Cardinality(Planning(o) \cup {r}) <= Budget
    <2>1. o \in Ops /\ attempts[o] < MaxAttempts /\ attempts[o] \in Nat
      BY <1>1, <1>3, BatchOK, QueuedBefore DEF ShouldRepairOperation, TypeOK
    <2>2. Planning(o) \cup {r} \subseteq Runs
      BY DEF Planning
    <2>3. /\ Cardinality(Planning(o) \cup {r}) <= Cardinality(Runs)
          /\ Cardinality(Runs) \in Nat /\ Cardinality(Planning(o) \cup {r}) \in Nat
      BY <2>2, RepairAssumption, FS_Subset, FS_CardinalityType
    <2>4. QED
      BY <2>1, <2>3, RepairAssumption DEF Budget
  <1>4. Fits(r, Batch)
    BY <1>3, BatchOK, QueuedBefore DEF Fits
  <1>5. QED
    BY <1>2, <1>4

LEMMA ContinueCarriesOn ==
  ASSUME IInv, NEW r \in Runs, ContinueRun(r)
  PROVE  CarriesOn(r, run[r].todo) /\ Fits(r, run[r].todo)
  <1>1. TypeOK /\ KnownOnly /\ BudgetKept
    BY DEF IInv
  <1>2. CarriesOn(r, run[r].todo)
    BY <1>1 DEF ContinueRun, CarriesOn, TypeOK
  <1>3. /\ run[r].todo \in Seq(Ops) /\ IsInjective(run[r].todo)
        /\ ToSet(run[r].todo) \subseteq recorded
    BY <1>1 DEF TypeOK, RunState, KnownOnly
  <1>4. ASSUME NEW o \in ToSet(run[r].todo)
        PROVE  attempts[o] + Cardinality(Planning(o) \cup {r}) <= Budget
    <2>1. o \in Ops /\ r \in Planning(o)
      BY <1>1, <1>3, <1>4 DEF Planning, TypeOK
    <2>2. Planning(o) \cup {r} = Planning(o)
      BY <2>1
    <2>3. QED
      BY <1>1, <2>1, <2>2 DEF BudgetKept, Budget
  <1>5. Fits(r, run[r].todo)
    BY <1>3, <1>4 DEF Fits
  <1>6. QED
    BY <1>2, <1>5

-----------------------------------------------------------------------------
LEMMA NextInvariant == IInv /\ [Next]_vars => IInv'
  <1> SUFFICES ASSUME IInv, [Next]_vars PROVE IInv'
    OBVIOUS
  <1>1. /\ TypeOK /\ RecordsFine /\ KnownOnly /\ MissingLeft /\ Accounted /\ BudgetKept
        /\ recorded \subseteq Ops /\ queue \in Seq(Ops) /\ IsInjective(queue)
    BY DEF IInv, TypeOK
  <1>2. ASSUME NEW o \in Ops, RecordFailedOperation(o) PROVE IInv'
    <2>1. /\ o \notin recorded /\ recorded' = recorded \cup {o}
          /\ UNCHANGED <<health, clocks, attempts, failed, run, active, repairedOn, alone>>
      BY <1>2 DEF RecordFailedOperation
    <2>2. /\ queue' \in Seq(Ops) /\ IsInjective(queue') /\ Queued' \subseteq recorded'
          /\ dropped' \subseteq Ops /\ dropped \subseteq dropped'
          /\ Queued \subseteq Queued' \cup dropped' /\ o \in Queued'
      <3>1. CASE queue' = Append(queue, o) /\ dropped' = dropped
        <4>1. /\ queue' \in Seq(Ops) /\ ToSet(queue') = Queued \cup {o}
              /\ IsInjective(queue')
          BY <1>1, <2>1, <3>1, AppendResult, QueuedBefore DEF Queued
        <4>2. QED
          BY <1>1, <2>1, <3>1, <4>1, QueuedBefore DEF Queued, TypeOK
      <3>2. CASE \E e \in Evictable : /\ queue' = Append(Without({e}), o)
                                      /\ dropped' = dropped \cup {e}
        <4>1. Evictable \subseteq Queued
          BY DEF Evictable
        <4>2. PICK e \in Queued : /\ queue' = Append(Without({e}), o)
                                  /\ dropped' = dropped \cup {e}
          BY <3>2, <4>1
        <4>3. /\ Without({e}) \in Seq(Ops) /\ IsInjective(Without({e}))
              /\ ToSet(Without({e})) = Queued \ {e} /\ o \notin Queued \ {e}
          BY <2>1, WithoutOK, QueuedBefore
        <4>4. /\ queue' \in Seq(Ops) /\ ToSet(queue') = (Queued \ {e}) \cup {o}
              /\ IsInjective(queue')
          <5> DEFINE w == Without({e})
          <5>1. w \in Seq(Ops) /\ IsInjective(w) /\ o \notin ToSet(w) /\ o \in Ops
            BY <4>3
          <5> HIDE DEF w
          <5>2. /\ Append(w, o) \in Seq(Ops) /\ ToSet(Append(w, o)) = ToSet(w) \cup {o}
                /\ IsInjective(Append(w, o))
            BY <5>1, AppendResult
          <5>3. QED
            BY <4>2, <4>3, <5>2 DEF w
        <4>5. QED
          BY <1>1, <2>1, <4>2, <4>4, QueuedBefore DEF Queued, TypeOK
      <3>3. QED
        BY <1>2, <3>1, <3>2 DEF RecordFailedOperation
    <2>3. TypeOK'
      BY <1>1, <2>1, <2>2 DEF TypeOK, clocks
    <2>4. RecordsFine' /\ MissingLeft'
      BY <1>1, <2>1 DEF RecordsFine, MissingLeft
    <2>5. KnownOnly'
      BY <1>1, <2>1, <2>2 DEF KnownOnly
    <2>6. Accounted'
      BY <1>1, <2>1, <2>2 DEF Accounted
    <2>7. BudgetKept'
      BY <1>1, <2>1 DEF BudgetKept, Planning
    <2>8. QED
      BY <2>3, <2>4, <2>5, <2>6, <2>7 DEF IInv
  <1>3. ASSUME NEW r \in Runs, StartRun(r) PROVE IInv'
    BY <1>3, StartCarriesOn, ProceedOK
  <1>4. ASSUME NEW r \in Runs, ContinueRun(r) PROVE IInv'
    BY <1>4, ContinueCarriesOn, ProceedOK
  <1>5. ASSUME NEW r \in Runs, NEW a \in Adapters, RepairSucceeds(r, a) \/ RepairFails(r, a)
        PROVE  IInv'
    <2> DEFINE o == run[r].op
               left == failed'[o]
    <2>1. /\ o \in recorded /\ o \in Ops /\ run[r].phase = "executing" /\ a \in run[r].on
          /\ run[r] \in RunState
      BY <1>1, <1>5 DEF RepairSucceeds, RepairFails, RequestAnswered, KnownOnly, TypeOK
    <2>2. /\ \/ /\ failed' = [failed EXCEPT ![o] = failed[o] \ {a}]
                /\ repairedOn' = [repairedOn EXCEPT ![o] = @ \cup {a}]
             \/ /\ failed' = failed /\ repairedOn' = repairedOn
          /\ UNCHANGED <<recorded, clocks, attempts, active, dropped, alone>>
      BY <1>1, <1>5, <2>1 DEF RepairSucceeds, RepairFails, RequestAnswered, TypeOK
    <2>3. MissingLeft'
      <3> SUFFICES ASSUME NEW p \in Ops PROVE failed'[p] = Missed[p] \ repairedOn'[p]
        BY DEF MissingLeft
      <3>1. failed[p] = Missed[p] \ repairedOn[p]
        BY <1>1 DEF MissingLeft
      <3>2. failed \in [Ops -> SUBSET Adapters] /\ repairedOn \in [Ops -> SUBSET Adapters]
        BY <1>1 DEF TypeOK
      <3> HIDE DEF o
      <3>3. CASE failed' = failed /\ repairedOn' = repairedOn
        BY <3>1, <3>3
      <3>4. CASE /\ failed' = [failed EXCEPT ![o] = failed[o] \ {a}]
                 /\ repairedOn' = [repairedOn EXCEPT ![o] = @ \cup {a}]
        BY <3>1, <3>2, <3>4
      <3>5. QED
        BY <2>2, <3>3, <3>4 DEF o
    <2>4. left = Missed[o] \ repairedOn'[o]
      BY <2>1, <2>3 DEF MissingLeft
    <2>5. /\ failed' \in [Ops -> SUBSET Adapters] /\ repairedOn' \in [Ops -> SUBSET Adapters]
          /\ \A p \in Ops : repairedOn[p] \subseteq repairedOn'[p]
      <3>1. failed \in [Ops -> SUBSET Adapters] /\ repairedOn \in [Ops -> SUBSET Adapters]
        BY <1>1 DEF TypeOK
      <3> HIDE DEF o
      <3>2. CASE failed' = failed /\ repairedOn' = repairedOn
        BY <3>1, <3>2
      <3>3. CASE /\ failed' = [failed EXCEPT ![o] = failed[o] \ {a}]
                 /\ repairedOn' = [repairedOn EXCEPT ![o] = @ \cup {a}]
        BY <2>1, <3>1, <3>3
      <3>4. QED
        BY <2>2, <3>2, <3>3 DEF o
    <2>6. health' \in [Adapters -> HealthRecord] /\ RecordsFine'
      BY <1>1, <1>5, TrackFailureOK DEF RepairSucceeds, RepairFails, TypeOK, RecordsFine
    <2>7. \/ queue' = queue /\ run' = [run EXCEPT ![r].on = @ \ {a}]
          \/ queue' = QueueAfterAttempt(o, left) /\ Between(r, run[r].todo)
      BY <1>1, <1>5, <2>1 DEF RepairSucceeds, RepairFails, RequestAnswered, TypeOK
    <2>8. /\ queue' \in Seq(Ops) /\ IsInjective(queue') /\ Queued' \subseteq recorded
          /\ \A p \in recorded : p \in Queued => p \in Queued' \/ (p = o /\ left = {})
      <3>1. CASE queue' = queue
        BY <1>1, <3>1, QueuedBefore DEF Queued
      <3>2. CASE queue' = QueueAfterAttempt(o, left)
        <4> HIDE DEF o, left
        <4>1. /\ queue' \in Seq(Ops) /\ IsInjective(queue')
              /\ ToSet(queue') \subseteq recorded /\ Queued \ {o} \subseteq ToSet(queue')
              /\ left # {} => o \in ToSet(queue')
          BY <2>1, <3>2, QueueAfterAttemptOK
        <4>2. QED
          BY <4>1 DEF Queued
      <3>3. QED
        BY <2>7, <3>1, <3>2
    <2>9. PICK new \in RunState :
             /\ run' = [run EXCEPT ![r] = new]
             /\ new.todo = run[r].todo
             /\ new.phase = "executing" => new.op = o
      <3>1. CASE run' = [run EXCEPT ![r].on = @ \ {a}]
        <4> DEFINE new == [run[r] EXCEPT !.on = @ \ {a}]
        <4>1. /\ run' = [run EXCEPT ![r] = new] /\ new \in RunState
              /\ new.todo = run[r].todo /\ new.op = o
          BY <1>1, <2>1, <3>1 DEF RunState, TypeOK
        <4>2. QED
          BY <4>1
      <3>2. CASE Between(r, run[r].todo)
        <4> DEFINE new == [IdleRun EXCEPT !.phase = "between", !.todo = run[r].todo]
        <4>1. /\ run' = [run EXCEPT ![r] = new] /\ new \in RunState
              /\ new.todo = run[r].todo /\ new.phase = "between"
          BY <2>1, <3>2 DEF Between, IdleRun, RunState
        <4>2. QED
          BY <4>1
      <3>3. QED
        BY <2>7, <3>1, <3>2
    <2>10. \A q \in Runs : run'[q] = IF q = r THEN new ELSE run[q]
      BY <1>1, <2>9 DEF TypeOK
    <2>11. TypeOK'
      BY <1>1, <2>2, <2>5, <2>6, <2>8, <2>9 DEF TypeOK, clocks
    <2>12. KnownOnly'
      <3>1. \A q \in Runs : run'[q].todo = run[q].todo
                             /\ (run'[q].phase = "executing" => run'[q].op \in recorded)
        BY <1>1, <2>1, <2>9, <2>10 DEF KnownOnly
      <3>2. QED
        BY <1>1, <2>2, <2>8, <3>1 DEF KnownOnly
    <2>13. Accounted'
      <3> SUFFICES ASSUME NEW p \in recorded
                   PROVE  p \in Queued' \/ p \in dropped \/ Missed[p] \subseteq repairedOn'[p]
        BY <2>2 DEF Accounted
      <3>1. CASE p \in Queued
        <4>1. p \in Queued' \/ (p = o /\ left = {})
          BY <2>8, <3>1
        <4>2. QED
          BY <2>4, <4>1
      <3>2. CASE p \notin Queued
        BY <1>1, <2>5, <3>2 DEF Accounted
      <3>3. QED
        BY <3>1, <3>2
    <2>14. BudgetKept'
      <3>1. \A p \in Ops : Planning(p)' = Planning(p)
        BY <2>9, <2>10 DEF Planning
      <3>2. QED
        BY <1>1, <2>2, <3>1 DEF BudgetKept
    <2>15. QED
      BY <2>3, <2>6, <2>11, <2>12, <2>13, <2>14 DEF IInv
  <1>6. ASSUME NEW a \in Adapters, HealthChanges(a) PROVE IInv'
    <2>1. health[a] \in HealthRecord /\ RecordOK(health[a])
      BY <1>1 DEF TypeOK, RecordsFine
    <2>2. PICK h \in HealthRecord : RecordOK(h) /\ health' = [health EXCEPT ![a] = h]
      BY <1>6, <2>1, RecordSuccessOK, RecordFailureOK, CheckPassedOK, TrackFailureOK
      DEF HealthChanges, CheckFailed
    <2>3. health' \in [Adapters -> HealthRecord] /\ RecordsFine'
      BY <1>1, <2>2 DEF TypeOK, RecordsFine
    <2>4. UNCHANGED <<queue, recorded, clocks, attempts, failed, run, active,
                      dropped, repairedOn, alone>>
      BY <1>6 DEF HealthChanges
    <2>5. TypeOK'
      BY <1>1, <2>3, <2>4 DEF TypeOK, clocks
    <2>6. KnownOnly' /\ MissingLeft' /\ Accounted' /\ BudgetKept'
      BY <1>1, <2>4 DEF KnownOnly, MissingLeft, Accounted, BudgetKept, Planning, Queued
    <2>7. QED
      BY <2>3, <2>5, <2>6 DEF IInv
  <1>7. ASSUME Initialize \/ Shutdown \/ Tick \/ UNCHANGED vars PROVE IInv'
    <2>1. /\ UNCHANGED <<health, queue, recorded, attempts, failed, run, dropped, repairedOn, alone>>
          /\ active' \in BOOLEAN
      BY <1>1, <1>7 DEF Initialize, Shutdown, Tick, vars, TypeOK
    <2>2. age' \in [Ops -> 0..(MaxAge + 1)] /\ rest' \in [Ops -> 0..Interval] /\ timer' \in 0..Interval
      <3>1. CASE Tick
        <4>1. ASSUME NEW o \in Ops PROVE age'[o] \in 0..(MaxAge + 1) /\ rest'[o] \in 0..Interval
          BY <1>1, <3>1, RepairAssumption DEF Tick, TypeOK
        <4>2. age' = [o \in Ops |-> age'[o]] /\ rest' = [o \in Ops |-> rest'[o]]
          BY <3>1 DEF Tick
        <4>3. timer' \in 0..Interval
          BY <1>1, <3>1, RepairAssumption DEF Tick, TypeOK
        <4>4. QED
          BY <4>1, <4>2, <4>3
      <3>2. CASE ~Tick
        BY <1>1, <1>7, <3>2, RepairAssumption
        DEF Initialize, Shutdown, vars, clocks, TypeOK
      <3>3. QED
        BY <3>1, <3>2
    <2>3. TypeOK'
      BY <1>1, <2>1, <2>2 DEF TypeOK
    <2>4. /\ RecordsFine' /\ KnownOnly' /\ MissingLeft' /\ Accounted' /\ BudgetKept'
      BY <1>1, <2>1
      DEF RecordsFine, KnownOnly, MissingLeft, Accounted, BudgetKept, Planning, Queued
    <2>5. QED
      BY <2>3, <2>4 DEF IInv
  <1>8. QED
    BY <1>2, <1>3, <1>4, <1>5, <1>6, <1>7 DEF Next, Progress

LEMMA Invariant == Spec => []IInv
  <1>1. Init => IInv
    BY InitInvariant
  <1>2. IInv /\ [Next]_vars => IInv'
    BY NextInvariant
  <1>3. QED
    BY <1>1, <1>2, PTL DEF Spec

(* No failed operation is lost, whatever evictions, cleanups and any       *)
(* number of overlapping runs do: it is queued, or reported as dropped, or *)
(* every adapter that missed it has executed it (repair-manager.ts).       *)
THEOREM NothingIsLost == Spec => []NothingLost
  <1>1. IInv => NothingLost
    BY DEF IInv, NothingLost
  <1>2. QED
    BY <1>1, Invariant, PTL

(* However many runs overlap, each beyond the first adds at most one       *)
(* attempt to the limit of an operation (shouldRepairOperation).           *)
THEOREM AttemptsAreBounded == Spec => []AttemptsBounded
  <1>1. IInv => AttemptsBounded
    <2> SUFFICES ASSUME IInv, NEW o \in Ops
                 PROVE  attempts[o] <= MaxAttempts + Cardinality(Runs) - 1
      BY DEF AttemptsBounded
    <2>1. Planning(o) \subseteq Runs
      BY DEF Planning
    <2>2. Cardinality(Planning(o)) \in Nat /\ Cardinality(Runs) \in Nat
      BY <2>1, RepairAssumption, FS_Subset, FS_CardinalityType
    <2>3. attempts[o] + Cardinality(Planning(o)) <= MaxAttempts + Cardinality(Runs) - 1
      BY DEF IInv, BudgetKept
    <2>4. attempts[o] \in Nat
      BY DEF IInv, TypeOK
    <2>5. QED
      BY <2>2, <2>3, <2>4, RepairAssumption
  <1>2. QED
    BY <1>1, Invariant, PTL

-----------------------------------------------------------------------------
(* What a run that no other run overlaps still has on its list has rested  *)
(* for an interval: it had when the list was made, and only attempts end a *)
(* rest.                                                                   *)
Solo   == \A r \in alone, q \in Runs : q # r => run[q].phase = "idle"
Rested == \A r \in alone : \A o \in ToSet(run[r].todo) : rest[o] = Interval
SInv   == IInv /\ Solo /\ Rested

(* The operations of a new list have rested. *)
LEMMA BatchRested ==
  ASSUME IInv, NEW o \in ToSet(Batch)
  PROVE  rest[o] = Interval
  <1>1. o \in Queued /\ ShouldRepairOperation(o)
    BY BatchOK
  <1>2. o \in Ops
    BY <1>1, QueuedBefore
  <1>3. rest[o] \in 0..Interval /\ rest[o] >= Interval
    BY <1>1, <1>2 DEF IInv, TypeOK, ShouldRepairOperation
  <1>4. QED
    BY <1>3, RepairAssumption

(* The list of r, which has rested if r is alone, loses its first member,  *)
(* the only one that may be tried now.                                     *)
LEMMA ProceedRested ==
  ASSUME SInv, NEW r \in Runs, NEW plan, Fits(r, plan), CarriesOn(r, plan),
         r \in alone' => \A o \in ToSet(plan) : rest[o] = Interval
  PROVE  /\ Solo' /\ Rested'
         /\ \A q \in Runs, o \in Ops :
               (q \in alone' /\ run'[q] # run[q] /\ attempts'[o] > attempts[o])
                   => rest[o] = Interval
  <1>1. Proceed(r, plan) /\ NoteAlone /\ IInv /\ IInv'
    BY ProceedOK DEF CarriesOn, SInv
  <1>2. PICK new \in RunState :
               /\ run' = [run EXCEPT ![r] = new]
               /\ IF plan = <<>>
                  THEN /\ new.todo = <<>> /\ attempts' = attempts
                       /\ new.phase = "idle" /\ rest' = rest
                  ELSE /\ new.todo = Tail(plan) /\ new.phase # "idle"
                       /\ \/ attempts' = attempts
                          \/ attempts' = [attempts EXCEPT ![Head(plan)] = @ + 1]
                       /\ \A o \in Ops \ {Head(plan)} : rest'[o] = rest[o]
    BY <1>1, ProceedEffect
  <1>3. /\ \A q \in Runs : run'[q] = IF q = r THEN new ELSE run[q]
        /\ attempts \in [Ops -> Nat] /\ recorded \subseteq Ops
    BY <1>1, <1>2 DEF IInv, TypeOK
  <1>4. /\ ToSet(new.todo) \subseteq ToSet(plan) /\ ToSet(plan) \subseteq Ops
        /\ plan # <<>> => Head(plan) \in ToSet(plan) \ ToSet(new.todo)
    BY <1>2, <1>3, TailResult, EmptyList DEF Fits
  <1>5. Solo'
    BY <1>1 DEF NoteAlone, Solo
  <1>6. ASSUME NEW q \in alone', NEW o \in ToSet(run'[q].todo) PROVE rest'[o] = Interval
    <2>1. q \in Runs
      BY <1>1 DEF IInv, TypeOK
    <2>2. CASE q = r
      <3>1. plan # <<>> /\ o \in ToSet(plan) /\ o # Head(plan)
        BY <1>2, <1>3, <1>4, <1>6, <2>2, EmptyList
      <3>2. rest'[o] = rest[o]
        BY <1>2, <1>4, <3>1
      <3>3. QED
        BY <1>6, <2>2, <3>1, <3>2
    <2>3. CASE q # r
      <3>1. run'[q] = run[q] /\ q \in alone /\ run'[r].phase = "idle"
        BY <1>1, <1>3, <1>6, <2>1, <2>3 DEF NoteAlone
      <3>2. rest[o] = Interval
        BY <1>6, <3>1 DEF SInv, Rested
      <3>3. run[r].phase = "idle"
        BY <2>3, <3>1 DEF SInv, Solo
      <3>4. CASE plan = <<>>
        BY <1>2, <3>2, <3>4
      <3>5. CASE plan # <<>>
        BY <1>2, <1>3, <3>1, <3>5
      <3>6. QED
        BY <3>4, <3>5
    <2>4. QED
      BY <2>2, <2>3
  <1>7. ASSUME NEW q \in Runs, NEW o \in Ops,
               q \in alone', run'[q] # run[q], attempts'[o] > attempts[o]
        PROVE  rest[o] = Interval
    <2>1. q = r
      BY <1>3, <1>7
    <2>2. plan # <<>> /\ o = Head(plan)
      BY <1>2, <1>3, <1>7
    <2>3. QED
      BY <1>4, <1>7, <2>1, <2>2
  <1>8. QED
    BY <1>5, <1>6, <1>7 DEF Rested

(* A step that is no run's next one leaves lists and rests alone, or lets  *)
(* the operations rest.                                                    *)
LEMMA OtherRested ==
  ASSUME SInv, TypeOK', alone' = alone, attempts' = attempts,
         \A r \in Runs : /\ run'[r].todo = run[r].todo
                         /\ run[r].phase = "idle" => run'[r].phase = "idle",
         \A o \in Ops : rest[o] = Interval => rest'[o] = Interval
  PROVE  /\ Solo' /\ Rested'
         /\ \A q \in Runs, o \in Ops :
               (q \in alone' /\ run'[q] # run[q] /\ attempts'[o] > attempts[o])
                   => rest[o] = Interval
  <1>1. TypeOK /\ Solo /\ Rested
    BY DEF SInv, IInv
  <1>2. Solo'
    BY <1>1 DEF TypeOK, Solo
  <1>3. ASSUME NEW r \in alone, NEW o \in ToSet(run[r].todo) PROVE rest'[o] = Interval
    <2>1. r \in Runs /\ run[r].todo \in Seq(Ops)
      BY <1>1 DEF TypeOK, RunState
    <2>2. o \in Ops
      BY <2>1 DEF ToSet
    <2>3. QED
      BY <1>1, <2>2 DEF Rested
  <1>4. Rested'
    <2>1. \A r \in alone : run'[r].todo = run[r].todo
      BY <1>1 DEF TypeOK
    <2>2. QED
      BY <1>3, <2>1 DEF Rested
  <1>5. \A o \in Ops : ~(attempts'[o] > attempts[o])
    BY <1>1 DEF TypeOK
  <1>6. QED
    BY <1>2, <1>4, <1>5

Spaced ==
    \A r \in Runs, o \in Ops :
        (r \in alone' /\ run'[r] # run[r] /\ attempts'[o] > attempts[o])
            => rest[o] = Interval

LEMMA NextSpaced == SInv /\ [Next]_vars => Solo' /\ Rested' /\ Spaced
  <1> SUFFICES ASSUME SInv, [Next]_vars PROVE Solo' /\ Rested' /\ Spaced
    OBVIOUS
  <1>1. IInv /\ TypeOK /\ IInv' /\ TypeOK' /\ Solo /\ Rested /\ KnownOnly
    BY NextInvariant DEF SInv, IInv
  <1>2. ASSUME NEW r \in Runs, StartRun(r) PROVE Solo' /\ Rested' /\ Spaced
    <2>1. CarriesOn(r, Batch) /\ Fits(r, Batch)
      BY <1>1, <1>2, StartCarriesOn
    <2>2. \A o \in ToSet(Batch) : rest[o] = Interval
      BY <1>1, BatchRested
    <2>3. QED
      BY <2>1, <2>2, ProceedRested DEF Spaced
  <1>3. ASSUME NEW r \in Runs, ContinueRun(r) PROVE Solo' /\ Rested' /\ Spaced
    <2>1. CarriesOn(r, run[r].todo) /\ Fits(r, run[r].todo)
      BY <1>1, <1>3, ContinueCarriesOn
    <2>2. r \in alone' => r \in alone
      BY <1>3 DEF ContinueRun, NoteAlone
    <2>3. r \in alone' => \A o \in ToSet(run[r].todo) : rest[o] = Interval
      BY <1>1, <2>2 DEF Rested
    <2>4. QED
      BY <2>1, <2>3, ProceedRested DEF Spaced
  <1>4. ASSUME NEW r \in Runs, NEW a \in Adapters, RepairSucceeds(r, a) \/ RepairFails(r, a)
        PROVE  Solo' /\ Rested' /\ Spaced
    <2>1. /\ UNCHANGED <<alone, attempts, rest>> /\ run[r].phase = "executing"
          /\ \/ run' = [run EXCEPT ![r].on = @ \ {a}]
             \/ run' = [run EXCEPT ![r] =
                           [IdleRun EXCEPT !.phase = "between", !.todo = run[r].todo]]
      BY <1>4 DEF RepairSucceeds, RepairFails, RequestAnswered, Between, clocks
    <2>2. run'[r].todo = run[r].todo /\ \A q \in Runs \ {r} : run'[q] = run[q]
      BY <1>1, <2>1 DEF TypeOK, RunState, IdleRun
    <2>3. \A q \in Runs : /\ run'[q].todo = run[q].todo
                          /\ run[q].phase = "idle" => run'[q].phase = "idle"
      BY <2>1, <2>2
    <2>4. QED
      BY <1>1, <2>1, <2>3, OtherRested DEF Spaced
  <1>5. ASSUME NEW o \in Ops, RecordFailedOperation(o) PROVE Solo' /\ Rested' /\ Spaced
    BY <1>1, <1>5, OtherRested DEF Spaced, RecordFailedOperation, clocks
  <1>6. ASSUME NEW a \in Adapters, HealthChanges(a) PROVE Solo' /\ Rested' /\ Spaced
    BY <1>1, <1>6, OtherRested DEF Spaced, HealthChanges, clocks
  <1>7. ASSUME Initialize \/ Shutdown \/ UNCHANGED vars PROVE Solo' /\ Rested' /\ Spaced
    BY <1>1, <1>7, OtherRested DEF Spaced, Initialize, Shutdown, vars, clocks
  <1>8. ASSUME Tick PROVE Solo' /\ Rested' /\ Spaced
    <2>1. \A o \in Ops : rest[o] = Interval => rest'[o] = Interval
      BY <1>8, RepairAssumption DEF Tick
    <2>2. QED
      BY <1>1, <1>8, <2>1, OtherRested DEF Spaced, Tick
  <1>9. QED
    BY <1>2, <1>3, <1>4, <1>5, <1>6, <1>7, <1>8 DEF Next, Progress

(* As long as runs do not overlap, the attempts of an operation are an     *)
(* interval apart, however many operations, adapters and runs there are    *)
(* (shouldRepairOperation).                                                *)
THEOREM AttemptsAreSpaced == Spec => SpacedAlone
  <1>1. Init => SInv
    BY InitInvariant DEF SInv, Init, Solo, Rested
  <1>2. SInv /\ [Next]_vars => SInv'
    BY NextInvariant, NextSpaced DEF SInv
  <1>3. SInv /\ [Next]_vars =>
          [\A r \in Runs, o \in Ops :
             (r \in alone' /\ run'[r] # run[r] /\ attempts'[o] > attempts[o])
                => rest[o] = Interval]_vars
    BY NextSpaced DEF Spaced
  <1>4. QED
    BY <1>1, <1>2, <1>3, PTL DEF Spec, SpacedAlone
=============================================================================
