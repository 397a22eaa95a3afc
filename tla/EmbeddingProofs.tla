--------------------------- MODULE EmbeddingProofs ----------------------------
(***************************************************************************)
(* What is proved of the embedding side of the SDK and of its events: the   *)
(* model cache, alone and under the generator, the generator itself, the    *)
(* EventEmitter, and the ranking and the search built on the embeddings.    *)
(***************************************************************************)
EXTENDS EmbeddingGenerator, EventEmitter, SemanticSearch, ListsProofs

-----------------------------------------------------------------------------
(* The model cache.  Whoever loads a record is one caller, a record that   *)
(* is loaded has no pipeline yet, and every record that has left the table *)
(* or that a disposal has passed is disposed or overtaken.                 *)

Starters(r) == {c \in Callers : at[c] = "starting" /\ rec[c] = r}

LoadsStarted ==
    \A r \in Records : loading[r] =>
        /\ r <= created /\ pipeline[r] = "none"
        /\ \E c \in Callers : Starters(r) = {c}

NobodyWaits ==
    /\ \A r \in Records : ~loading[r] => \A c \in Callers : ~Waits(c, r)
    /\ \A c \in Callers : at[c] \in {"starting", "joined"} => rec[c] # 0

PassedRecords ==
    /\ \A r \in Records : r > created => pipeline[r] = "none"
    /\ \A r \in 1..created :
          r \notin cached \/ (\E d \in disposing : r <= pos[d]) =>
              pipeline[r] = "disposed" \/ r \in overtaken

ModelIInv ==
    /\ ModelTypeOK /\ LoadsStarted /\ NobodyWaits /\ PassedRecords
    /\ DisposedLeaveTheTable

(* The steps of the cache, whoever takes them: its own, and a generator    *)
(* that drops the answer of a failed load.                                 *)
ModelStep ==
    \/ ModelNext
    \/ \E c \in Callers : /\ at[c] = "failed" /\ Hold(c, "idle", 0)
                          /\ UNCHANGED <<recordVars, disposalVars>>
    \/ UNCHANGED modelVars

LEMMA ModelInitInvariant == ModelInit => ModelIInv
  <1> SUFFICES ASSUME ModelInit PROVE ModelIInv
    OBVIOUS
  <1> USE DEF ModelInit
  <1>1. ModelTypeOK
    <2>1. (CHOOSE m \in Models : TRUE) \in Models
      BY ModelCacheAssumption
    <2>2. created \in 0..MaxRecords /\ pos \in [Disposers -> 0..created] /\ rec \in [Callers -> 0..created]
      BY ModelCacheAssumption
    <2>3. modelOf \in [Records -> Models]
      BY <2>1
    <2>4. /\ cached \subseteq 1..created /\ overtaken \subseteq 1..created
          /\ pipeline \in [Records -> {"none", "live", "disposed"}]
          /\ loading \in [Records -> BOOLEAN]
          /\ at \in [Callers -> {"idle", "starting", "joined", "using", "failed"}]
          /\ disposing \subseteq Disposers /\ patched \in BOOLEAN
      OBVIOUS
    <2>5. QED
      BY <2>2, <2>3, <2>4 DEF ModelTypeOK
  <1>2. LoadsStarted /\ NobodyWaits /\ DisposedLeaveTheTable
    BY DEF LoadsStarted, NobodyWaits, Waits, DisposedLeaveTheTable
  <1>3. PassedRecords
    BY DEF PassedRecords
  <1>4. QED
    BY <1>1, <1>2, <1>3 DEF ModelIInv

(* A load of record r begins, or a caller joins it or gets the pipeline.   *)
LEMMA AskOK ==
  ASSUME ModelIInv, NEW c \in Callers, NEW m \in Models, Ask(c, m)
  PROVE  ModelIInv'
  <1>1. at[c] \in {"idle", "failed"}
    BY DEF Ask
  <1>2. /\ ModelTypeOK /\ LoadsStarted /\ NobodyWaits /\ PassedRecords
        /\ DisposedLeaveTheTable
    BY DEF ModelIInv
  <1> USE DEF Records
  <1>3. CASE \E r \in cached : AskRecord(c, r)
    <2>1. PICK r \in cached : AskRecord(c, r)
      BY <1>3
    <2>2. /\ r \in Records /\ r \in 1..created /\ r # 0
          /\ UNCHANGED <<created, modelOf, cached, pipeline, disposalVars>>
      BY <1>2, <2>1, ModelCacheAssumption DEF ModelTypeOK, AskRecord
    <2>3. CASE /\ Hold(c, "using", r) /\ UNCHANGED <<loading, patched>>
      <3>1. \A q \in Records : Starters(q)' = Starters(q)
        BY <1>1, <1>2, <2>3 DEF Starters, Hold, ModelTypeOK
      <3>2. ModelTypeOK'
        BY <1>2, <2>2, <2>3 DEF ModelTypeOK, Hold, disposalVars
      <3>3. LoadsStarted'
        BY <1>2, <2>2, <2>3, <3>1 DEF LoadsStarted
      <3>4. NobodyWaits'
        BY <1>2, <2>2, <2>3 DEF NobodyWaits, Waits, Hold, ModelTypeOK
      <3>5. PassedRecords' /\ DisposedLeaveTheTable'
        BY <1>2, <2>2 DEF PassedRecords, DisposedLeaveTheTable, disposalVars
      <3>6. QED
        BY <3>2, <3>3, <3>4, <3>5 DEF ModelIInv
    <2>4. CASE /\ loading[r] /\ Hold(c, "joined", r) /\ UNCHANGED <<loading, patched>>
      <3>1. \A q \in Records : Starters(q)' = Starters(q)
        BY <1>1, <1>2, <2>4 DEF Starters, Hold, ModelTypeOK
      <3>2. ModelTypeOK'
        BY <1>2, <2>2, <2>4 DEF ModelTypeOK, Hold, disposalVars
      <3>3. LoadsStarted'
        BY <1>2, <2>2, <2>4, <3>1 DEF LoadsStarted
      <3>4. NobodyWaits'
        BY <1>2, <2>2, <2>4 DEF NobodyWaits, Waits, Hold, ModelTypeOK
      <3>5. PassedRecords' /\ DisposedLeaveTheTable'
        BY <1>2, <2>2 DEF PassedRecords, DisposedLeaveTheTable, disposalVars
      <3>6. QED
        BY <3>2, <3>3, <3>4, <3>5 DEF ModelIInv
    <2>5. CASE /\ pipeline[r] = "none" /\ ~loading[r] /\ StartLoad(c, r)
      <3>1. \A q \in Records : Starters(q)' = IF q = r THEN {c} ELSE Starters(q)
        BY <1>1, <1>2, <2>2, <2>5 DEF Starters, StartLoad, Hold, ModelTypeOK, NobodyWaits, Waits
      <3>2. ModelTypeOK'
        BY <1>2, <2>2, <2>5 DEF ModelTypeOK, StartLoad, Hold, disposalVars
      <3>3. LoadsStarted'
        BY <1>2, <2>2, <2>5, <3>1 DEF LoadsStarted, StartLoad, ModelTypeOK
      <3>4. NobodyWaits'
        BY <1>2, <2>2, <2>5 DEF NobodyWaits, Waits, StartLoad, Hold, ModelTypeOK
      <3>5. PassedRecords' /\ DisposedLeaveTheTable'
        BY <1>2, <2>2 DEF PassedRecords, DisposedLeaveTheTable, disposalVars
      <3>6. QED
        BY <3>2, <3>3, <3>4, <3>5 DEF ModelIInv
    <2>6. QED
      BY <2>1, <2>3, <2>4, <2>5 DEF AskRecord
  <1>4. CASE AskNew(c, m)
    <2> DEFINE r == created + 1
    <2>1. /\ r \in Records /\ created \in Nat /\ r \notin 1..created /\ r # 0
          /\ created' = r /\ modelOf' = [modelOf EXCEPT ![r] = m]
          /\ cached' = cached \cup {r} /\ StartLoad(c, r)
          /\ UNCHANGED <<pipeline, disposalVars>>
      BY <1>2, <1>4, ModelCacheAssumption DEF AskNew, ModelTypeOK
    <2>2. pipeline[r] = "none" /\ ~loading[r] /\ 1..created' = 1..created \cup {r}
      BY <1>2, <2>1 DEF PassedRecords, LoadsStarted
    <2> HIDE DEF r
    <2>3. \A q \in Records : Starters(q)' = IF q = r THEN {c} ELSE Starters(q)
      BY <1>1, <1>2, <2>1, <2>2 DEF Starters, StartLoad, Hold, ModelTypeOK, NobodyWaits, Waits
    <2>4. ModelTypeOK'
      BY <1>2, <2>1, <2>2 DEF ModelTypeOK, StartLoad, Hold, disposalVars, r
    <2>5. LoadsStarted'
      <3>1. loading' = [loading EXCEPT ![r] = TRUE] /\ loading \in [Records -> BOOLEAN]
        BY <1>2, <2>1 DEF StartLoad, ModelTypeOK
      <3>2. /\ created' = r /\ created < r /\ r <= r /\ pipeline' = pipeline
            /\ \A q \in Records : q <= created => q <= r
        BY <2>1 DEF r
      <3>3. \A q \in Records \ {r} : loading'[q] = loading[q] /\ Starters(q)' = Starters(q)
        BY <2>3, <3>1
      <3>4. \A q \in Records : q = r => \E b \in Callers : Starters(q)' = {b}
        BY <2>1, <2>3
      <3>5. \A q \in Records \ {r} : loading'[q] =>
               q <= created' /\ pipeline'[q] = "none" /\ \E b \in Callers : Starters(q)' = {b}
        BY <1>2, <3>2, <3>3 DEF LoadsStarted
      <3>6. QED
        BY <2>1, <2>2, <3>2, <3>4, <3>5 DEF LoadsStarted
    <2>6. NobodyWaits'
      BY <1>2, <2>1, <2>2 DEF NobodyWaits, Waits, StartLoad, Hold, ModelTypeOK
    <2>7. PassedRecords'
      <3>1. \A d \in disposing : pos[d] < r
        BY <1>2, <2>1 DEF ModelTypeOK, r
      <3>2. \A q \in Records : q > created' => q > created
        BY <2>1 DEF r
      <3>3. \A q \in Records : q > created' => pipeline'[q] = "none"
        BY <1>2, <2>1, <3>2 DEF PassedRecords
      <3>4. ASSUME NEW q \in 1..created', q \notin cached' \/ \E d \in disposing' : q <= pos'[d]
            PROVE  pipeline'[q] = "disposed" \/ q \in overtaken'
        <4>1. q # r
          BY <2>1, <3>1, <3>4, <1>2 DEF disposalVars, ModelTypeOK
        <4>2. q \in 1..created
          BY <2>2, <4>1
        <4>3. q \notin cached \/ \E d \in disposing : q <= pos[d]
          BY <2>1, <3>4, <4>1 DEF disposalVars
        <4>4. QED
          BY <1>2, <2>1, <4>2, <4>3 DEF PassedRecords, disposalVars
      <3>5. QED
        BY <3>3, <3>4 DEF PassedRecords
    <2>8. DisposedLeaveTheTable'
      BY <1>2, <2>1, <2>2 DEF DisposedLeaveTheTable, disposalVars
    <2>9. QED
      BY <2>4, <2>5, <2>6, <2>7, <2>8 DEF ModelIInv
  <1>5. QED
    BY <1>3, <1>4 DEF Ask

(* A load ends, well or not.                                               *)
LEMMA SettlesOK ==
  ASSUME ModelIInv, NEW r \in Records, LoadSucceeds(r) \/ LoadFails(r)
  PROVE  ModelIInv'
  <1>1. /\ ModelTypeOK /\ LoadsStarted /\ NobodyWaits /\ PassedRecords
        /\ DisposedLeaveTheTable
    BY DEF ModelIInv
  <1>2. PICK phase \in {"using", "failed"} : Settle(r, phase)
    BY DEF LoadSucceeds, LoadFails
  <1>3. /\ r \in 1..created /\ pipeline[r] = "none" /\ r # 0
        /\ loading' = [loading EXCEPT ![r] = FALSE]
        /\ at' = [c \in Callers |-> IF Waits(c, r) THEN phase ELSE at[c]]
        /\ UNCHANGED <<created, modelOf, cached, patched, rec, disposalVars>>
    BY <1>1, <1>2, ModelCacheAssumption
    DEF LoadSucceeds, LoadFails, Settle, LoadsStarted, Records, ModelTypeOK
  <1>4. /\ pipeline' \in [Records -> {"none", "live", "disposed"}]
        /\ \A q \in Records : q # r => pipeline'[q] = pipeline[q]
        /\ pipeline'[r] # "disposed"
    BY <1>1, <1>3 DEF LoadSucceeds, LoadFails, ModelTypeOK
  <1>5. \A q \in Records : q # r => Starters(q)' = Starters(q)
    BY <1>1, <1>3 DEF Starters, Waits
  <1>6. ModelTypeOK'
    BY <1>1, <1>3, <1>4 DEF ModelTypeOK, disposalVars
  <1>7. LoadsStarted'
    BY <1>1, <1>3, <1>4, <1>5 DEF LoadsStarted, ModelTypeOK
  <1>8. NobodyWaits'
    BY <1>1, <1>3 DEF NobodyWaits, Waits, ModelTypeOK
  <1>9. PassedRecords'
    <2>1. \A q \in 1..created : q \in Records
      BY <1>1, ModelCacheAssumption DEF ModelTypeOK, Records
    <2>2. r \notin cached \/ (\E d \in disposing : r <= pos[d]) => r \in overtaken
      BY <1>1, <1>3 DEF PassedRecords
    <2>3. ~(r > created)
      BY <1>1, <1>3 DEF ModelTypeOK
    <2>4. QED
      BY <1>1, <1>3, <1>4, <2>1, <2>2, <2>3 DEF PassedRecords, disposalVars
  <1>10. DisposedLeaveTheTable'
    BY <1>1, <1>3, <1>4, ModelCacheAssumption
    DEF DisposedLeaveTheTable, disposalVars, ModelTypeOK, Records
  <1>11. QED
    BY <1>6, <1>7, <1>8, <1>9, <1>10 DEF ModelIInv

(* A caller lets go of the record it holds.                                *)
LEMMA LetGoOK ==
  ASSUME ModelIInv, NEW c \in Callers, at[c] \in {"using", "failed"},
         NEW phase \in {"idle", "failed"}, Hold(c, phase, 0),
         UNCHANGED <<recordVars, disposalVars>>
  PROVE  ModelIInv'
  <1>1. /\ ModelTypeOK /\ LoadsStarted /\ NobodyWaits /\ PassedRecords
        /\ DisposedLeaveTheTable
    BY DEF ModelIInv
  <1> USE DEF recordVars, disposalVars
  <1>2. \A r \in Records : Starters(r)' = Starters(r)
    BY <1>1 DEF Starters, Hold, ModelTypeOK
  <1>3. ModelTypeOK'
    BY <1>1 DEF ModelTypeOK, Hold
  <1>4. LoadsStarted'
    BY <1>1, <1>2 DEF LoadsStarted
  <1>5. NobodyWaits'
    BY <1>1 DEF NobodyWaits, Waits, Hold, ModelTypeOK
  <1>6. PassedRecords' /\ DisposedLeaveTheTable'
    BY <1>1 DEF PassedRecords, DisposedLeaveTheTable
  <1>7. QED
    BY <1>3, <1>4, <1>5, <1>6 DEF ModelIInv

(* disposeAllModels goes on from the record at p.                          *)
LEMMA VisitOK ==
  ASSUME ModelIInv, NEW d \in Disposers, NEW p,
         (d \notin disposing /\ p = 0) \/ (d \in disposing /\ p = pos[d]), Visit(d, p),
         UNCHANGED <<created, modelOf, loading, patched, at, rec>>
  PROVE  ModelIInv'
  <1>1. /\ ModelTypeOK /\ LoadsStarted /\ NobodyWaits /\ PassedRecords
        /\ DisposedLeaveTheTable
    BY DEF ModelIInv
  <1>2. /\ \A r \in Records : Starters(r)' = Starters(r)
        /\ NobodyWaits'
    BY <1>1 DEF Starters, NobodyWaits, Waits
  <1>3. /\ p \in 0..created /\ created \in Nat /\ cached \subseteq 1..created
        /\ 1..created \subseteq Records
    BY <1>1, ModelCacheAssumption DEF ModelTypeOK, Records
  <1>4. \A r \in 1..created :
           r \notin cached \/ r <= p => pipeline[r] = "disposed" \/ r \in overtaken
    BY <1>1, <1>3 DEF PassedRecords
  <1>5. CASE /\ WithPipeline(p) = {}
             /\ cached' = {}
             /\ Leaves(d)
             /\ overtaken' = overtaken \cup {r \in cached : r > p}
             /\ UNCHANGED pipeline
    <2>1. ModelTypeOK'
      <3>1. /\ cached' \subseteq 1..created /\ pos' \in [Disposers -> 0..created]
            /\ overtaken' \subseteq 1..created /\ disposing' \subseteq Disposers
        <4>1. overtaken \subseteq 1..created /\ overtaken' \subseteq overtaken \cup cached
          BY <1>1, <1>5 DEF ModelTypeOK
        <4>2. 0 \in 0..created /\ pos \in [Disposers -> 0..created] /\ disposing \subseteq Disposers
          BY <1>1, <1>3 DEF ModelTypeOK
        <4>3. QED
          BY <1>3, <1>5, <4>1, <4>2 DEF Leaves
      <3>2. /\ created' = created /\ created' \in 0..MaxRecords /\ patched' \in BOOLEAN
            /\ modelOf' \in [Records -> Models] /\ loading' \in [Records -> BOOLEAN]
            /\ at' \in [Callers -> {"idle", "starting", "joined", "using", "failed"}]
            /\ rec' \in [Callers -> 0..created]
        BY <1>1 DEF ModelTypeOK
      <3>3. pipeline' \in [Records -> {"none", "live", "disposed"}]
        BY <1>1, <1>5 DEF ModelTypeOK
      <3>4. QED
        BY <3>1, <3>2, <3>3 DEF ModelTypeOK
    <2>2. LoadsStarted'
      BY <1>1, <1>2, <1>5 DEF LoadsStarted
    <2>3. PassedRecords'
      <3>1. \A r \in 1..created : pipeline[r] = "disposed" \/ r \in overtaken'
        BY <1>3, <1>4, <1>5
      <3>2. QED
        BY <1>1, <1>5, <3>1 DEF PassedRecords
    <2>4. DisposedLeaveTheTable'
      BY <1>5 DEF DisposedLeaveTheTable
    <2>5. QED
      BY <1>2, <2>1, <2>2, <2>3, <2>4 DEF ModelIInv
  <1>6. CASE \E r \in WithPipeline(p) :
             /\ \A s \in WithPipeline(p) : r <= s
             /\ pipeline' = [pipeline EXCEPT ![r] = "disposed"]
             /\ disposing' = disposing \cup {d} /\ pos' = [pos EXCEPT ![d] = r]
             /\ overtaken' = overtaken \cup {s \in cached : p < s /\ s < r}
             /\ UNCHANGED cached
    <2>1. PICK r \in WithPipeline(p) :
             /\ \A s \in WithPipeline(p) : r <= s
             /\ pipeline' = [pipeline EXCEPT ![r] = "disposed"]
             /\ disposing' = disposing \cup {d} /\ pos' = [pos EXCEPT ![d] = r]
             /\ overtaken' = overtaken \cup {s \in cached : p < s /\ s < r}
             /\ UNCHANGED cached
      BY <1>6
    <2>2. r \in cached /\ r \in 1..created /\ r \in Records /\ r > p /\ pipeline[r] # "none"
      BY <1>3 DEF WithPipeline
    <2>3. ModelTypeOK'
      <3>1. /\ cached' \subseteq 1..created /\ pos' \in [Disposers -> 0..created]
            /\ overtaken' \subseteq 1..created /\ disposing' \subseteq Disposers
        <4>1. overtaken \subseteq 1..created /\ overtaken' \subseteq overtaken \cup cached
          BY <1>1, <2>1 DEF ModelTypeOK
        <4>2. r \in 0..created /\ pos \in [Disposers -> 0..created] /\ disposing \subseteq Disposers
          BY <1>1, <1>3, <2>2 DEF ModelTypeOK
        <4>3. QED
          BY <1>3, <2>1, <4>1, <4>2
      <3>2. pipeline' \in [Records -> {"none", "live", "disposed"}]
        BY <1>1, <2>1, <2>2 DEF ModelTypeOK
      <3>3. /\ created' = created /\ created' \in 0..MaxRecords /\ patched' \in BOOLEAN
            /\ modelOf' \in [Records -> Models] /\ loading' \in [Records -> BOOLEAN]
            /\ at' \in [Callers -> {"idle", "starting", "joined", "using", "failed"}]
            /\ rec' \in [Callers -> 0..created]
        BY <1>1 DEF ModelTypeOK
      <3>4. QED
        BY <3>1, <3>2, <3>3 DEF ModelTypeOK
    <2>4. LoadsStarted'
      BY <1>1, <1>2, <2>1, <2>2 DEF LoadsStarted, ModelTypeOK
    <2>5. PassedRecords'
      <3>1. ASSUME NEW q \in 1..created, q \notin cached \/ q <= r \/ \E e \in disposing : q <= pos[e]
            PROVE  pipeline'[q] = "disposed" \/ q \in overtaken'
        <4>1. CASE q = r
          BY <1>1, <2>1, <2>2, <4>1 DEF ModelTypeOK
        <4>0. CASE q # r /\ \E e \in disposing : q <= pos[e]
          BY <1>1, <1>3, <2>1, <4>0 DEF ModelTypeOK, PassedRecords
        <4>2. CASE q # r /\ (q \notin cached \/ q <= p)
          BY <1>1, <1>3, <1>4, <2>1, <4>2 DEF ModelTypeOK
        <4>3. CASE q # r /\ q \in cached /\ ~(q <= p)
          <5>1. ~(q <= r) \/ (q < r /\ p < q)
            BY <1>3, <2>2, <4>3
          <5>2. QED
            BY <2>1, <3>1, <4>0, <4>3, <5>1
        <4>4. QED
          BY <4>0, <4>1, <4>2, <4>3
      <3>2. \A q \in Records : q > created => pipeline'[q] = "none"
        BY <1>1, <1>3, <2>1, <2>2 DEF PassedRecords, ModelTypeOK
      <3>3. \A q \in Nat : (\E e \in disposing' : q <= pos'[e]) =>
                             q <= r \/ \E e \in disposing : q <= pos[e]
        BY <1>1, <2>1 DEF ModelTypeOK
      <3>4. QED
        BY <1>3, <2>1, <3>1, <3>2, <3>3 DEF PassedRecords
    <2>6. DisposedLeaveTheTable'
      BY <2>1 DEF DisposedLeaveTheTable
    <2>7. QED
      BY <1>2, <2>3, <2>4, <2>5, <2>6 DEF ModelIInv
  <1>7. QED
    BY <1>5, <1>6 DEF Visit

LEMMA ModelStepInvariant == ModelIInv /\ ModelStep => ModelIInv'
  <1> SUFFICES ASSUME ModelIInv, ModelStep PROVE ModelIInv'
    OBVIOUS
  <1>1. ASSUME NEW c \in Callers, NEW m \in Models, Ask(c, m) PROVE ModelIInv'
    BY <1>1, AskOK
  <1>2. ASSUME Settles PROVE ModelIInv'
    BY <1>2, SettlesOK DEF Settles
  <1>3. ASSUME NEW c \in Callers, Use(c, "idle") \/ Use(c, "failed") PROVE ModelIInv'
    BY <1>3, LetGoOK DEF Use
  <1>4. ASSUME NEW d \in Disposers, DisposeAllModels(d) \/ PipelineDisposed(d) PROVE ModelIInv'
    BY <1>4, VisitOK DEF DisposeAllModels, PipelineDisposed
  <1>5. ASSUME NEW c \in Callers, at[c] = "failed", Hold(c, "idle", 0),
               UNCHANGED <<recordVars, disposalVars>>
        PROVE  ModelIInv'
    BY <1>5, LetGoOK
  <1>6. ASSUME UNCHANGED modelVars PROVE ModelIInv'
    BY <1>6
    DEF modelVars, recordVars, disposalVars, ModelIInv, ModelTypeOK, LoadsStarted, Starters,
        NobodyWaits, Waits, PassedRecords, DisposedLeaveTheTable
  <1>7. QED
    BY <1>1, <1>2, <1>3, <1>4, <1>5, <1>6 DEF ModelStep, ModelNext

LEMMA ModelsSharedOK == ModelIInv => ModelsShared
  <1> SUFFICES ASSUME ModelIInv PROVE ModelsShared
    OBVIOUS
  <1>1. LoadsAreShared
    <2> SUFFICES ASSUME NEW r \in Records
                 PROVE  /\ Cardinality(Starters(r)) = IF loading[r] THEN 1 ELSE 0
                        /\ loading[r] \/ \A c \in Callers : ~Waits(c, r)
      BY DEF LoadsAreShared, Starters
    <2>1. CASE loading[r]
      BY <2>1, FS_Singleton DEF ModelIInv, LoadsStarted
    <2>2. CASE ~loading[r]
      <3>1. Starters(r) = {} /\ \A c \in Callers : ~Waits(c, r)
        BY <2>2 DEF ModelIInv, NobodyWaits, Waits, Starters
      <3>2. QED
        BY <2>2, <3>1, FS_EmptySet
    <2>3. QED
      BY <2>1, <2>2
  <1>2. OnlyOvertakenLost
    <2>1. ASSUME NEW r \in Records \ cached, pipeline[r] = "live" PROVE r \in overtaken
      <3>1. r \in 1..created
        BY <2>1 DEF ModelIInv, PassedRecords, ModelTypeOK, Records
      <3>2. QED
        BY <2>1, <3>1 DEF ModelIInv, PassedRecords
    <2>2. QED
      BY <2>1 DEF OnlyOvertakenLost
  <1>3. QED
    BY <1>1, <1>2 DEF ModelsShared, ModelIInv

(* Whatever loads, failures, uses and disposals interleave: one load of a  *)
(* record at a time, no disposed pipeline left in the table, and no live   *)
(* one outside it but those a disposal overtook (transformers-adapter.ts). *)
THEOREM CallersShareModels == ModelSpec => []ModelsShared
  <1>1. ModelIInv /\ [ModelNext]_modelVars => ModelIInv'
    BY ModelStepInvariant DEF ModelStep
  <1>2. QED
    BY ModelInitInvariant, <1>1, ModelsSharedOK, PTL DEF ModelSpec

-----------------------------------------------------------------------------
(* The generator.  x may stand for the embedding of a text with key k; of   *)
(* nothing is that told once results were merged (m).                      *)
Right(m, k, x) ==
    /\ x \in Texts \cup {Merged}
    /\ m \/ (x \in Texts /\ KeyOf[x] = k)

Tables == [entries: [Keys -> Texts \cup {None, Merged}], order: Seq(Keys)]

(* The entries of the cache are those that order lists, each under the key *)
(* of its text.                                                            *)
TableOK(m, t) ==
    /\ t \in Tables
    /\ IsInjective(t.order) /\ {k \in Keys : t.entries[k] # None} = ToSet(t.order)
    /\ \A k \in Keys : t.entries[k] # None => Right(m, k, t.entries[k])

LEMMA SetCachedOK ==
  ASSUME NEW m \in BOOLEAN, NEW t, TableOK(m, t), NEW text \in Texts, NEW x, Right(m, KeyOf[text], x)
  PROVE  TableOK(m, SetCached(t, text, x))
  <1> DEFINE k == KeyOf[text]
             entries == [t.entries EXCEPT ![k] = x]
             without == Keep(t.order, Keys \ {k})
             order == Append(without, k)
             toRemove == IF Len(order) > CacheLimit THEN Len(order) \div EvictionShare ELSE 0
             kept == SubSeq(order, toRemove + 1, Len(order))
             r == SetCached(t, text, x)
  <1>1. /\ t.entries \in [Keys -> Texts \cup {None, Merged}] /\ t.order \in Seq(Keys)
        /\ IsInjective(t.order) /\ k \in Keys /\ x \in Texts \cup {Merged}
        /\ ToSet(t.order) \subseteq Keys
    BY GeneratorAssumption DEF TableOK, Tables, Right, ToSet
  <1>2. r = [entries |-> [j \in Keys |-> IF j \in ToSet(kept) THEN entries[j] ELSE None],
             order |-> kept]
    BY DEF SetCached
  <1>3. /\ without \in Seq(Keys) /\ IsInjective(without)
        /\ ToSet(without) = ToSet(t.order) \cap (Keys \ {k})
    BY <1>1, KeepResult
  <1> HIDE DEF without
  <1>4. /\ order \in Seq(Keys) /\ IsInjective(order)
        /\ ToSet(order) = ToSet(without) \cup {k} /\ Len(order) \in Nat
    BY <1>1, <1>3, AppendResult
  <1> HIDE DEF order
  <1>5. toRemove \in 0..Len(order)
    <2>1. \A n \in Nat : n \div EvictionShare \in 0..n
      <3>1. EvictionShare \in Nat /\ EvictionShare > 0
        BY GeneratorAssumption
      <3>2. QED
        BY <3>1
    <2>2. QED
      BY <1>4, <2>1
  <1> HIDE DEF toRemove
  <1>6. toRemove + 1 \in 1..(Len(order) + 1) /\ Len(order) \in 0..Len(order)
    BY <1>4, <1>5
  <1>7. /\ kept \in Seq(Keys) /\ IsInjective(kept) /\ ToSet(kept) \subseteq ToSet(order)
    BY <1>4, <1>6, SliceResult
  <1> HIDE DEF kept
  <1>8. /\ entries \in [Keys -> Texts \cup {None, Merged}] /\ entries[k] = x
        /\ \A j \in Keys : j # k => entries[j] = t.entries[j]
    BY <1>1
  <1> HIDE DEF entries, k
  <1>9. r \in Tables
    BY <1>2, <1>7, <1>8 DEF Tables
  <1>10. \A j \in ToSet(kept) : j \in Keys /\ (j = k \/ t.entries[j] # None)
    BY <1>1, <1>3, <1>4, <1>7 DEF TableOK
  <1>11. \A j \in ToSet(kept) : entries[j] # None /\ Right(m, j, entries[j])
    <2>1. x # None
      BY <1>1, GeneratorAssumption
    <2>2. Right(m, k, x)
      BY DEF k
    <2>3. QED
      BY <1>8, <1>10, <2>1, <2>2 DEF TableOK
  <1>12. /\ \A j \in Keys : r.entries[j] = IF j \in ToSet(kept) THEN entries[j] ELSE None
         /\ r.order = kept
    BY <1>2
  <1>13. {j \in Keys : r.entries[j] # None} = ToSet(r.order)
    BY <1>10, <1>11, <1>12
  <1>14. \A j \in Keys : r.entries[j] # None => Right(m, j, r.entries[j])
    BY <1>11, <1>12
  <1>15. QED
    BY <1>7, <1>9, <1>12, <1>13, <1>14 DEF TableOK

Table == [entries |-> cache, order |-> age]

(* Storing the embeddings of the first texts one by one.                   *)
LEMMA CacheAllOK ==
  ASSUME NEW m \in BOOLEAN, TableOK(m, Table), NEW texts \in Seq(Texts), NEW embeddings \in Seq(Texts \cup {Merged}),
         Len(embeddings) <= Len(texts),
         \A i \in 1..Len(embeddings) : Right(m, KeyOf[texts[i]], embeddings[i]),
         CacheAll(texts, embeddings)
  PROVE  TableOK(m, Table')
  <1> DEFINE n == Len(embeddings)
             P == [i \in 1..n |-> i]
             D == DOMAIN P
             Good == {t \in Tables : TableOK(m, t)}
             Greatest(d) == CHOOSE x \in d : \A y \in d : x >= y
             C == [d \in SUBSET D |-> Greatest(d)]
             F == [p \in D \X Good |-> SetCached(p[2], texts[P[p[1]]], embeddings[P[p[1]]])]
             Body(g, d) == IF d = {} THEN Table
                           ELSE SetCached(g[d \ {Greatest(d)}], texts[P[Greatest(d)]], embeddings[P[Greatest(d)]])
             stored == FoldLeft(LAMBDA table, i : SetCached(table, texts[i], embeddings[i]),
                                Table, P)
  <1>1. IsFiniteSet(D) /\ n \in Nat /\ n <= Len(texts) /\ D = 1..n /\ \A i \in D : P[i] = i
    BY FS_Interval
  <1>2. \A d \in SUBSET D : d # {} => Greatest(d) \in d
    BY <1>1, LastExists
  <1>3. \A x \in D, t \in Good : F[<<x, t>>] = SetCached(t, texts[P[x]], embeddings[P[x]])
    OBVIOUS
  <1>4. \A x \in D, t \in Good : F[<<x, t>>] \in Good
    <2> SUFFICES ASSUME NEW x \in D, NEW t \in Good
                 PROVE  SetCached(t, texts[x], embeddings[x]) \in Good
      BY <1>1, <1>3
    <2>1. texts[x] \in Texts /\ Right(m, KeyOf[texts[x]], embeddings[x])
      BY <1>1
    <2>2. TableOK(m, SetCached(t, texts[x], embeddings[x]))
      BY <2>1, SetCachedOK
    <2>3. QED
      BY <2>2 DEF TableOK
  <1>5. Table \in Good
    BY DEF TableOK
  <1>6. \A d \in SUBSET D : d # {} => C[d] \in d /\ C[d] = Greatest(d)
    BY <1>2
  <1> HIDE DEF F, C, D, Good, Greatest
  <1>7. PICK g : IsFold(g, D, Good, Table, F, C)
    <2>1. Foldable(D, Good, Table, F, C)
      BY <1>1, <1>4, <1>5, <1>6 DEF Foldable
    <2>2. QED
      BY <2>1, FoldExists
  <1>8. g \in [SUBSET D -> Good] /\ \A d \in SUBSET D : g[d] = Body(g, d)
    <2> USE <1>7 DEF IsFold
    <2> SUFFICES ASSUME NEW d \in SUBSET D, d # {}
                 PROVE  g[d] = SetCached(g[d \ {Greatest(d)}], texts[P[Greatest(d)]], embeddings[P[Greatest(d)]])
      OBVIOUS
    <2>1. C[d] = Greatest(d) /\ C[d] \in D /\ d \ {C[d]} \in SUBSET D
      BY <1>6
    <2>2. g[d \ {Greatest(d)}] \in Good
      BY <2>1
    <2> HIDE DEF P
    <2>3. QED
      BY <1>3, <2>1, <2>2
  <1> DEFINE K == CHOOSE k : k = [d \in SUBSET D |-> Body(k, d)]
  <1>9. K = [d \in SUBSET D |-> Body(K, d)]
    <2>1. g = [d \in SUBSET D |-> Body(g, d)]
      <3> HIDE DEF Body
      <3>1. QED
        BY <1>8
    <2> HIDE DEF Body
    <2>2. QED
      BY <2>1
  <1>10. stored = K[D]
    BY DEF FoldLeft, MapThenFoldSet, Max, D, Greatest, Table
  <1>11. \A d \in SUBSET D : K[d] = g[d]
    <2> DEFINE T == {d \in SUBSET D : K[d] = g[d]}
    <2>1. \A d \in SUBSET D : K[d] = Body(K, d)
      <3> HIDE DEF Body, K
      <3>1. QED
        BY <1>9
    <2> HIDE DEF K
    <2>2. {} \in T
      BY <2>1, <1>8
    <2>3. ASSUME NEW d \in SUBSET D, d # {}
          PROVE  C[d] \in d /\ (d \ {C[d]} \in T => d \in T)
      <3>1. C[d] \in d /\ C[d] = Greatest(d)
        BY <2>3, <1>6
      <3>2. /\ K[d] = SetCached(K[d \ {Greatest(d)}], texts[P[Greatest(d)]], embeddings[P[Greatest(d)]])
            /\ g[d] = SetCached(g[d \ {Greatest(d)}], texts[P[Greatest(d)]], embeddings[P[Greatest(d)]])
        BY <2>1, <2>3, <1>8
      <3>3. QED
        BY <3>1, <3>2
    <2> HIDE DEF T
    <2>4. Inductive(T, D, C)
      BY <1>1, <2>2, <2>3 DEF Inductive
    <2>5. SUBSET D \subseteq T
      BY <2>4, AllParts
    <2>6. QED
      BY <2>5 DEF T
  <1> HIDE DEF K
  <1>12. stored \in Good
    BY <1>8, <1>10, <1>11
  <1>13. TableOK(m, stored)
    BY <1>12 DEF Good
  <1>14. CASE CacheResults
    <2>1. cache' = stored.entries /\ age' = stored.order
      BY <1>14 DEF CacheAll, FoldLeft, MapThenFoldSet, Max, Table
    <2> HIDE DEF stored
    <2>2. Table' = stored
      BY <1>13, <2>1 DEF Table, TableOK, Tables
    <2>3. QED
      BY <1>13, <2>2
  <1>15. CASE ~CacheResults
    <2>1. Table' = Table
      BY <1>15 DEF CacheAll, cacheVars, Table
    <2>2. QED
      BY <2>1
  <1>16. QED
    BY <1>14, <1>15

-----------------------------------------------------------------------------
(* The requests.                                                           *)
Kinds == {"none", "single", "batch", "preload"}

CallSet ==
    [kind : Kinds, texts : Seq(Texts), open : Seq(Nat), answers : Seq(Texts \cup {None, Merged}),
     got : Seq(Texts \cup {Merged}), attempt : 0..MaxRetries, slice : Nat, phase : Phases,
     on : 0..MaxCreations]

SingleOK(m, x) ==
    /\ Len(x.texts) = 1
    /\ x.phase = "done" =>
          /\ Len(x.answers) = 1 /\ Right(m, KeyOf[x.texts[1]], x.answers[1])
          /\ m \/ x.open = <<>> \/ x.answers[1] = x.texts[1]

(* The results got so far are those of the open texts from the first on,   *)
(* and what is not open, or is done, is answered.                          *)
Collecting(m, x) ==
    /\ x.slice * BatchSize < Len(x.open)
    /\ Len(x.got) <= x.slice * BatchSize
    /\ m \/ /\ Len(x.got) = x.slice * BatchSize
            /\ \A j \in 1..Len(x.got) : x.got[j] = x.texts[x.open[j]]

BatchOK(m, x) ==
    /\ ToSet(x.open) \subseteq DOMAIN x.texts
    /\ Len(x.answers) = Len(x.texts)
    /\ x.phase # "done" => Collecting(m, x)
    /\ \A i \in DOMAIN x.texts :
          /\ i \notin ToSet(x.open) => Right(m, KeyOf[x.texts[i]], x.answers[i])
          /\ i \in ToSet(x.open) /\ x.phase = "done" =>
                m \/ (x.answers[i] = x.texts[i] /\ x.texts[i] \in Texts)

CallOK(m, x) ==
    /\ x \in CallSet
    /\ x.kind \in {"none", "preload"} => x.open = <<>>
    /\ x.kind = "none" => x.phase = "idle"
    /\ x.kind = "single" => SingleOK(m, x)
    /\ x.kind = "batch" => BatchOK(m, x)

(* What a request stands for in requests - hits: the hits of a batch are   *)
(* counted when it starts, its requests when it ends.                      *)
Weight(x) ==
    IF x.kind = "batch" /\ x.phase # "done" THEN Len(x.open) - Len(x.texts)
                                            ELSE Len(x.open)
Weights == [c \in Callers |-> Weight(call[c])]

Counted ==
    /\ requests \in Nat /\ hits \in Nat /\ merged \in BOOLEAN
    /\ requests - hits = Total(Weights, Callers)

AdapterOK ==
    /\ adapter \in BOOLEAN /\ promise \in 0..MaxCreations
    /\ creation \in [1..MaxCreations -> {"none", "pending", "over"}]
    /\ promise # 0 => promise \in PendingCreations

CallsOK ==
    /\ DOMAIN call = Callers /\ call = [c \in Callers |-> call[c]]
    /\ \A c \in Callers :
          /\ CallOK(merged, call[c])
          /\ call[c].phase = "idle" => call[c].kind = "none"
          /\ call[c].phase = "adapter" => call[c].on \in PendingCreations
          /\ call[c].phase = "embedding" => at[c] # "idle"

(* Nothing goes on in a generator that dispose left alone.                 *)
BlankOK ==
    blank /\ ~overlap =>
        /\ ~adapter /\ cache = [k \in Keys |-> None] /\ PendingCreations = {}
        /\ \A c \in Callers : ~UnderWay(c)

GenIInv == ModelIInv /\ TableOK(merged, Table) /\ AdapterOK /\ CallsOK /\ Counted /\ BlankOK

(* Requests that differ in how far they are, and are not done.             *)
SamePlan(x, y) ==
    /\ x.kind = y.kind /\ x.texts = y.texts /\ x.open = y.open
    /\ x.answers = y.answers /\ x.got = y.got /\ x.slice = y.slice
    /\ x \in CallSet /\ y.kind # "none"
    /\ x.phase \notin {"idle", "done"} /\ y.phase # "done"

LEMMA SamePlanOK ==
  ASSUME NEW m, NEW y, CallOK(m, y), NEW x, SamePlan(x, y)
  PROVE  CallOK(m, x) /\ Weight(x) = Weight(y)
  BY DEF SamePlan, CallOK, SingleOK, BatchOK, Collecting, Weight

LEMMA WeightType == ASSUME NEW m, NEW x, CallOK(m, x) PROVE Weight(x) \in Int
  BY DEF CallOK, CallSet, Weight

(* What is right is so no less once results were merged.                   *)
LEMMA StillOK ==
  ASSUME NEW m \in BOOLEAN, NEW n \in BOOLEAN, m => n
  PROVE  /\ \A x : CallOK(m, x) => CallOK(n, x)
         /\ \A x : TableOK(m, x) => TableOK(n, x)
  BY DEF CallOK, SingleOK, BatchOK, Collecting, TableOK, Right

-----------------------------------------------------------------------------
(* A step of one caller puts new in the place of its call.                 *)
Replaces(c, new) ==
    /\ CallOK(merged', new) /\ new.phase # "idle"
    /\ merged' \in BOOLEAN /\ (merged => merged')
    /\ call' = [call EXCEPT ![c] = new]
    /\ AdapterOK' /\ PendingCreations \subseteq PendingCreations'
    /\ requests' \in Nat /\ hits' \in Nat
    /\ (requests' - hits') - Weight(new) = (requests - hits) - Weight(call[c])
    /\ new.phase = "adapter" => new.on \in PendingCreations'
    /\ new.phase = "embedding" => at'[c] # "idle"
    /\ \A d \in Callers \ {c} : at'[d] = at[d]
    /\ \/ blank' = FALSE
       \/ UnderWay(c) /\ UNCHANGED lifeVars

LEMMA ReplacesOK ==
  ASSUME GenIInv, NEW c \in Callers, NEW new, Replaces(c, new), ModelIInv', TableOK(merged', Table')
  PROVE  GenIInv'
  <1> USE DEF Replaces
  <1>1. /\ call'[c] = new /\ DOMAIN call' = Callers
        /\ call' = [d \in Callers |-> call'[d]]
        /\ \A d \in Callers \ {c} : call'[d] = call[d]
    BY DEF GenIInv, CallsOK
  <1>2. CallsOK'
    <2>1. \A d \in Callers : CallOK(merged', call'[d])
      BY <1>1, StillOK DEF GenIInv, CallsOK, Counted
    <2>2. QED
      BY <1>1, <2>1 DEF GenIInv, CallsOK
  <1>3. Counted'
    <2>1. \A d \in Callers : Weights[d] \in Int /\ Weights'[d] \in Int
      <3>1. \A d \in Callers : Weights[d] = Weight(call[d]) /\ Weights'[d] = Weight(call'[d])
        BY DEF Weights
      <3>2. \A d \in Callers : CallOK(merged, call[d]) /\ CallOK(merged', call'[d])
        BY <1>2 DEF GenIInv, CallsOK
      <3>3. QED
        BY <3>1, <3>2, WeightType
    <2>2. \A d \in Callers \ {c} : Weights'[d] = Weights[d]
      BY <1>1 DEF Weights
    <2>3. Total(Weights', Callers) + Weights[c] = Total(Weights, Callers) + Weights'[c]
      BY <2>1, <2>2, TotalDiffer, GeneratorAssumption
    <2>4. Weights[c] = Weight(call[c]) /\ Weights'[c] = Weight(new)
      BY <1>1 DEF Weights
    <2>5. Total(Weights', Callers) \in Int /\ Total(Weights, Callers) \in Int
      BY <2>1, TotalType, GeneratorAssumption
    <2>6. requests - hits = Total(Weights, Callers) /\ requests \in Nat /\ hits \in Nat
      BY DEF GenIInv, Counted
    <2>7. Total(Weights, Callers)' = Total(Weights', Callers)
      OBVIOUS
    <2>8. requests' - hits' = Total(Weights', Callers)
      <3>1. \A r, h, p, g, v, w, t, u \in Int :
               (p - g) - w = (r - h) - v /\ u + v = t + w /\ r - h = t => p - g = u
        OBVIOUS
      <3>2. /\ requests \in Int /\ hits \in Int /\ requests' \in Int /\ hits' \in Int
            /\ Weight(call[c]) \in Int /\ Weight(new) \in Int
        BY <2>1, <2>4, <2>6
      <3> HIDE DEF Replaces
      <3>3. (requests' - hits') - Weight(new) = (requests - hits) - Weight(call[c])
        BY DEF Replaces
      <3>4. QED
        BY <2>3, <2>4, <2>5, <2>6, <3>1, <3>2, <3>3
    <2>9. QED
      BY <2>7, <2>8 DEF Counted
  <1>4. BlankOK'
    <2>1. CASE blank' = FALSE
      BY <2>1 DEF BlankOK
    <2>2. CASE UnderWay(c) /\ UNCHANGED lifeVars
      <3>1. ~(blank /\ ~overlap)
        BY <2>2 DEF GenIInv, BlankOK
      <3>2. blank' = blank /\ overlap' = overlap
        BY <2>2 DEF lifeVars
      <3>3. ~(blank' /\ ~overlap')
        BY <3>1, <3>2
      <3>4. QED
        BY <3>3 DEF BlankOK
    <2>3. QED
      BY <2>1, <2>2
  <1>5. QED
    BY <1>2, <1>3, <1>4 DEF GenIInv

(* The cache and the adapter are untouched, and the request goes on.       *)
GoesOn(c, new) ==
    /\ call[c].phase \notin {"idle", "done", "failed"}
    /\ SamePlan(new, call[c])
    /\ call' = [call EXCEPT ![c] = new]
    /\ UNCHANGED <<adapterVars, cacheVars, statsVars, lifeVars>>
    /\ new.phase # "adapter"
    /\ new.phase = "embedding" => at'[c] # "idle"
    /\ \A d \in Callers \ {c} : at'[d] = at[d]

LEMMA GoesOnOK ==
  ASSUME GenIInv, NEW c \in Callers, NEW new, GoesOn(c, new), ModelIInv'
  PROVE  GenIInv'
  <1>1. CallOK(merged, call[c]) /\ CallOK(merged, new) /\ Weight(new) = Weight(call[c])
    BY SamePlanOK DEF GenIInv, CallsOK, GoesOn
  <1>2. TableOK(merged', Table') /\ merged' = merged /\ merged \in BOOLEAN
    BY DEF GenIInv, GoesOn, cacheVars, statsVars, Counted, Table
  <1>3. AdapterOK' /\ PendingCreations' = PendingCreations
    BY DEF GenIInv, GoesOn, adapterVars, AdapterOK, PendingCreations
  <1>4. /\ requests' = requests /\ hits' = hits /\ requests \in Nat /\ hits \in Nat
        /\ UnderWay(c) /\ UNCHANGED lifeVars
    BY DEF GenIInv, GoesOn, statsVars, Counted, UnderWay
  <1>5. Replaces(c, new)
    BY <1>1, <1>2, <1>3, <1>4 DEF GoesOn, SamePlan, Replaces
  <1>6. QED
    BY <1>2, <1>5, ReplacesOK

LEMMA AskHolds ==
  ASSUME ModelTypeOK, NEW c \in Callers, NEW m, Ask(c, m)
  PROVE  at'[c] # "idle" /\ \A d \in Callers \ {c} : at'[d] = at[d]
  BY DEF ModelTypeOK, Ask, AskRecord, AskNew, StartLoad, Hold

LEMMA UseHolds ==
  ASSUME ModelTypeOK, NEW c \in Callers, NEW phase, Hold(c, phase, 0)
  PROVE  \A d \in Callers \ {c} : at'[d] = at[d]
  BY DEF ModelTypeOK, Hold

LEMMA GeneratorKeepsModels == ModelIInv /\ [GenNext]_embVars => ModelIInv'
  <1> SUFFICES ASSUME ModelIInv, [GenNext]_embVars PROVE ModelStep
    BY ModelStepInvariant
  <1>1. ASSUME NEW c \in Callers, Progress(c) PROVE ModelStep
    <2>1. CASE Attempt(c)
      BY <2>1, GeneratorAssumption DEF Attempt, ModelStep, ModelNext
    <2>2. CASE Preloaded(c) \/ Embedded(c) \/ SliceEmbedded(c)
      BY <2>2 DEF Preloaded, Embedded, SliceEmbedded, ModelStep, ModelNext
    <2>3. CASE DelayEnds(c)
      BY <2>3 DEF DelayEnds, ModelStep
    <2>4. ASSUME NEW timeout \in BOOLEAN, AttemptFails(c, timeout) PROVE ModelStep
      BY <2>4 DEF AttemptFails, ModelStep, ModelNext
    <2>5. QED
      BY <1>1, <2>1, <2>2, <2>3, <2>4 DEF Progress
  <1>2. ASSUME NEW c \in Callers, NEW texts \in Requests,
               GenerateBatch(c, texts) \/ GenerateEmbedding(c, Head(texts))
        PROVE  UNCHANGED modelVars
    BY <1>2 DEF GenerateBatch, GenerateEmbedding
  <1>3. ASSUME NEW c \in Callers, PreloadModel(c) PROVE UNCHANGED modelVars
    BY <1>3 DEF PreloadModel
  <1>4. ASSUME CreationEnds \/ ClearCache \/ Dispose \/ AdapterDisposed
        PROVE  UNCHANGED modelVars
    BY <1>4 DEF CreationEnds, AdapterCreated, CreationFails, ClearCache, Dispose, AdapterDisposed
  <1>5. CASE UNCHANGED embVars
    BY <1>5 DEF embVars, ModelStep
  <1>6. CASE Settles \/ \E d \in Disposers : DisposeAllModels(d) \/ PipelineDisposed(d)
    BY <1>6 DEF ModelStep, ModelNext
  <1>7. QED
    BY <1>1, <1>2, <1>3, <1>4, <1>5, <1>6 DEF GenNext, ModelStep

LEMMA AttemptOK ==
  ASSUME GenIInv, ModelIInv', NEW c \in Callers, Attempt(c)
  PROVE  GenIInv'
  <1> DEFINE new == [call[c] EXCEPT !.phase = "embedding"]
  <1>1. CallOK(merged, call[c]) /\ call[c].phase = "ready"
    BY DEF GenIInv, CallsOK, Attempt
  <1>2. SamePlan(new, call[c])
    BY <1>1 DEF SamePlan, CallOK, CallSet, Phases
  <1>3. at'[c] # "idle" /\ \A d \in Callers \ {c} : at'[d] = at[d]
    <2>1. ModelTypeOK /\ Ask(c, Model)
      BY DEF GenIInv, ModelIInv, Attempt
    <2>2. QED
      BY <2>1, AskHolds
  <1>4. new.phase = "embedding"
    BY <1>1 DEF CallOK, CallSet
  <1>5. GoesOn(c, new)
    BY <1>1, <1>2, <1>3, <1>4 DEF GoesOn, Attempt
  <1>6. QED
    BY <1>5, GoesOnOK

LEMMA DelayEndsOK ==
  ASSUME GenIInv, ModelIInv', NEW c \in Callers, DelayEnds(c)
  PROVE  GenIInv'
  <1> DEFINE new == [call[c] EXCEPT !.phase = "ready"]
  <1>1. CallOK(merged, call[c]) /\ call[c].phase = "delay"
    BY DEF GenIInv, CallsOK, DelayEnds
  <1>2. SamePlan(new, call[c])
    BY <1>1 DEF SamePlan, CallOK, CallSet, Phases
  <1>3. \A d \in Callers \ {c} : at'[d] = at[d]
    BY DEF DelayEnds, modelVars
  <1>4. new.phase = "ready"
    BY <1>1 DEF CallOK, CallSet
  <1>5. GoesOn(c, new)
    BY <1>1, <1>2, <1>3, <1>4 DEF GoesOn, DelayEnds
  <1>6. QED
    BY <1>5, GoesOnOK

LEMMA AttemptFailsOK ==
  ASSUME GenIInv, ModelIInv', NEW c \in Callers, NEW timeout \in BOOLEAN, AttemptFails(c, timeout)
  PROVE  GenIInv'
  <1> DEFINE x == call[c]
             again == Retries(c, timeout)
             attempt == IF again THEN x.attempt + 1 ELSE x.attempt
             phase == IF again THEN "delay" ELSE "failed"
             new == [x EXCEPT !.attempt = attempt, !.phase = phase]
  <1>1. CallOK(merged, x) /\ x.phase = "embedding"
    BY DEF GenIInv, CallsOK, AttemptFails
  <1>2. attempt \in 0..MaxRetries
    BY <1>1, GeneratorAssumption DEF CallOK, CallSet, Retries
  <1>3. phase \in Phases /\ phase \in {"delay", "failed"}
    BY DEF Phases
  <1>4. call' = [call EXCEPT ![c] = new]
    BY DEF AttemptFails
  <1> HIDE DEF attempt, phase
  <1>5. SamePlan(new, x) /\ new.phase = phase
    BY <1>1, <1>2, <1>3 DEF SamePlan, CallOK, CallSet
  <1>6. \A d \in Callers \ {c} : at'[d] = at[d]
    BY UseHolds DEF GenIInv, ModelIInv, AttemptFails, Use
  <1>7. GoesOn(c, new)
    BY <1>1, <1>3, <1>4, <1>5, <1>6 DEF GoesOn, AttemptFails
  <1>8. QED
    BY <1>7, GoesOnOK

(* getAdapter leaves a request with the adapter or waiting for a creation. *)
Resumed(c, started) ==
    /\ AdapterOK' /\ PendingCreations \subseteq PendingCreations'
    /\ \E new : /\ SamePlan(new, started)
                /\ call' = [call EXCEPT ![c] = new]
                /\ new.phase \in {"ready", "adapter"}
                /\ new.phase = "adapter" => new.on \in PendingCreations'

LEMMA GetAdapterOK ==
  ASSUME AdapterOK, NEW c \in Callers, NEW started, started \in CallSet, started.kind # "none",
         started.phase # "done", GetAdapter(c, started)
  PROVE  Resumed(c, started)
  <1> USE DEF AdapterOK, PendingCreations
  <1>1. started \in CallSet
    OBVIOUS
  <1>2. CASE /\ call' = [call EXCEPT ![c] = [started EXCEPT !.phase = "ready"]]
             /\ UNCHANGED adapterVars
    <2> DEFINE new == [started EXCEPT !.phase = "ready"]
    <2>1. SamePlan(new, started) /\ new.phase = "ready"
      BY <1>1 DEF SamePlan, CallSet, Phases
    <2> HIDE DEF new
    <2>2. AdapterOK' /\ PendingCreations' = PendingCreations
      BY <1>2 DEF adapterVars
    <2>3. call' = [call EXCEPT ![c] = new]
      BY <1>2 DEF new
    <2>4. QED
      BY <2>1, <2>2, <2>3 DEF Resumed
  <1>3. ASSUME NEW i \in PendingCreations',
               call' = [call EXCEPT ![c] = [started EXCEPT !.phase = "adapter", !.on = i]],
               AdapterOK', PendingCreations \subseteq PendingCreations'
        PROVE  Resumed(c, started)
    <2> DEFINE new == [started EXCEPT !.phase = "adapter", !.on = i]
    <2>0. i \in 0..MaxCreations
      BY GeneratorAssumption
    <2>1. SamePlan(new, started) /\ new.phase = "adapter" /\ new.on = i
      BY <1>1, <2>0 DEF SamePlan, CallSet, Phases
    <2>2. call' = [call EXCEPT ![c] = new]
      BY <1>3
    <2> HIDE DEF new
    <2>3. QED
      BY <1>3, <2>1, <2>2 DEF Resumed
  <1>4. CASE /\ ~adapter /\ promise # 0
             /\ call' = [call EXCEPT ![c] = [started EXCEPT !.phase = "adapter", !.on = promise]]
             /\ UNCHANGED adapterVars
    <2>1. AdapterOK' /\ PendingCreations' = PendingCreations /\ promise \in PendingCreations
      BY <1>4 DEF adapterVars
    <2>2. QED
      BY <1>3, <1>4, <2>1
  <1>5. CASE /\ \E i \in 1..MaxCreations :
                   /\ creation[i] = "none" /\ \A j \in 1..i - 1 : creation[j] # "none"
                   /\ creation' = [creation EXCEPT ![i] = "pending"]
                   /\ promise' = i
                   /\ call' = [call EXCEPT ![c] = [started EXCEPT !.phase = "adapter", !.on = i]]
             /\ UNCHANGED adapter
    <2>1. PICK i \in 1..MaxCreations :
             /\ creation' = [creation EXCEPT ![i] = "pending"]
             /\ promise' = i
             /\ call' = [call EXCEPT ![c] = [started EXCEPT !.phase = "adapter", !.on = i]]
      BY <1>5
    <2>2. PendingCreations' = PendingCreations \cup {i}
      BY <2>1
    <2>3. AdapterOK'
      BY <1>5, <2>1, <2>2, GeneratorAssumption
    <2>4. QED
      BY <1>3, <2>1, <2>2, <2>3
  <1>6. QED
    BY <1>2, <1>4, <1>5 DEF GetAdapter

(* A request begins: it is put in the place of an idle one and counted.    *)
Starts(c, started) ==
    /\ call[c].phase = "idle" /\ blank' = FALSE /\ UNCHANGED <<modelVars, cacheVars, merged>>
    /\ CallOK(merged, started) /\ started.kind # "none"
    /\ requests' \in Nat /\ hits' \in Nat
    /\ (requests' - hits') - Weight(started) = requests - hits
    /\ \/ started.phase # "done" /\ GetAdapter(c, started)
       \/ /\ started.phase = "done" /\ UNCHANGED adapterVars
          /\ call' = [call EXCEPT ![c] = started]

LEMMA StartsOK ==
  ASSUME GenIInv, ModelIInv', NEW c \in Callers, NEW started, Starts(c, started)
  PROVE  GenIInv'
  <1> USE DEF Starts
  <1>1. TableOK(merged', Table') /\ merged' = merged /\ merged \in BOOLEAN
    BY DEF GenIInv, cacheVars, Counted, Table
  <1>2. Weight(call[c]) = 0
    BY DEF GenIInv, CallsOK, CallOK, Weight
  <1>3. requests \in Nat /\ hits \in Nat /\ AdapterOK /\ Weight(started) \in Int
    BY WeightType DEF GenIInv, Counted
  <1>4. \A d \in Callers : at'[d] = at[d]
    BY DEF modelVars
  <1>5. CASE started.phase # "done" /\ GetAdapter(c, started)
    <2>1. Resumed(c, started)
      BY <1>3, <1>5, GetAdapterOK DEF CallOK
    <2>2. PICK new : /\ SamePlan(new, started)
                     /\ call' = [call EXCEPT ![c] = new]
                     /\ new.phase \in {"ready", "adapter"}
                     /\ new.phase = "adapter" => new.on \in PendingCreations'
      BY <2>1 DEF Resumed
    <2>3. CallOK(merged, new) /\ Weight(new) = Weight(started)
      BY <2>2, SamePlanOK
    <2>4. (requests' - hits') - Weight(new) = (requests - hits) - Weight(call[c])
      BY <1>2, <1>3, <2>3
    <2>5. CallOK(merged', new) /\ new.phase \notin {"idle", "embedding"}
      BY <1>1, <2>2, <2>3
    <2>6. Replaces(c, new)
      <3>1. requests' \in Nat /\ hits' \in Nat /\ blank' = FALSE
        OBVIOUS
      <3>2. merged' \in BOOLEAN /\ (merged => merged')
        BY <1>1
      <3> HIDE DEF Starts
      <3>3. QED
        BY <1>4, <2>1, <2>2, <2>4, <2>5, <3>1, <3>2 DEF Replaces, Resumed
    <2>7. QED
      BY <1>1, <2>6, ReplacesOK
  <1>6. CASE /\ started.phase = "done" /\ UNCHANGED adapterVars
             /\ call' = [call EXCEPT ![c] = started]
    <2>1. (requests' - hits') - Weight(started) = (requests - hits) - Weight(call[c])
      BY <1>2, <1>3
    <2>2. AdapterOK' /\ PendingCreations' = PendingCreations
      BY <1>3, <1>6 DEF AdapterOK, PendingCreations, adapterVars
    <2>3. Replaces(c, started)
      BY <1>1, <1>4, <1>6, <2>1, <2>2 DEF Replaces
    <2>4. QED
      BY <1>1, <2>3, ReplacesOK
  <1>7. QED
    BY <1>5, <1>6

LEMMA CachedOK ==
  ASSUME TableOK(merged, Table), NEW t \in Texts
  PROVE  /\ Cached(t) \in Texts \cup {None, Merged} /\ KeyOf[t] \in Keys
         /\ Cached(t) # None => Right(merged, KeyOf[t], Cached(t))
  <1>1. KeyOf[t] \in Keys
    BY GeneratorAssumption
  <1>2. /\ cache \in [Keys -> Texts \cup {None, Merged}]
        /\ \A k \in Keys : cache[k] # None => Right(merged, k, cache[k])
    BY DEF TableOK, Tables, Table
  <1>3. QED
    BY <1>1, <1>2 DEF Cached

(* The request that every other is made of.                                *)
LEMMA NoCallOK ==
    /\ NoCall \in CallSet
    /\ NoCall.answers = <<>> /\ NoCall.got = <<>> /\ NoCall.slice = 0 /\ NoCall.phase = "idle"
    /\ NoCall.texts = <<>> /\ NoCall.open = <<>> /\ NoCall.kind = "none"
  BY GeneratorAssumption DEF NoCall, CallSet, Kinds, Phases

LEMMA GenerateEmbeddingOK ==
  ASSUME GenIInv, ModelIInv', NEW c \in Callers, NEW t \in Texts, GenerateEmbedding(c, t)
  PROVE  GenIInv'
  <1> DEFINE asked == [NoCall EXCEPT !.kind = "single", !.texts = <<t>>, !.open = <<1>>]
             answered == [kind |-> "single", texts |-> <<t>>, open |-> <<>>,
                          answers |-> <<Cached(t)>>, got |-> <<>>, attempt |-> 0, slice |-> 0,
                          phase |-> "done", on |-> 0]
  <1>1. /\ call[c].phase = "idle" /\ blank' = FALSE /\ UNCHANGED <<modelVars, cacheVars, merged>>
        /\ requests' = requests + 1 /\ requests \in Nat /\ hits \in Nat
        /\ Cached(t) \in Texts \cup {None, Merged}
        /\ Cached(t) # None => Right(merged, KeyOf[t], Cached(t))
    BY CachedOK DEF GenIInv, Counted, GenerateEmbedding, Begins
  <1>2. /\ Len(<<t>>) = 1 /\ <<t>>[1] = t /\ <<t>> \in Seq(Texts)
        /\ <<1>> \in Seq(Nat) /\ Len(<<1>>) = 1
        /\ 0 \in 0..MaxRetries /\ 0 \in 0..MaxCreations
    BY GeneratorAssumption
  <1>3. CASE Cached(t) # None
    <2>1. /\ <<Cached(t)>> \in Seq(Texts \cup {None, Merged})
          /\ Len(<<Cached(t)>>) = 1 /\ <<Cached(t)>>[1] = Cached(t)
      BY <1>1
    <2>2. answered \in CallSet /\ answered.phase = "done" /\ answered.kind = "single"
      BY <1>2, <2>1 DEF CallSet, Kinds, Phases
    <2>3. SingleOK(merged, answered) /\ Weight(answered) = 0
      BY <1>1, <1>2, <1>3, <2>1 DEF SingleOK, Weight
    <2>4. CallOK(merged, answered)
      BY <2>2, <2>3 DEF CallOK
    <2>5. /\ hits' = hits + 1 /\ UNCHANGED adapterVars
          /\ call' = [call EXCEPT ![c] = answered]
      BY <1>3 DEF GenerateEmbedding, NoCall
    <2> HIDE DEF answered
    <2>6. (requests' - hits') - Weight(answered) = requests - hits /\ hits' \in Nat
      BY <1>1, <2>3, <2>5
    <2>7. Starts(c, answered)
      BY <1>1, <2>2, <2>4, <2>5, <2>6 DEF Starts
    <2>8. QED
      BY <2>7, StartsOK
  <1>4. CASE Cached(t) = None
    <2>1. /\ asked \in CallSet /\ asked.phase = "idle" /\ asked.kind = "single"
          /\ asked.texts = <<t>> /\ asked.open = <<1>>
      BY <1>2, NoCallOK DEF CallSet, Kinds, Phases
    <2>2. hits' = hits /\ GetAdapter(c, asked)
      BY <1>4 DEF GenerateEmbedding
    <2> HIDE DEF asked
    <2>3. SingleOK(merged, asked) /\ Weight(asked) = 1
      BY <1>2, <2>1 DEF SingleOK, Weight
    <2>4. CallOK(merged, asked)
      BY <2>1, <2>3 DEF CallOK
    <2>5. (requests' - hits') - Weight(asked) = requests - hits /\ hits' \in Nat
      BY <1>1, <2>2, <2>3
    <2>6. Starts(c, asked)
      BY <1>1, <2>1, <2>2, <2>4, <2>5 DEF Starts
    <2>7. QED
      BY <2>6, StartsOK
  <1>5. QED
    BY <1>3, <1>4

LEMMA PreloadModelOK ==
  ASSUME GenIInv, ModelIInv', NEW c \in Callers, PreloadModel(c)
  PROVE  GenIInv'
  <1> DEFINE asked == [kind |-> "preload", texts |-> <<>>, open |-> <<>>, answers |-> <<>>,
                       got |-> <<>>, attempt |-> 0, slice |-> 0, phase |-> "idle", on |-> 0]
  <1>1. /\ call[c].phase = "idle" /\ blank' = FALSE /\ UNCHANGED <<modelVars, cacheVars, merged>>
        /\ requests' = requests /\ hits' = hits /\ requests \in Nat /\ hits \in Nat
        /\ GetAdapter(c, asked)
    BY DEF GenIInv, Counted, PreloadModel, Begins, statsVars, NoCall
  <1>2. asked \in CallSet /\ asked.phase = "idle" /\ asked.kind = "preload"
    BY GeneratorAssumption DEF CallSet, Kinds, Phases
  <1>3. CallOK(merged, asked) /\ Weight(asked) = 0
    BY <1>2 DEF CallOK, Weight
  <1> HIDE DEF asked
  <1>4. (requests' - hits') - Weight(asked) = requests - hits
    BY <1>1, <1>3
  <1>5. Starts(c, asked)
    BY <1>1, <1>2, <1>3, <1>4 DEF Starts
  <1>6. QED
    BY <1>5, StartsOK

LEMMA GenerateBatchOK ==
  ASSUME GenIInv, ModelIInv', NEW c \in Callers, NEW texts \in Seq(Texts) \ {<<>>},
         GenerateBatch(c, texts)
  PROVE  GenIInv'
  <1> DEFINE n == Len(texts)
             places == [i \in 1..n |-> i]
             missing == {i \in DOMAIN texts : Cached(texts[i]) = None}
             open == Keep(places, missing)
             answers == [i \in 1..n |-> Cached(texts[i])]
             started == [NoCall EXCEPT !.kind = "batch", !.texts = texts, !.open = open,
                                       !.answers = answers]
             finished == [started EXCEPT !.phase = "done"]
  <1>1. /\ call[c].phase = "idle" /\ blank' = FALSE /\ UNCHANGED <<modelVars, cacheVars, merged>>
        /\ hits' = hits + (n - Len(open)) /\ requests \in Nat /\ hits \in Nat
    BY DEF GenIInv, Counted, GenerateBatch, Begins, HitsOf
  <1>2. n \in Nat /\ DOMAIN texts = 1..n /\ \A i \in 1..n : texts[i] \in Texts
    OBVIOUS
  <1>3. \A i \in 1..n : /\ Cached(texts[i]) \in Texts \cup {None, Merged}
                        /\ Cached(texts[i]) # None => Right(merged, KeyOf[texts[i]], Cached(texts[i]))
    BY <1>2, CachedOK DEF GenIInv
  <1>4. answers \in Seq(Texts \cup {None, Merged}) /\ Len(answers) = n
        /\ \A i \in 1..n : answers[i] = Cached(texts[i])
    BY <1>2, <1>3
  <1>5. places \in Seq(1..n) /\ ToSet(places) = 1..n
    <2>1. places \in Seq(1..n) /\ DOMAIN places = 1..n /\ Len(places) = n
      BY <1>2
    <2>2. ToSet(places) = {places[i] : i \in 1..n} /\ \A i \in 1..n : places[i] = i
      BY <2>1 DEF ToSet
    <2>3. QED
      BY <2>1, <2>2
  <1>6. /\ open \in Seq(1..n) /\ Len(open) <= Len(places) /\ Len(places) = n
        /\ ToSet(open) = 1..n \cap missing
    <2> HIDE DEF missing
    <2>1. Len(places) = n
      BY <1>2
    <2> HIDE DEF places
    <2>2. QED
      BY <1>5, <2>1, KeepResult
  <1>7. open \in Seq(Nat) /\ Len(open) \in Nat
    BY <1>6
  <1> HIDE DEF places, answers, open
  <1>8. ASSUME NEW x \in CallSet, x.kind = "batch", x.texts = texts, x.open = open,
               x.answers = answers, x.got = <<>>, x.slice = 0, x.phase = "done" <=> open = <<>>
        PROVE  CallOK(merged, x) /\ Weight(x) = IF open = <<>> THEN 0 ELSE Len(open) - n
    <2>1. \A i \in DOMAIN texts : i \notin ToSet(open) => Right(merged, KeyOf[texts[i]], answers[i])
      BY <1>2, <1>3, <1>4, <1>6
    <2>2. x.phase # "done" => Collecting(merged, x)
      <3>1. 0 * BatchSize = 0 /\ Len(<<>>) = 0
        BY GeneratorAssumption
      <3>2. x.phase # "done" => Len(open) > 0
        BY <1>7, <1>8
      <3>3. QED
        BY <1>8, <3>1, <3>2 DEF Collecting
    <2>3. x.phase = "done" => ToSet(open) = {}
      BY <1>8 DEF ToSet
    <2>4. BatchOK(merged, x)
      <3>1. ToSet(open) \subseteq DOMAIN texts
        BY <1>2, <1>6
      <3>2. QED
        BY <1>4, <1>8, <2>1, <2>2, <2>3, <3>1 DEF BatchOK
    <2>5. CallOK(merged, x)
      BY <1>8, <2>4 DEF CallOK
    <2>6. QED
      BY <1>8, <2>5 DEF Weight
  <1>9. CASE open = <<>>
    <2>1. /\ finished \in CallSet /\ finished.kind = "batch" /\ finished.texts = texts
          /\ finished.open = open /\ finished.answers = answers /\ finished.got = <<>>
          /\ finished.slice = 0 /\ finished.phase = "done"
      BY <1>4, <1>7, NoCallOK DEF CallSet, Kinds, Phases
    <2>2. /\ call' = [call EXCEPT ![c] = finished]
          /\ requests' = requests + n /\ UNCHANGED adapterVars
      BY <1>9 DEF GenerateBatch, open, places, answers
    <2> HIDE DEF finished
    <2>3. CallOK(merged, finished) /\ Weight(finished) = 0
      BY <1>8, <1>9, <2>1
    <2>4. /\ requests' \in Nat /\ hits' \in Nat
          /\ (requests' - hits') - Weight(finished) = requests - hits
      BY <1>1, <1>2, <1>9, <2>2, <2>3
    <2>5. Starts(c, finished)
      BY <1>1, <2>1, <2>2, <2>3, <2>4 DEF Starts
    <2>6. QED
      BY <2>5, StartsOK
  <1>10. CASE open # <<>>
    <2>1. /\ started \in CallSet /\ started.kind = "batch" /\ started.texts = texts
          /\ started.open = open /\ started.answers = answers /\ started.got = <<>>
          /\ started.slice = 0 /\ started.phase = "idle"
      BY <1>4, <1>7, NoCallOK DEF CallSet, Kinds, Phases
    <2>2. GetAdapter(c, started) /\ requests' = requests
      BY <1>10 DEF GenerateBatch, open, places, answers
    <2> HIDE DEF started
    <2>3. CallOK(merged, started) /\ Weight(started) = Len(open) - n
      BY <1>8, <1>10, <2>1
    <2>4. /\ requests' \in Nat /\ hits' \in Nat
          /\ (requests' - hits') - Weight(started) = requests - hits
      BY <1>1, <1>2, <1>6, <1>7, <2>2, <2>3
    <2>5. Starts(c, started)
      BY <1>1, <2>1, <2>2, <2>3, <2>4 DEF Starts
    <2>6. QED
      BY <2>5, StartsOK
  <1>11. QED
    BY <1>9, <1>10

-----------------------------------------------------------------------------
(* The creation of an adapter ends, and those who wait for it go on.       *)
LEMMA CreationEndsOK ==
  ASSUME GenIInv, ModelIInv', NEW i \in 1..MaxCreations, AdapterCreated(i) \/ CreationFails(i)
  PROVE  GenIInv'
  <1> DEFINE Waiting(c) == call[c].phase = "adapter" /\ call[c].on = i
  <1>1. PICK phase \in {"ready", "failed"} :
           call' = [c \in Callers |-> IF Waiting(c) THEN [call[c] EXCEPT !.phase = phase]
                                      ELSE call[c]]
    BY DEF AdapterCreated, CreationFails
  <1>2. /\ creation[i] = "pending" /\ creation' = [creation EXCEPT ![i] = "over"]
        /\ adapter' \in BOOLEAN /\ promise' = 0
        /\ UNCHANGED <<modelVars, cacheVars, statsVars, lifeVars>>
    BY DEF GenIInv, AdapterOK, AdapterCreated, CreationFails
  <1>3. PendingCreations' = PendingCreations \ {i} /\ i \in PendingCreations
    BY <1>2 DEF GenIInv, AdapterOK, PendingCreations
  <1>4. AdapterOK'
    BY <1>2, GeneratorAssumption DEF GenIInv, AdapterOK
  <1>5. \A c \in Callers : CallOK(merged, call[c])
    BY DEF GenIInv, CallsOK
  <1>6. \A c \in Callers : Waiting(c) =>
           /\ SamePlan([call[c] EXCEPT !.phase = phase], call[c])
           /\ [call[c] EXCEPT !.phase = phase].phase = phase
    BY <1>5 DEF SamePlan, CallOK, CallSet, Phases
  <1>7. \A c \in Callers : /\ CallOK(merged, call'[c]) /\ Weight(call'[c]) = Weight(call[c])
                           /\ Waiting(c) => call'[c].phase = phase
                           /\ ~Waiting(c) => call'[c] = call[c]
    <2> SUFFICES ASSUME NEW c \in Callers
                 PROVE  /\ CallOK(merged, call'[c]) /\ Weight(call'[c]) = Weight(call[c])
                        /\ Waiting(c) => call'[c].phase = phase
                        /\ ~Waiting(c) => call'[c] = call[c]
      OBVIOUS
    <2>1. CASE Waiting(c)
      <3>1. SamePlan(call'[c], call[c]) /\ call'[c].phase = phase
        BY <1>1, <1>6, <2>1
      <3>2. QED
        BY <1>5, <2>1, <3>1, SamePlanOK
    <2>2. CASE ~Waiting(c)
      BY <1>1, <1>5, <2>2
    <2>3. QED
      BY <2>1, <2>2
  <1>8. CallsOK'
    <2>1. DOMAIN call' = Callers /\ call' = [c \in Callers |-> call'[c]]
      BY <1>1
    <2>2. at' = at
      BY <1>2 DEF modelVars
    <2>3. merged' = merged
      BY <1>2 DEF statsVars
    <2>4. QED
      BY <1>3, <1>7, <2>1, <2>2, <2>3 DEF GenIInv, CallsOK
  <1>9. Counted'
    <2>1. Weights' = Weights
      BY <1>7 DEF Weights
    <2>2. requests' = requests /\ hits' = hits /\ merged' = merged
      BY <1>2 DEF statsVars
    <2>3. QED
      BY <2>1, <2>2 DEF GenIInv, Counted
  <1>10. BlankOK'
    BY <1>2, <1>3 DEF GenIInv, BlankOK, lifeVars
  <1>11. TableOK(merged', Table')
    BY <1>2 DEF GenIInv, Table, cacheVars, statsVars
  <1>12. QED
    BY <1>4, <1>8, <1>9, <1>10, <1>11 DEF GenIInv

(* clearCache and dispose empty the table.                                 *)
LEMMA EmptyTable ==
  ASSUME cache' = [k \in Keys |-> None], age' = <<>>
  PROVE  TableOK(merged', Table')
  <1>1. Table' = [entries |-> cache', order |-> age']
    BY DEF Table
  <1>2. Table'.entries = [k \in Keys |-> None] /\ Table'.order = <<>> /\ Table' \in Tables
    BY <1>1, EmptyList DEF Tables
  <1>3. IsInjective(<<>>) /\ ToSet(<<>>) = {}
    BY EmptyList
  <1>4. QED
    BY <1>2, <1>3 DEF TableOK

LEMMA SameCalls ==
  ASSUME CallsOK, UNCHANGED <<modelVars, creation, call, merged>>
  PROVE  /\ CallsOK' /\ Weights' = Weights /\ PendingCreations' = PendingCreations
         /\ \A c \in Callers : UnderWay(c)' = UnderWay(c)
  BY DEF CallsOK, Weights, PendingCreations, UnderWay, modelVars

LEMMA ClearCacheOK ==
  ASSUME GenIInv, ModelIInv', ClearCache
  PROVE  GenIInv'
  <1> USE DEF ClearCache
  <1>1. TableOK(merged', Table')
    BY EmptyTable
  <1>2. /\ CallsOK' /\ Weights' = Weights /\ PendingCreations' = PendingCreations
        /\ \A c \in Callers : UnderWay(c)' = UnderWay(c)
    BY SameCalls DEF GenIInv, adapterVars, statsVars
  <1>3. AdapterOK'
    BY <1>2 DEF GenIInv, AdapterOK, adapterVars
  <1>4. Counted'
    BY <1>2 DEF GenIInv, Counted, statsVars
  <1>5. BlankOK'
    BY <1>2 DEF GenIInv, BlankOK, lifeVars, adapterVars
  <1>6. QED
    BY <1>1, <1>2, <1>3, <1>4, <1>5 DEF GenIInv

(* What is under way when dispose ends is what overlap tells.              *)
LEMMA DisposedOK ==
  ASSUME GenIInv, ModelIInv', Disposed, UNCHANGED <<modelVars, creation, statsVars, call>>
  PROVE  GenIInv'
  <1> USE DEF Disposed
  <1>1. TableOK(merged', Table')
    BY EmptyTable
  <1>2. /\ CallsOK' /\ Weights' = Weights /\ PendingCreations' = PendingCreations
        /\ \A c \in Callers : UnderWay(c)' = UnderWay(c)
    BY SameCalls DEF GenIInv, statsVars
  <1>3. AdapterOK'
    <2>1. adapter' = FALSE /\ promise' = 0 /\ creation' = creation /\ 0 \in 0..MaxCreations
      BY GeneratorAssumption
    <2> HIDE DEF Disposed
    <2>2. QED
      BY <2>1 DEF GenIInv, AdapterOK
  <1>4. Counted'
    BY <1>2 DEF GenIInv, Counted, statsVars
  <1>5. BlankOK'
    BY <1>2 DEF BlankOK
  <1>6. QED
    BY <1>1, <1>2, <1>3, <1>4, <1>5 DEF GenIInv

LEMMA DisposeOK ==
  ASSUME GenIInv, ModelIInv', Dispose
  PROVE  GenIInv'
  <1>1. CASE adapter
    <2>1. /\ UNCHANGED <<modelVars, adapterVars, cacheVars, statsVars, call>>
          /\ blank' = blank /\ overlap' = overlap
      BY <1>1 DEF Dispose
    <2>2. /\ CallsOK' /\ Weights' = Weights /\ PendingCreations' = PendingCreations
          /\ \A c \in Callers : UnderWay(c)' = UnderWay(c)
      BY <2>1, SameCalls DEF GenIInv, adapterVars, statsVars
    <2>3. TableOK(merged', Table')
      BY <2>1 DEF GenIInv, Table, cacheVars, statsVars
    <2>4. AdapterOK'
      BY <2>1, <2>2 DEF GenIInv, AdapterOK, adapterVars
    <2>5. Counted'
      BY <2>1, <2>2 DEF GenIInv, Counted, statsVars
    <2>6. BlankOK'
      BY <2>1, <2>2 DEF GenIInv, BlankOK, adapterVars, cacheVars
    <2>7. QED
      BY <2>2, <2>3, <2>4, <2>5, <2>6 DEF GenIInv
  <1>2. CASE ~adapter
    <2>1. Disposed /\ UNCHANGED <<modelVars, creation, statsVars, call>>
      BY <1>2 DEF Dispose
    <2>2. QED
      BY <2>1, DisposedOK
  <1>3. QED
    BY <1>1, <1>2

LEMMA IdleOK ==
  ASSUME GenIInv, ModelIInv', UNCHANGED genVars, \A c \in Callers : at[c] # "idle" => at'[c] # "idle"
  PROVE  GenIInv'
  <1> USE DEF genVars, adapterVars, cacheVars, statsVars, lifeVars
  <1>1. /\ Weights' = Weights /\ PendingCreations' = PendingCreations
        /\ \A c \in Callers : UnderWay(c)' = UnderWay(c)
    BY DEF Weights, PendingCreations, UnderWay
  <1>2. CallsOK' /\ AdapterOK' /\ TableOK(merged', Table')
    BY <1>1 DEF GenIInv, CallsOK, AdapterOK, Table
  <1>3. Counted' /\ BlankOK'
    BY <1>1 DEF GenIInv, Counted, BlankOK
  <1>4. QED
    BY <1>2, <1>3 DEF GenIInv

LEMMA ModelsMoveOK ==
  ASSUME GenIInv, ModelIInv', UNCHANGED genVars,
         \/ Settles \/ UNCHANGED modelVars
         \/ \E d \in Disposers : DisposeAllModels(d) \/ PipelineDisposed(d)
  PROVE  GenIInv'
  <1>1. ASSUME Settles PROVE \A c \in Callers : at[c] # "idle" => at'[c] # "idle"
    BY <1>1 DEF Settles, LoadSucceeds, LoadFails, Settle
  <1>2. ASSUME \/ UNCHANGED modelVars
               \/ \E d \in Disposers : DisposeAllModels(d) \/ PipelineDisposed(d)
        PROVE  at' = at
    BY <1>2 DEF DisposeAllModels, PipelineDisposed, modelVars
  <1>3. QED
    BY <1>1, <1>2, IdleOK

-----------------------------------------------------------------------------
(* A request is answered.                                                  *)
LEMMA PreloadedOK ==
  ASSUME GenIInv, ModelIInv', NEW c \in Callers, Preloaded(c)
  PROVE  GenIInv'
  <1> DEFINE x == call[c]
             new == [x EXCEPT !.phase = "done"]
  <1>1. /\ CallOK(merged, x) /\ x.phase = "embedding" /\ x.kind = "preload"
        /\ UNCHANGED <<adapterVars, cacheVars, statsVars, lifeVars>>
        /\ call' = [call EXCEPT ![c] = new]
    BY DEF GenIInv, CallsOK, Preloaded
  <1>2. /\ new \in CallSet /\ new.phase = "done" /\ new.kind = "preload" /\ new.open = x.open
    BY <1>1 DEF CallOK, CallSet, Phases
  <1>3. \A d \in Callers \ {c} : at'[d] = at[d]
    BY UseHolds DEF GenIInv, ModelIInv, Preloaded, Use
  <1> HIDE DEF new
  <1>4. CallOK(merged, new) /\ Weight(new) = Weight(x)
    BY <1>1, <1>2 DEF CallOK, Weight
  <1>5. TableOK(merged', Table')
    BY <1>1 DEF GenIInv, cacheVars, statsVars, Table
  <1>6. AdapterOK' /\ PendingCreations' = PendingCreations
    BY <1>1 DEF GenIInv, adapterVars, AdapterOK, PendingCreations
  <1>7. /\ requests' = requests /\ hits' = hits /\ requests \in Nat /\ hits \in Nat
        /\ merged' = merged /\ merged \in BOOLEAN /\ UnderWay(c) /\ UNCHANGED lifeVars
    BY <1>1 DEF GenIInv, statsVars, Counted, UnderWay
  <1>8. Replaces(c, new)
    BY <1>1, <1>2, <1>3, <1>4, <1>6, <1>7 DEF Replaces
  <1>9. QED
    BY <1>5, <1>8, ReplacesOK

LEMMA EmbeddedOK ==
  ASSUME GenIInv, ModelIInv', NEW c \in Callers, Embedded(c)
  PROVE  GenIInv'
  <1> DEFINE x == call[c]
             new == [x EXCEPT !.phase = "done", !.answers = x.texts]
  <1>1. /\ CallOK(merged, x) /\ x.phase = "embedding" /\ x.kind = "single"
        /\ CacheAll(x.texts, x.texts)
        /\ UNCHANGED <<adapterVars, statsVars, lifeVars>>
        /\ call' = [call EXCEPT ![c] = new]
    BY DEF GenIInv, CallsOK, Embedded
  <1>2. x \in CallSet /\ x.texts \in Seq(Texts) /\ Len(x.texts) = 1
    BY <1>1 DEF CallOK, CallSet, SingleOK
  <1>3. /\ x.texts \in Seq(Texts \cup {Merged}) /\ x.texts \in Seq(Texts \cup {None, Merged})
        /\ \A i \in 1..Len(x.texts) : Right(merged, KeyOf[x.texts[i]], x.texts[i])
    BY <1>2 DEF Right
  <1>4. /\ new \in CallSet /\ new.phase = "done" /\ new.kind = "single"
        /\ new.open = x.open /\ new.texts = x.texts /\ new.answers = x.texts
    BY <1>1, <1>2, <1>3 DEF CallSet, Phases
  <1>5. \A d \in Callers \ {c} : at'[d] = at[d]
    BY UseHolds DEF GenIInv, ModelIInv, Embedded, Use
  <1> HIDE DEF new
  <1>6. CallOK(merged, new) /\ Weight(new) = Weight(x)
    BY <1>1, <1>2, <1>3, <1>4 DEF CallOK, SingleOK, Weight
  <1>9. /\ requests' = requests /\ hits' = hits /\ requests \in Nat /\ hits \in Nat
        /\ merged' = merged /\ merged \in BOOLEAN /\ UnderWay(c) /\ UNCHANGED lifeVars
    BY <1>1 DEF GenIInv, statsVars, Counted, UnderWay
  <1>7. TableOK(merged', Table')
    BY <1>1, <1>2, <1>3, <1>9, CacheAllOK DEF GenIInv
  <1>8. AdapterOK' /\ PendingCreations' = PendingCreations
    BY <1>1 DEF GenIInv, adapterVars, AdapterOK, PendingCreations
  <1>10. Replaces(c, new)
    BY <1>1, <1>4, <1>5, <1>6, <1>8, <1>9 DEF Replaces
  <1>11. QED
    BY <1>7, <1>10, ReplacesOK

LEMMA AdapterResultsOK ==
  ASSUME NEW texts \in Seq(Texts)
  PROVE  /\ AdapterResults(texts) \in Seq(Texts \cup {Merged})
         /\ Len(AdapterResults(texts)) <= Len(texts)
  <1>1. texts \in Seq(Texts \cup {Merged}) /\ <<Merged>> \in Seq(Texts \cup {Merged})
    OBVIOUS
  <1>2. Len(<<Merged>>) = 1 /\ Len(texts) \in Nat
    OBVIOUS
  <1>3. QED
    BY <1>1, <1>2 DEF AdapterResults

(* The results of one slice, behind those of the slices before.            *)
LEMMA GotOK ==
  ASSUME NEW texts \in Seq(Texts), NEW got \in Seq(Texts \cup {Merged}),
         NEW from \in Nat, from < Len(texts), NEW to \in Nat, from < to, to <= Len(texts),
         Len(got) <= from,
         NEW m \in BOOLEAN, m \/ (Len(got) = from /\ \A j \in 1..Len(got) : got[j] = texts[j])
  PROVE  LET slice == SubSeq(texts, from + 1, to)
             all   == got \o AdapterResults(slice)
         IN  /\ all \in Seq(Texts \cup {Merged}) /\ Len(all) <= to
             /\ m \/ AdapterResults(slice) # slice \/ (Len(all) = to /\ \A j \in 1..Len(all) : all[j] = texts[j])
  <1> DEFINE slice == SubSeq(texts, from + 1, to)
             results == AdapterResults(slice)
             all == got \o results
  <1>1. from + 1 \in 1..(Len(texts) + 1) /\ to \in 0..Len(texts) /\ from + 1 <= to
    OBVIOUS
  <1>2. /\ slice \in Seq(Texts) /\ Len(slice) = to - from
        /\ \A i \in 1..Len(slice) : slice[i] = texts[from + i]
    BY <1>1, SliceResult
  <1>3. /\ results \in Seq(Texts \cup {Merged}) /\ Len(results) <= Len(slice)
    BY <1>2, AdapterResultsOK
  <1> DEFINE n == m \/ results # slice
  <1> HIDE DEF slice, results
  <1>4. /\ all \in Seq(Texts \cup {Merged}) /\ Len(all) = Len(got) + Len(results)
        /\ \A j \in 1..Len(all) : all[j] = IF j <= Len(got) THEN got[j] ELSE results[j - Len(got)]
    BY <1>3
  <1>5. Len(got) \in Nat /\ Len(results) \in Nat
    BY <1>3
  <1> HIDE DEF all
  <1>6. Len(all) <= to
    BY <1>2, <1>3, <1>4, <1>5
  <1>7. CASE ~n
    <2>1. Len(all) = to
      <3>1. results = slice /\ Len(got) = from
        BY <1>7
      <3>2. Len(results) = to - from /\ Len(all) = Len(got) + Len(results)
        BY <1>2, <1>4, <3>1
      <3>3. QED
        BY <3>1, <3>2
    <2>2. ASSUME NEW j \in 1..Len(all) PROVE all[j] = texts[j]
      <3>1. CASE j <= Len(got)
        BY <1>4, <1>5, <1>7, <3>1
      <3>2. CASE ~(j <= Len(got))
        <4>1. j - from \in 1..Len(slice) /\ all[j] = slice[j - from]
          BY <1>2, <1>3, <1>4, <1>5, <1>7, <2>1, <3>2
        <4>2. slice[j - from] = texts[from + (j - from)]
          BY <1>2, <4>1
        <4>3. from + (j - from) = j
          BY <2>1
        <4>4. QED
          BY <4>1, <4>2, <4>3
      <3>3. QED
        BY <3>1, <3>2
    <2>3. QED
      BY <1>4, <1>6, <2>1, <2>2 DEF all, results, slice
  <1>8. QED
    BY <1>4, <1>6, <1>7 DEF all, results, slice

LEMMA SliceEmbeddedOK ==
  ASSUME GenIInv, ModelIInv', NEW c \in Callers, SliceEmbedded(c)
  PROVE  GenIInv'
  <1> DEFINE x == call[c]
             texts == [i \in 1..Len(x.open) |-> x.texts[x.open[i]]]
             from == x.slice * BatchSize
             to == IF from + BatchSize < Len(texts) THEN from + BatchSize ELSE Len(texts)
             slice == SubSeq(texts, from + 1, to)
             got == x.got \o AdapterResults(slice)
             more == [x EXCEPT !.got = got, !.slice = x.slice + 1, !.phase = "ready",
                               !.attempt = 0]
             last == [x EXCEPT !.answers = Placed(x.answers, x.open, got), !.got = <<>>,
                               !.phase = "done"]
  <1>1. /\ CallOK(merged, x) /\ x.phase = "embedding" /\ x.kind = "batch"
        /\ merged' = (merged \/ AdapterResults(slice) # slice) /\ merged \in BOOLEAN
        /\ UNCHANGED <<adapterVars, hits, lifeVars>>
    BY DEF GenIInv, CallsOK, Counted, SliceEmbedded
  <1>2. /\ from + BatchSize < Len(texts) =>
              call' = [call EXCEPT ![c] = more] /\ UNCHANGED <<cacheVars, requests>>
        /\ ~(from + BatchSize < Len(texts)) =>
              /\ call' = [call EXCEPT ![c] = last] /\ CacheAll(texts, got)
              /\ requests' = requests + Len(x.texts)
    BY DEF SliceEmbedded
  <1>3. \A d \in Callers \ {c} : at'[d] = at[d]
    BY UseHolds DEF GenIInv, ModelIInv, SliceEmbedded, Use
  <1>4. /\ x \in CallSet /\ x.texts \in Seq(Texts) /\ x.open \in Seq(Nat)
        /\ x.answers \in Seq(Texts \cup {None, Merged}) /\ x.got \in Seq(Texts \cup {Merged})
        /\ x.slice \in Nat /\ BatchOK(merged, x) /\ Collecting(merged, x)
    BY <1>1 DEF CallOK, CallSet, BatchOK
  <1>5. \A i \in 1..Len(x.open) : x.open[i] \in DOMAIN x.texts /\ x.open[i] \in ToSet(x.open)
    BY <1>4 DEF BatchOK, ToSet
  <1>6. /\ texts \in Seq(Texts) /\ Len(texts) = Len(x.open) /\ Len(texts) \in Nat
        /\ \A i \in 1..Len(texts) : texts[i] = x.texts[x.open[i]]
    <2>1. Len(x.open) \in Nat /\ \A i \in DOMAIN x.texts : x.texts[i] \in Texts
      BY <1>4
    <2>2. QED
      BY <1>5, <2>1
  <1>7. /\ from \in Nat /\ from < Len(texts) /\ BatchSize \in Nat /\ BatchSize > 0
        /\ to \in Nat /\ from < to /\ to <= Len(texts)
    <2>1. BatchSize \in Nat /\ BatchSize > 0 /\ \A m, n \in Nat : m * n \in Nat
      BY GeneratorAssumption
    <2>2. from \in Nat
      BY <1>4, <2>1
    <2>3. from < Len(texts)
      BY <1>4, <1>6 DEF Collecting
    <2>4. Len(texts) \in Nat
      BY <1>6
    <2> HIDE DEF from, texts, slice, got, more, last, x
    <2>5. QED
      BY <2>1, <2>2, <2>3, <2>4
  <1> HIDE DEF texts
  <1>8. /\ Len(x.got) <= from
        /\ merged \/ (Len(x.got) = from /\ \A j \in 1..Len(x.got) : x.got[j] = texts[j])
    <2>1. /\ Len(x.got) <= from
          /\ merged \/ (/\ Len(x.got) = from
                        /\ \A j \in 1..Len(x.got) : x.got[j] = x.texts[x.open[j]])
      BY <1>4 DEF Collecting
    <2>2. Len(x.got) \in Nat
      BY <1>4
    <2> HIDE DEF from, to, x
    <2>3. \A j \in 1..Len(x.got) : j \in 1..Len(texts)
      BY <1>6, <1>7, <2>1, <2>2
    <2>4. QED
      BY <1>6, <2>1, <2>3
  <1> HIDE DEF from, to
  <1>9. /\ got \in Seq(Texts \cup {Merged}) /\ Len(got) <= to
        /\ merged' \/ (Len(got) = to /\ \A j \in 1..Len(got) : got[j] = texts[j])
    BY <1>1, <1>4, <1>6, <1>7, <1>8, GotOK
  <1> HIDE DEF slice, got
  <1>10. AdapterOK' /\ PendingCreations' = PendingCreations
    BY <1>1 DEF GenIInv, adapterVars, AdapterOK, PendingCreations
  <1>11. /\ hits' = hits /\ requests \in Nat /\ hits \in Nat
         /\ UnderWay(c) /\ UNCHANGED lifeVars
    BY <1>1 DEF GenIInv, Counted, UnderWay
  <1>12. CASE from + BatchSize < Len(texts)
    <2>1. /\ more \in CallSet /\ more.phase = "ready" /\ more.kind = "batch"
          /\ more.texts = x.texts /\ more.open = x.open /\ more.answers = x.answers
          /\ more.got = got /\ more.slice = x.slice + 1
      <3>1. 0 \in 0..MaxRetries /\ x.slice + 1 \in Nat
        BY <1>4, GeneratorAssumption
      <3> HIDE DEF x
      <3>2. QED
        BY <1>1, <1>4, <1>9, <3>1 DEF CallSet, Phases
    <2> HIDE DEF more
    <2>2. to = from + BatchSize
      BY <1>12 DEF to
    <2>3. (x.slice + 1) * BatchSize = from + BatchSize
      <3>1. \A m, n \in Nat : (m + 1) * n = m * n + n
        OBVIOUS
      <3>2. QED
        BY <1>4, <1>7, <3>1 DEF from
    <2>4. Collecting(merged', more)
      <3>1. more.slice * BatchSize = to
        BY <2>1, <2>2, <2>3
      <3>2. to < Len(more.open) /\ Len(more.got) <= to
        BY <1>6, <1>9, <1>12, <2>1, <2>2
      <3>3. merged' \/ (/\ Len(more.got) = to
                       /\ \A j \in 1..Len(more.got) : more.got[j] = more.texts[more.open[j]])
        <4>1. Len(got) \in Nat
          BY <1>9
        <4>2. QED
          BY <1>6, <1>7, <1>9, <2>1, <4>1
      <3>4. QED
        BY <3>1, <3>2, <3>3 DEF Collecting
    <2>5. BatchOK(merged', more)
      BY <1>1, <1>4, <2>1, <2>4 DEF BatchOK, Right
    <2>6. CallOK(merged', more) /\ Weight(more) = Weight(x)
      BY <1>1, <2>1, <2>5 DEF CallOK, Weight
    <2>7. TableOK(merged', Table') /\ requests' = requests
      BY <1>1, <1>2, <1>12, StillOK DEF GenIInv, cacheVars, Table
    <2>8. Replaces(c, more)
      BY <1>1, <1>2, <1>3, <1>10, <1>11, <1>12, <2>1, <2>6, <2>7 DEF Replaces
    <2>9. QED
      BY <2>7, <2>8, ReplacesOK
  <1>13. CASE ~(from + BatchSize < Len(texts))
    <2> DEFINE answers == Placed(x.answers, x.open, got)
    <2>1. to = Len(texts)
      BY <1>13 DEF to
    <2>2. /\ Len(got) \in Nat /\ Len(x.answers) \in Nat /\ Len(x.answers) = Len(x.texts)
          /\ \A j \in 1..Len(got) : got[j] \in Texts \cup {Merged}
          /\ \A j \in 1..Len(x.answers) : x.answers[j] \in Texts \cup {None, Merged}
      BY <1>4, <1>9 DEF BatchOK
    <2>3. \A j \in 1..Len(got) : j \in 1..Len(x.open)
      BY <1>6, <1>7, <1>9, <2>1, <2>2
    <2>4. ASSUME NEW i \in 1..Len(x.answers)
          PROVE  \/ \E j \in 1..Len(got) : x.open[j] = i /\ answers[i] = got[j]
                 \/ ~(\E j \in 1..Len(got) : x.open[j] = i) /\ answers[i] = x.answers[i]
      BY DEF Placed
    <2>5. answers \in Seq(Texts \cup {None, Merged}) /\ Len(answers) = Len(x.answers)
      <3>1. \A i \in 1..Len(x.answers) : answers[i] \in Texts \cup {None, Merged}
        <4> HIDE DEF answers, x
        <4> SUFFICES ASSUME NEW i \in 1..Len(x.answers)
                     PROVE  answers[i] \in Texts \cup {None, Merged}
          OBVIOUS
        <4>1. x.answers[i] \in Texts \cup {None, Merged}
          BY <2>2
        <4>2. \A j \in 1..Len(got) : got[j] \in Texts \cup {None, Merged}
          BY <2>2
        <4>3. QED
          BY <2>4, <4>1, <4>2
      <3>2. answers = [i \in 1..Len(x.answers) |-> answers[i]]
        BY DEF Placed
      <3> HIDE DEF answers
      <3>3. QED
        BY <2>2, <3>1, <3>2
    <2> HIDE DEF answers
    <2>6. /\ last \in CallSet /\ last.phase = "done" /\ last.kind = "batch"
          /\ last.texts = x.texts /\ last.open = x.open /\ last.answers = answers
      <3>1. last = [x EXCEPT !.answers = answers, !.got = <<>>, !.phase = "done"]
        BY DEF answers
      <3>2. <<>> \in Seq(Texts \cup {Merged})
        OBVIOUS
      <3> HIDE DEF x, last
      <3>3. QED
        BY <1>1, <1>4, <2>5, <3>1, <3>2 DEF CallSet, Phases
    <2> HIDE DEF last
    <2>7. DOMAIN x.texts = 1..Len(x.answers)
      BY <1>4, <2>2
    <2>8. ASSUME NEW i \in DOMAIN x.texts, i \notin ToSet(x.open)
          PROVE  Right(merged', KeyOf[x.texts[i]], answers[i])
      <3>1. ~(\E j \in 1..Len(got) : x.open[j] = i)
        BY <1>5, <2>3, <2>8
      <3>2. answers[i] = x.answers[i]
        BY <2>4, <2>7, <3>1
      <3>3. QED
        BY <1>1, <1>4, <2>8, <3>2 DEF BatchOK, Right
    <2>9. ASSUME ~merged', NEW i \in DOMAIN x.texts, i \in ToSet(x.open)
          PROVE  answers[i] = x.texts[i] /\ x.texts[i] \in Texts
      <3>1. PICK k \in 1..Len(x.open) : x.open[k] = i
        BY <1>4, <2>9 DEF ToSet
      <3>2. k \in 1..Len(got)
        BY <1>6, <1>9, <2>1, <2>9
      <3>3. PICK j \in 1..Len(got) : x.open[j] = i /\ answers[i] = got[j]
        BY <2>4, <2>7, <3>1, <3>2
      <3>4. got[j] = x.texts[i] /\ x.texts[i] \in Texts
        BY <1>4, <1>6, <1>9, <2>3, <2>9, <3>3
      <3>5. QED
        BY <3>3, <3>4
    <2>10. BatchOK(merged', last)
      <3>1. \A i \in DOMAIN last.texts :
               /\ i \notin ToSet(last.open) => Right(merged', KeyOf[last.texts[i]], last.answers[i])
               /\ i \in ToSet(last.open) =>
                     merged' \/ (last.answers[i] = last.texts[i] /\ last.texts[i] \in Texts)
        BY <2>6, <2>8, <2>9
      <3>2. /\ ToSet(last.open) \subseteq DOMAIN last.texts
            /\ Len(last.answers) = Len(last.texts)
        BY <1>4, <2>2, <2>5, <2>6 DEF BatchOK
      <3>3. QED
        BY <2>6, <3>1, <3>2 DEF BatchOK
    <2>11. CallOK(merged', last)
      BY <2>6, <2>10 DEF CallOK
    <2>12. /\ Weight(last) = Len(x.open) /\ Weight(x) = Len(x.open) - Len(x.texts)
           /\ Len(x.open) \in Nat /\ Len(x.texts) \in Nat
      BY <1>1, <1>4, <2>6 DEF Weight
    <2>13. /\ requests' \in Nat /\ hits' \in Nat
           /\ (requests' - hits') - Weight(last) = (requests - hits) - Weight(x)
      <3>1. requests' = requests + Len(x.texts)
        BY <1>2, <1>13
      <3>2. \A r, h, n, o \in Nat : ((r + n) - h) - o = (r - h) - (o - n)
        OBVIOUS
      <3> HIDE DEF x
      <3>3. QED
        BY <1>11, <2>12, <3>1, <3>2
    <2>14. Replaces(c, last)
      BY <1>1, <1>2, <1>3, <1>10, <1>11, <1>13, <2>6, <2>11, <2>13 DEF Replaces
    <2>15. TableOK(merged', Table')
      <3>1. \A i \in 1..Len(got) : Right(merged', KeyOf[texts[i]], got[i])
        <4> SUFFICES ASSUME NEW i \in 1..Len(got) PROVE Right(merged', KeyOf[texts[i]], got[i])
          OBVIOUS
        <4>1. texts[i] \in Texts /\ got[i] \in Texts \cup {Merged}
          BY <1>6, <2>2, <2>3
        <4>2. QED
          BY <1>9, <4>1 DEF Right
      <3>2. Len(got) <= Len(texts)
        BY <1>9, <2>1
      <3>3. TableOK(merged', Table)
        BY <1>1, StillOK DEF GenIInv
      <3>4. QED
        BY <1>1, <1>2, <1>6, <1>9, <1>13, <3>1, <3>2, <3>3, CacheAllOK
    <2>16. QED
      BY <2>14, <2>15, ReplacesOK
  <1>14. QED
    BY <1>12, <1>13

-----------------------------------------------------------------------------
LEMMA GenInitInvariant == EmbInit => GenIInv
  <1> SUFFICES ASSUME EmbInit PROVE GenIInv
    OBVIOUS
  <1>1. ModelIInv
    BY ModelInitInvariant DEF EmbInit
  <1> USE DEF EmbInit, GenInit
  <1>2. TableOK(merged, Table)
    <2>1. Table.entries = [k \in Keys |-> None] /\ Table.order = <<>> /\ Table \in Tables
      BY EmptyList DEF Table, Tables
    <2>2. IsInjective(<<>>) /\ ToSet(<<>>) = {}
      BY EmptyList
    <2>3. QED
      BY <2>1, <2>2 DEF TableOK
  <1>3. AdapterOK
    <2>1. /\ adapter = FALSE /\ promise = 0 /\ 0 \in 0..MaxCreations
          /\ creation = [i \in 1..MaxCreations |-> "none"]
      BY GeneratorAssumption
    <2> HIDE DEF EmbInit, GenInit
    <2>2. QED
      BY <2>1 DEF AdapterOK
  <1>4. PendingCreations = {}
    BY DEF PendingCreations
  <1>5. CallsOK
    <2>1. CallOK(merged, NoCall) /\ NoCall.phase = "idle" /\ NoCall.kind = "none"
      BY NoCallOK DEF CallOK
    <2>2. \A c \in Callers : call[c] = NoCall
      OBVIOUS
    <2>3. DOMAIN call = Callers /\ call = [c \in Callers |-> call[c]]
      OBVIOUS
    <2>4. QED
      BY <2>1, <2>2, <2>3 DEF CallsOK
  <1>6. Counted
    <2>1. \A c \in Callers : Weights[c] = 0
      BY NoCallOK DEF Weights, Weight
    <2>2. Total(Weights, Callers) = Total(Weights, Callers) - Total(Weights, Callers)
      BY <2>1, TotalWithout, GeneratorAssumption
    <2>3. Total(Weights, Callers) \in Int
      BY <2>1, TotalType, GeneratorAssumption
    <2>4. requests = 0 /\ hits = 0 /\ merged = FALSE
      OBVIOUS
    <2> HIDE DEF EmbInit, GenInit
    <2>5. Total(Weights, Callers) = 0 /\ requests - hits = 0
      BY <2>2, <2>3, <2>4
    <2>6. QED
      BY <2>4, <2>5 DEF Counted
  <1>7. BlankOK
    BY DEF BlankOK
  <1>8. QED
    BY <1>1, <1>2, <1>3, <1>5, <1>6, <1>7 DEF GenIInv

LEMMA GenStepInvariant == GenIInv /\ [GenNext]_embVars => GenIInv'
  <1> SUFFICES ASSUME GenIInv, [GenNext]_embVars PROVE GenIInv'
    OBVIOUS
  <1>1. ModelIInv'
    BY GeneratorKeepsModels DEF GenIInv
  <1>2. ASSUME NEW c \in Callers, NEW texts \in Requests,
               GenerateBatch(c, texts) \/ GenerateEmbedding(c, Head(texts))
        PROVE  GenIInv'
    <2>1. texts \in Seq(Texts) \ {<<>>} /\ Head(texts) \in Texts
      BY GeneratorAssumption
    <2>2. QED
      BY <1>1, <1>2, <2>1, GenerateBatchOK, GenerateEmbeddingOK
  <1>3. ASSUME NEW c \in Callers, PreloadModel(c) PROVE GenIInv'
    BY <1>1, <1>3, PreloadModelOK
  <1>4. ASSUME NEW c \in Callers, Progress(c) PROVE GenIInv'
    <2>1. ASSUME NEW timeout \in BOOLEAN, AttemptFails(c, timeout) PROVE GenIInv'
      BY <1>1, <2>1, AttemptFailsOK
    <2>2. CASE Attempt(c) \/ Preloaded(c) \/ Embedded(c)
      BY <1>1, <2>2, AttemptOK, PreloadedOK, EmbeddedOK
    <2>3. CASE SliceEmbedded(c) \/ DelayEnds(c)
      BY <1>1, <2>3, SliceEmbeddedOK, DelayEndsOK
    <2>4. QED
      BY <1>4, <2>1, <2>2, <2>3 DEF Progress
  <1>5. ASSUME CreationEnds PROVE GenIInv'
    BY <1>1, <1>5, CreationEndsOK DEF CreationEnds
  <1>6. ASSUME ClearCache \/ Dispose PROVE GenIInv'
    BY <1>1, <1>6, ClearCacheOK, DisposeOK
  <1>7. ASSUME AdapterDisposed PROVE GenIInv'
    BY <1>1, <1>7, DisposedOK DEF AdapterDisposed
  <1>8. ASSUME \/ UNCHANGED embVars
               \/ UNCHANGED genVars /\ Settles
               \/ UNCHANGED genVars /\ \E d \in Disposers : DisposeAllModels(d) \/ PipelineDisposed(d)
        PROVE  GenIInv'
    BY <1>1, <1>8, ModelsMoveOK DEF embVars
  <1>9. QED
    BY <1>2, <1>3, <1>4, <1>5, <1>6, <1>7, <1>8 DEF GenNext

LEMMA NobodyForgottenOK == GenIInv => NobodyForgotten
  <1> SUFFICES ASSUME GenIInv, NEW c \in Callers
               PROVE  /\ call[c].phase = "adapter" => call[c].on \in PendingCreations
                      /\ call[c].phase = "embedding" => at[c] # "idle"
                      /\ at[c] \in {"starting", "joined"} => loading[rec[c]]
    BY DEF NobodyForgotten
  <1>1. at[c] \in {"starting", "joined"} => loading[rec[c]]
    <2> SUFFICES ASSUME at[c] \in {"starting", "joined"} PROVE loading[rec[c]]
      OBVIOUS
    <2>1. rec[c] \in Records
      BY ModelCacheAssumption DEF GenIInv, ModelIInv, NobodyWaits, ModelTypeOK, Records
    <2>2. Waits(c, rec[c])
      BY DEF Waits
    <2>3. QED
      BY <2>1, <2>2 DEF GenIInv, ModelIInv, NobodyWaits
  <1>2. QED
    BY <1>1 DEF GenIInv, CallsOK

(* Whoever waits, for an adapter, a load or an embedding, waits for        *)
(* something that is under way, whatever fails or is disposed meanwhile    *)
(* (getAdapter, getOrLoadModel).                                           *)
THEOREM NobodyIsForgotten == EmbSpec => []NobodyForgotten
  BY GenInitInvariant, GenStepInvariant, NobodyForgottenOK, PTL DEF EmbSpec

(* A generator that was left alone by its dispose has no adapter and no    *)
(* entries until it is used again (dispose).                               *)
THEOREM DisposedGeneratorStaysBlank == EmbSpec => []DisposedStaysBlank
  <1>1. GenIInv => DisposedStaysBlank
    BY DEF GenIInv, BlankOK, DisposedStaysBlank
  <1>2. QED
    BY GenInitInvariant, GenStepInvariant, <1>1, PTL DEF EmbSpec

(* Under the generator too the callers share the models (getOrLoadModel,   *)
(* disposeAllModels).                                                      *)
THEOREM GeneratorsShareModels == EmbSpec => []ModelsShared
  <1>1. GenIInv => ModelsShared
    BY ModelsSharedOK DEF GenIInv
  <1>2. QED
    BY GenInitInvariant, GenStepInvariant, <1>1, PTL DEF EmbSpec

(* What dispose has noted of itself. *)
LifeOK == closing \in 0..MaxClosings /\ blank \in BOOLEAN /\ overlap \in BOOLEAN

LEMMA LifeStep == LifeOK /\ [GenNext]_embVars => LifeOK'
  <1> SUFFICES ASSUME LifeOK, [GenNext]_embVars PROVE LifeOK'
    OBVIOUS
  <1>1. CASE UNCHANGED lifeVars
    BY <1>1 DEF LifeOK, lifeVars
  <1>2. ASSUME NEW c \in Callers, Begins(c) PROVE LifeOK'
    BY <1>2 DEF LifeOK, Begins
  <1>3. CASE Dispose \/ AdapterDisposed
    <2>1. MaxClosings \in Nat
      BY GeneratorAssumption
    <2>2. closing' \in 0..MaxClosings
      BY <1>3, <2>1 DEF LifeOK, Dispose, AdapterDisposed
    <2>3. blank' \in BOOLEAN /\ overlap' \in BOOLEAN
      BY <1>3 DEF LifeOK, Dispose, AdapterDisposed, Disposed
    <2>4. QED
      BY <2>2, <2>3 DEF LifeOK
  <1>4. ASSUME NEW c \in Callers, Progress(c) PROVE UNCHANGED lifeVars
    BY <1>4 DEF Progress, Attempt, Preloaded, Embedded, SliceEmbedded, DelayEnds, AttemptFails
  <1>5. ASSUME CreationEnds \/ ClearCache PROVE UNCHANGED lifeVars
    BY <1>5 DEF CreationEnds, AdapterCreated, CreationFails, ClearCache
  <1>6. ASSUME NEW c \in Callers, NEW texts \in Requests,
               GenerateBatch(c, texts) \/ GenerateEmbedding(c, Head(texts))
        PROVE  Begins(c)
    BY <1>6 DEF GenerateBatch, GenerateEmbedding
  <1>7. ASSUME NEW c \in Callers, PreloadModel(c) PROVE Begins(c)
    BY <1>7 DEF PreloadModel
  <1>8. CASE UNCHANGED embVars \/ UNCHANGED genVars
    BY <1>1, <1>8 DEF embVars, genVars
  <1>9. QED
    BY <1>1, <1>2, <1>3, <1>4, <1>5, <1>6, <1>7, <1>8 DEF GenNext

LEMMA GenTypes == GenIInv /\ LifeOK => EmbTypeOK
  <1> SUFFICES ASSUME GenIInv, LifeOK PROVE EmbTypeOK
    OBVIOUS
  <1>1. ModelTypeOK
    BY DEF GenIInv, ModelIInv
  <1>2. /\ cache \in [Keys -> Texts \cup {None, Merged}]
        /\ age \in Seq(Keys)
        /\ {k \in Keys : cache[k] # None} = ToSet(age) /\ IsInjective(age)
    BY DEF GenIInv, TableOK, Tables, Table
  <1>3. \A c \in Callers :
          /\ call[c].kind \in {"none", "single", "batch", "preload"}
          /\ call[c].phase \in Phases
          /\ call[c].attempt \in 0..MaxRetries
          /\ call[c].on \in 0..MaxCreations
    BY DEF GenIInv, CallsOK, CallOK, CallSet, Kinds
  <1>4. QED
    BY <1>1, <1>2, <1>3 DEF GenIInv, AdapterOK, Counted, LifeOK, EmbTypeOK, GenTypeOK

(* The generator and the models under it keep their types, and the order   *)
(* of the cache lists its entries, each once and nothing else              *)
(* (setCachedEmbedding, clearCache, dispose).                              *)
THEOREM EmbeddingTypes == EmbSpec => []EmbTypeOK
  <1>1. EmbInit => LifeOK
    <2>1. 0 \in 0..MaxClosings
      BY GeneratorAssumption
    <2>2. EmbInit => closing = 0 /\ blank = FALSE /\ overlap = FALSE
      BY DEF EmbInit, GenInit
    <2>3. QED
      BY <2>1, <2>2 DEF LifeOK
  <1>2. QED
    BY <1>1, LifeStep, GenTypes, GenInitInvariant, GenStepInvariant, PTL DEF EmbSpec

LEMMA BatchesAddUpOK == GenIInv => BatchesAddUp
  <1> SUFFICES ASSUME GenIInv PROVE BatchesAddUp
    OBVIOUS
  <1>1. ASSUME ~merged PROVE AnswersMatchTexts
    <2> USE <1>1
    <2> SUFFICES ASSUME NEW c \in Callers, call[c].phase = "done", call[c].kind # "preload"
                 PROVE  /\ Len(call[c].answers) = Len(call[c].texts)
                        /\ \A i \in 1..Len(call[c].texts) :
                              /\ call[c].answers[i] \in Texts
                              /\ KeyOf[call[c].answers[i]] = KeyOf[call[c].texts[i]]
                              /\ i \in ToSet(call[c].open) =>
                                    call[c].answers[i] = call[c].texts[i]
      BY DEF AnswersMatchTexts
    <2>1. CallOK(merged, call[c]) /\ call[c].texts \in Seq(Texts)
      BY DEF GenIInv, CallsOK, CallOK, CallSet
    <2>2. CASE call[c].kind = "single"
      <3>1. SingleOK(merged, call[c]) /\ (call[c].open = <<>> => ToSet(call[c].open) = {})
        BY <2>1, <2>2 DEF CallOK, ToSet
      <3>2. QED
        BY <3>1 DEF SingleOK, Right
    <2>3. CASE call[c].kind = "batch"
      <3>1. DOMAIN call[c].texts = 1..Len(call[c].texts)
        BY <2>1
      <3>2. QED
        BY <2>1, <2>3, <3>1 DEF CallOK, BatchOK, Right
    <2>4. QED
      BY <2>1, <2>2, <2>3 DEF CallOK, CallSet, Kinds
  <1>2. StatsAddUp
    <2> SUFFICES ASSUME \A c \in Callers : call[c].kind = "batch" => call[c].phase = "done"
                 PROVE  requests - hits = Total([c \in Callers |-> Len(call[c].open)], Callers)
      BY DEF StatsAddUp
    <2>1. Weights = [c \in Callers |-> Len(call[c].open)]
      BY DEF Weights, Weight
    <2>2. QED
      BY <2>1 DEF GenIInv, Counted
  <1>3. QED
    BY <1>1, <1>2 DEF BatchesAddUp

(* As long as no slice of several texts was answered with one tensor,      *)
(* every finished request has the right answer at the place of each of its *)
(* texts, whatever was cached, evicted, sliced, retried or asked meanwhile *)
(* - its own where the adapter was asked, its own or that of a text with   *)
(* the same hash where the cache had one - and requests and hits differ by *)
(* what was sent to the adapter in any case (generateBatchEmbeddings).     *)
THEOREM AnswersBelongToTexts == EmbSpec => []BatchesAddUp
  <1>1. GenIInv => BatchesAddUp
    BY BatchesAddUpOK
  <1>2. QED
    BY GenInitInvariant, GenStepInvariant, <1>1, PTL DEF EmbSpec

-----------------------------------------------------------------------------
(* The events.  Listeners subscribe once, so they are in one array at most *)
(* and there at one place, and who was removed or is spent never returns.  *)
BeforePairs == {p \in Listeners \X Listeners : Before(p[1], p[2])}

Subscribers == ToSet(subscribed)

ArraysOK ==
    /\ \A n \in DOMAIN arrays :
          /\ IsInjective(arrays[n]) /\ Ordered(arrays[n], BeforePairs)
          /\ ToSet(arrays[n]) \subseteq Subscribers \ offed
    /\ \A n, k \in DOMAIN arrays : n # k => ToSet(arrays[n]) \cap ToSet(arrays[k]) = {}

SpentOK == spent \subseteq Subscribers /\ SpentIsGone

(* The part of an array that a walk has behind it, and who was called.     *)
Reached(a, next, calls, all) ==
    /\ next \in Nat /\ 1 <= next /\ next - 1 <= Len(a)
    /\ all \subseteq ToSet(a)
    /\ \A l \in Listeners : calls[l] = IF \E i \in 1..(next - 1) : a[i] = l THEN 1 ELSE 0

WalkOK(e) ==
    /\ emission[e].at \in Subscribers \cup {Nobody}
    /\ emission[e].remove \subseteq Subscribers
    /\ emission[e].next >= 1
    /\ emission[e].phase = "running" => emission[e].array \in DOMAIN arrays

ReachOK(e) ==
    /\ emission[e].phase = "idle" => \A l \in Listeners : count[e][l] = 0
    /\ emission[e].phase = "running" =>
          Reached(arrays[emission[e].array], emission[e].next, count[e], through[e])
    /\ emission[e].phase = "ended" =>
          /\ \A l \in Listeners : count[e][l] <= 1
          /\ \A l \in through[e] : count[e][l] = 1

EventIInv ==
    /\ TypeOK /\ IsInjective(subscribed) /\ ArraysOK /\ SpentOK /\ offed \subseteq Subscribers
    /\ \A e \in Emissions : WalkOK(e)
    /\ \A e \in Emissions \ disturbed : ReachOK(e)

-----------------------------------------------------------------------------
(* The walk's past survives a change of the array that leaves it alone.    *)
LEMMA PastKept ==
  ASSUME NEW a \in Seq(Listeners), NEW new \in Seq(Listeners), NEW next, NEW calls,
         NEW all, Reached(a, next, calls, all), NEW rest \in SUBSET ToSet(new),
         \A i \in 1..(next - 1) : i <= Len(a) => i <= Len(new) /\ new[i] = a[i]
  PROVE  Reached(new, next, calls, rest)
  <1> USE DEF Reached
  <1>1. \A i \in 1..(next - 1) : i <= Len(new) /\ new[i] = a[i]
    OBVIOUS
  <1>2. next - 1 <= Len(new)
    <2>1. CASE next = 1
      BY <2>1
    <2>2. CASE next # 1
      <3>1. next - 1 \in 1..(next - 1)
        BY <2>2
      <3>2. QED
        BY <1>1, <3>1
    <2>3. QED
      BY <2>1, <2>2
  <1>3. \A l \in Listeners : (\E i \in 1..(next - 1) : a[i] = l)
                          <=> (\E i \in 1..(next - 1) : new[i] = l)
    BY <1>1
  <1>4. QED
    BY <1>2, <1>3

(* The next listener is called for the first time.                         *)
LEMMA NextCalled ==
  ASSUME NEW a \in Seq(Listeners), IsInjective(a), NEW next, NEW all,
         NEW calls \in [Listeners -> 0..2], Reached(a, next, calls, all), next <= Len(a)
  PROVE  /\ a[next] \in Listeners /\ a[next] \in ToSet(a)
         /\ Reached(a, next + 1, [calls EXCEPT ![a[next]] = UpTo2(@)], all)
         /\ [calls EXCEPT ![a[next]] = UpTo2(@)] \in [Listeners -> 0..2]
  <1> DEFINE l == a[next]
             more == [calls EXCEPT ![l] = UpTo2(@)]
  <1>1. next \in Nat /\ 1 <= next /\ next \in DOMAIN a /\ DOMAIN a = 1..Len(a)
    BY DEF Reached
  <1>2. l \in Listeners /\ l \in ToSet(a)
    BY <1>1 DEF ToSet
  <1>3. \A i \in 1..(next - 1) : i \in DOMAIN a /\ a[i] # l
    BY <1>1 DEF IsInjective
  <1>4. calls[l] = 0
    BY <1>2, <1>3 DEF Reached
  <1> HIDE DEF l
  <1>5. more[l] = 1 /\ \A k \in Listeners : k # l => more[k] = calls[k]
    BY <1>2, <1>4 DEF UpTo2
  <1>6. more \in [Listeners -> 0..2]
    BY <1>2, <1>4 DEF UpTo2
  <1> HIDE DEF more
  <1>7. /\ next + 1 \in Nat /\ 1 <= next + 1 /\ (next + 1) - 1 <= Len(a)
        /\ (next + 1) - 1 = next
    BY <1>1
  <1>8. ASSUME NEW k \in Listeners
        PROVE  more[k] = IF \E i \in 1..next : a[i] = k THEN 1 ELSE 0
    <2>1. CASE k = l
      BY <1>1, <1>5, <2>1 DEF l
    <2>2. CASE k # l
      <3>1. \A i \in 1..next : a[i] = k => i \in 1..(next - 1)
        BY <1>1, <2>2 DEF l
      <3>2. \A i \in 1..(next - 1) : i \in 1..next
        BY <1>1
      <3>3. calls[k] = IF \E i \in 1..(next - 1) : a[i] = k THEN 1 ELSE 0
        BY DEF Reached
      <3>4. QED
        BY <1>5, <2>2, <3>1, <3>2, <3>3
    <2>3. QED
      BY <2>1, <2>2
  <1>9. Reached(a, next + 1, more, all)
    BY <1>7, <1>8 DEF Reached
  <1>10. QED
    BY <1>2, <1>6, <1>9 DEF more, l

(* At the end of the array everyone has been called once.                  *)
LEMMA AllCalled ==
  ASSUME NEW a \in Seq(Listeners), NEW next, NEW all, NEW calls,
         Reached(a, next, calls, all), ~(next <= Len(a)), all \subseteq Listeners
  PROVE  (\A l \in Listeners : calls[l] <= 1) /\ (\A l \in all : calls[l] = 1)
  <1>1. next - 1 = Len(a) /\ Len(a) \in Nat
    BY DEF Reached
  <1>2. \A l \in all : \E i \in 1..(next - 1) : a[i] = l
    BY <1>1 DEF Reached, ToSet
  <1>3. QED
    BY <1>2 DEF Reached

-----------------------------------------------------------------------------
(* A new subscription is the last, so it comes after its equals.           *)
LEMMA BeforeGrows ==
  ASSUME TypeOK, NEW l \in Listeners, subscribed' = Append(subscribed, l)
  PROVE  /\ BeforePairs \subseteq BeforePairs' /\ Subscribers' = Subscribers \cup {l}
         /\ \A k \in Subscribers : /\ k \in Listeners
                                   /\ Priority[k] >= Priority[l] => <<k, l>> \in BeforePairs'
         /\ \A k \in Listeners : Priority[k] < Priority[l] => <<l, k>> \in BeforePairs'
  <1>1. /\ subscribed \in Seq(Listeners) /\ DOMAIN subscribed = 1..Len(subscribed)
        /\ Len(subscribed) \in Nat /\ DOMAIN subscribed' = 1..(Len(subscribed) + 1)
        /\ subscribed'[Len(subscribed) + 1] = l
        /\ \A i \in DOMAIN subscribed : subscribed'[i] = subscribed[i] /\ i \in DOMAIN subscribed'
    BY DEF TypeOK
  <1>2. Subscribers' = Subscribers \cup {l}
    BY <1>1, AppendResult DEF Subscribers
  <1>3. BeforePairs \subseteq BeforePairs'
    <2> SUFFICES ASSUME NEW p \in BeforePairs PROVE Before(p[1], p[2])'
      BY DEF BeforePairs
    <2>1. Before(p[1], p[2])
      BY DEF BeforePairs
    <2>2. QED
      BY <1>1, <2>1 DEF Before
  <1>4. ASSUME NEW k \in Subscribers
        PROVE  k \in Listeners /\ (Priority[k] >= Priority[l] => <<k, l>> \in BeforePairs')
    <2>1. PICK i \in DOMAIN subscribed : subscribed[i] = k
      BY DEF Subscribers, ToSet
    <2>2. k \in Listeners
      BY <1>1, <2>1
    <2>3. /\ i \in DOMAIN subscribed' /\ Len(subscribed) + 1 \in DOMAIN subscribed'
          /\ i < Len(subscribed) + 1 /\ subscribed'[i] = k
      BY <1>1, <2>1
    <2>4. Priority[k] >= Priority[l] => Priority[k] > Priority[l] \/ Priority[k] = Priority[l]
      BY <2>2, EmitterAssumption
    <2>5. Priority[k] >= Priority[l] => Before(k, l)'
      BY <1>1, <2>3, <2>4 DEF Before
    <2>6. QED
      BY <2>2, <2>5 DEF BeforePairs
  <1>5. ASSUME NEW k \in Listeners, Priority[k] < Priority[l] PROVE <<l, k>> \in BeforePairs'
    <2>1. Priority[l] > Priority[k]
      BY <1>5, EmitterAssumption
    <2>2. Before(l, k)'
      BY <2>1 DEF Before
    <2>3. QED
      BY <2>2 DEF BeforePairs
  <1>6. QED
    BY <1>2, <1>3, <1>4, <1>5

LEMMA OrderedMore ==
  ASSUME NEW s, NEW R, NEW Q, R \subseteq Q, Ordered(s, R)
  PROVE  Ordered(s, Q)
  BY DEF Ordered

LEMMA InsertOK ==
  ASSUME TypeOK, NEW l \in Listeners, subscribed' = Append(subscribed, l), l \notin Subscribers,
         NEW a \in Seq(Listeners), IsInjective(a), Ordered(a, BeforePairs),
         ToSet(a) \subseteq Subscribers
  PROVE  /\ Insert(a, l) \in Seq(Listeners) /\ Insert(a, l) # <<>>
         /\ IsInjective(Insert(a, l)) /\ Ordered(Insert(a, l), BeforePairs')
         /\ ToSet(Insert(a, l)) = ToSet(a) \cup {l}
  <1> DEFINE H == {m \in Listeners : Priority[m] >= Priority[l]}
             L == {m \in Listeners : Priority[m] < Priority[l]}
             high == Keep(a, H)
             low == Keep(a, L)
  <1>1. Insert(a, l) = (high \o <<l>>) \o low
    BY DEF Insert
  <1>2. Ordered(a, BeforePairs') /\ ToSet(a) \subseteq Listeners
    BY BeforeGrows, OrderedMore
  <1>3. /\ \A k \in Listeners : k \in H \/ k \in L
        /\ H \cap L = {}
    BY EmitterAssumption
  <1>4. \A k \in H \cap ToSet(a) : <<k, l>> \in BeforePairs' /\ Priority[k] >= Priority[l]
    BY BeforeGrows
  <1>5. \A k \in L \cap ToSet(a) : <<l, k>> \in BeforePairs' /\ Priority[k] < Priority[l]
    BY BeforeGrows
  <1>6. \A j \in H \cap ToSet(a), k \in L \cap ToSet(a) : <<j, k>> \in BeforePairs'
    <2> SUFFICES ASSUME NEW j \in H \cap ToSet(a), NEW k \in L \cap ToSet(a)
                 PROVE  <<j, k>> \in BeforePairs'
      OBVIOUS
    <2>1. Priority[j] > Priority[k] /\ j \in Listeners /\ k \in Listeners
      BY <1>4, <1>5, EmitterAssumption
    <2>2. Before(j, k)'
      BY <2>1 DEF Before
    <2>3. QED
      BY <2>1, <2>2 DEF BeforePairs
  <1> HIDE DEF H, L
  <1>7. /\ high \in Seq(Listeners) /\ IsInjective(high) /\ ToSet(high) = ToSet(a) \cap H
        /\ low \in Seq(Listeners) /\ IsInjective(low) /\ ToSet(low) = ToSet(a) \cap L
    BY KeepResult
  <1>8. Ordered(high, BeforePairs') /\ Ordered(low, BeforePairs')
    BY <1>2, KeepOrdered
  <1> HIDE DEF high, low
  <1> DEFINE one == <<l>>
  <1>9. /\ one \in Seq(Listeners) /\ ToSet(one) = {l} /\ IsInjective(one)
        /\ Ordered(one, BeforePairs')
    BY DEF ToSet, IsInjective, Ordered
  <1> HIDE DEF one
  <1> DEFINE front == high \o one
  <1>10. /\ front \in Seq(Listeners) /\ ToSet(front) = ToSet(high) \cup {l}
         /\ IsInjective(front) /\ Ordered(front, BeforePairs')
    <2>1. ToSet(high) \cap ToSet(one) = {}
      BY <1>7, <1>9
    <2>2. \A x \in ToSet(high), y \in ToSet(one) : <<x, y>> \in BeforePairs'
      BY <1>4, <1>7, <1>9
    <2>3. front \in Seq(Listeners) /\ ToSet(front) = ToSet(high) \cup {l} /\ IsInjective(front)
      BY <1>7, <1>9, <2>1, JoinResult
    <2>4. Ordered(front, BeforePairs')
      BY <1>7, <1>8, <1>9, <2>2, JoinOrdered
    <2>5. QED
      BY <2>3, <2>4
  <1> HIDE DEF front
  <1> DEFINE all == front \o low
  <1>11. /\ all \in Seq(Listeners) /\ ToSet(all) = ToSet(front) \cup ToSet(low)
         /\ IsInjective(all) /\ Ordered(all, BeforePairs')
    <2>1. ToSet(front) \cap ToSet(low) = {}
      BY <1>3, <1>7, <1>10
    <2>2. \A x \in ToSet(front), y \in ToSet(low) : <<x, y>> \in BeforePairs'
      BY <1>5, <1>6, <1>7, <1>10
    <2>3. all \in Seq(Listeners) /\ ToSet(all) = ToSet(front) \cup ToSet(low) /\ IsInjective(all)
      BY <1>7, <1>10, <2>1, JoinResult
    <2>4. Ordered(all, BeforePairs')
      BY <1>7, <1>8, <1>10, <2>2, JoinOrdered
    <2>5. QED
      BY <2>3, <2>4
  <1> HIDE DEF all
  <1>12. all = Insert(a, l)
    BY <1>1 DEF all, front, one
  <1>13. ToSet(all) = ToSet(a) \cup {l}
    BY <1>2, <1>3, <1>7, <1>10, <1>11
  <1>14. all # <<>>
    BY <1>13 DEF ToSet
  <1>15. QED
    BY <1>11, <1>12, <1>13, <1>14

LEMMA LeftOK ==
  ASSUME NEW a \in Seq(Listeners), IsInjective(a), Ordered(a, BeforePairs), NEW S
  PROVE  LET left == Keep(a, Listeners \ S)
         IN  /\ left \in Seq(Listeners) /\ IsInjective(left) /\ Ordered(left, BeforePairs)
             /\ ToSet(left) = ToSet(a) \ S
  <1>1. ToSet(a) \subseteq Listeners
    BY DEF ToSet
  <1>2. /\ Keep(a, Listeners \ S) \in Seq(Listeners) /\ IsInjective(Keep(a, Listeners \ S))
        /\ ToSet(Keep(a, Listeners \ S)) = ToSet(a) \cap (Listeners \ S)
    BY KeepResult
  <1>3. Ordered(Keep(a, Listeners \ S), BeforePairs)
    BY KeepOrdered
  <1>4. ToSet(a) \cap (Listeners \ S) = ToSet(a) \ S
    BY <1>1
  <1>5. QED
    BY <1>2, <1>3, <1>4

-----------------------------------------------------------------------------
(* The array in the map becomes new.                                       *)
ArrayBecomes(new) ==
    /\ current # 0 /\ new \in Seq(Listeners)
    /\ arrays' = [arrays EXCEPT ![current] = new]
    /\ IsInjective(new) /\ Ordered(new, BeforePairs') /\ BeforePairs \subseteq BeforePairs'
    /\ ToSet(new) \subseteq Subscribers' \ offed'
    /\ \A k \in DOMAIN arrays \ {current} :
          /\ ToSet(arrays[k]) \subseteq Subscribers' \ offed'
          /\ ToSet(arrays[k]) \cap ToSet(new) = {}

LEMMA CurrentArray ==
  ASSUME TypeOK, ArraysOK, current # 0
  PROVE  /\ current \in DOMAIN arrays /\ arrays[current] \in Seq(Listeners)
         /\ arrays[current] # <<>> /\ Registered = ToSet(arrays[current])
         /\ IsInjective(arrays[current]) /\ Ordered(arrays[current], BeforePairs)
         /\ Registered \subseteq Subscribers \ offed /\ Registered \subseteq Listeners
         /\ \A k \in DOMAIN arrays \ {current} : ToSet(arrays[k]) \cap Registered = {}
  <1>1. current \in DOMAIN arrays /\ arrays[current] \in Seq(Listeners)
    BY DEF TypeOK
  <1>2. Registered = ToSet(arrays[current])
    BY DEF Registered
  <1>3. Registered \subseteq Listeners
    BY <1>1, <1>2 DEF ToSet
  <1>4. QED
    BY <1>1, <1>2, <1>3 DEF TypeOK, ArraysOK

LEMMA ArrayBecomesOK ==
  ASSUME TypeOK, ArraysOK, NEW new, ArrayBecomes(new)
  PROVE  /\ ArraysOK' /\ arrays' \in Seq(Seq(Listeners)) /\ DOMAIN arrays' = DOMAIN arrays
         /\ Len(arrays') = Len(arrays) /\ arrays'[current] = new
         /\ \A k \in DOMAIN arrays \ {current} : arrays'[k] = arrays[k]
  <1> USE DEF ArrayBecomes
  <1>1. current \in DOMAIN arrays /\ arrays \in Seq(Seq(Listeners))
    BY CurrentArray DEF TypeOK
  <1>2. /\ arrays' \in Seq(Seq(Listeners)) /\ DOMAIN arrays' = DOMAIN arrays
        /\ Len(arrays') = Len(arrays) /\ arrays'[current] = new
        /\ \A k \in DOMAIN arrays \ {current} : arrays'[k] = arrays[k]
    BY <1>1
  <1>3. \A k \in DOMAIN arrays \ {current} : IsInjective(arrays[k]) /\ Ordered(arrays[k], BeforePairs')
    BY OrderedMore DEF ArraysOK
  <1> HIDE DEF ArrayBecomes
  <1>4. ArraysOK'
    <2>1. \A k \in DOMAIN arrays' :
             /\ IsInjective(arrays'[k]) /\ Ordered(arrays'[k], BeforePairs')
             /\ ToSet(arrays'[k]) \subseteq Subscribers' \ offed'
      BY <1>2, <1>3 DEF ArrayBecomes
    <2>2. \A n, k \in DOMAIN arrays' : n # k => ToSet(arrays'[n]) \cap ToSet(arrays'[k]) = {}
      <3> SUFFICES ASSUME NEW n \in DOMAIN arrays', NEW k \in DOMAIN arrays', n # k
                   PROVE  ToSet(arrays'[n]) \cap ToSet(arrays'[k]) = {}
        OBVIOUS
      <3>1. CASE n # current /\ k # current
        BY <1>2, <3>1 DEF ArraysOK
      <3>2. CASE n = current
        BY <1>2, <3>2 DEF ArrayBecomes
      <3>3. CASE k = current
        BY <1>2, <3>3 DEF ArrayBecomes
      <3>4. QED
        BY <3>1, <3>2, <3>3
    <2>3. QED
      BY <2>1, <2>2 DEF ArraysOK
  <1>5. QED
    BY <1>2, <1>4

(* An emission that goes on, whose past nobody disturbed.                  *)
Undisturbed(e) ==
    /\ emission'[e] = emission[e] /\ count'[e] = count[e] /\ e \notin disturbed'
    /\ emission[e].phase # "running" => through'[e] = through[e]
    /\ emission[e].phase = "running" => through'[e] \subseteq ToSet(arrays'[emission[e].array])

LEMMA DisturbOK ==
  ASSUME TypeOK, ArraysOK, NEW new, ArrayBecomes(new), Disturb(new),
         NEW e \in Emissions, WalkOK(e), ReachOK(e), Undisturbed(e)
  PROVE  ReachOK(e)'
  <1> USE DEF Undisturbed
  <1>1. CASE emission[e].phase # "running"
    BY <1>1 DEF ReachOK
  <1>2. CASE emission[e].phase = "running"
    <2> DEFINE n == emission[e].array
               next == emission[e].next
    <2>1. /\ n \in DOMAIN arrays /\ arrays[n] \in Seq(Listeners)
          /\ Reached(arrays[n], next, count[e], through[e])
      BY <1>2 DEF WalkOK, ReachOK, TypeOK
    <2>2. arrays'[n] \in Seq(Listeners)
      BY <2>1, ArrayBecomesOK DEF TypeOK
    <2>3. through'[e] \in SUBSET ToSet(arrays'[n])
      BY <1>2
    <2>4. \A i \in 1..(next - 1) : i <= Len(arrays[n]) =>
             i <= Len(arrays'[n]) /\ arrays'[n][i] = arrays[n][i]
      <3>1. CASE n # current
        <4>1. arrays'[n] = arrays[n]
          BY <2>1, <3>1, ArrayBecomesOK
        <4>2. QED
          BY <4>1
      <3>2. CASE n = current
        <4>1. arrays'[n] = new
          BY <3>2, ArrayBecomesOK
        <4>2. new \in Seq(Listeners)
          BY DEF ArrayBecomes
        <4>3. ~ \E i \in 1..(next - 1) :
                   i <= Len(arrays[n]) /\ (i > Len(new) \/ new[i] # arrays[n][i])
          BY <1>2, <3>2 DEF Disturb
        <4>4. next \in Nat /\ Len(new) \in Nat
          BY <2>1, <4>2 DEF Reached
        <4>5. QED
          BY <4>1, <4>3, <4>4
      <3>3. QED
        BY <3>1, <3>2
    <2> HIDE DEF n, next
    <2>5. Reached(arrays'[n], next, count[e], through'[e])
      BY <2>1, <2>2, <2>3, <2>4, PastKept
    <2>6. QED
      BY <1>2, <2>5 DEF ReachOK, n, next
  <1>3. QED
    BY <1>1, <1>2

LEMMA SameSubscribers ==
  ASSUME UNCHANGED subscribed
  PROVE  Subscribers' = Subscribers /\ BeforePairs' = BeforePairs
  BY DEF Subscribers, BeforePairs, Before

(* What takes S out of the array in the map; T has been found there.       *)
Takes(S, T) ==
    /\ Splice(S) /\ S \subseteq Listeners /\ UNCHANGED subscribed
    /\ T \subseteq S \cap Registered /\ offed' = offed \cup T

LEMMA TakesArray ==
  ASSUME TypeOK, ArraysOK, NEW S, NEW T, Takes(S, T), current # 0
  PROVE  /\ ArrayBecomes(Left(S)) /\ Disturb(Left(S)) /\ Leave(S)
         /\ current' = IF Left(S) = <<>> THEN 0 ELSE current
         /\ ToSet(Left(S)) = Registered \ S
  <1>1. /\ current \in DOMAIN arrays /\ arrays[current] \in Seq(Listeners)
        /\ Registered = ToSet(arrays[current])
        /\ IsInjective(arrays[current]) /\ Ordered(arrays[current], BeforePairs)
        /\ Registered \subseteq Subscribers \ offed
        /\ \A k \in DOMAIN arrays \ {current} : ToSet(arrays[k]) \cap Registered = {}
    BY CurrentArray
  <1>2. /\ Left(S) \in Seq(Listeners) /\ IsInjective(Left(S)) /\ Ordered(Left(S), BeforePairs)
        /\ ToSet(Left(S)) = Registered \ S
    BY <1>1, LeftOK DEF Left
  <1>3. /\ arrays' = [arrays EXCEPT ![current] = Left(S)]
        /\ current' = IF Left(S) = <<>> THEN 0 ELSE current
        /\ Disturb(Left(S)) /\ Leave(S)
    BY DEF Takes, Splice
  <1>4. Subscribers' = Subscribers /\ BeforePairs' = BeforePairs
    BY SameSubscribers DEF Takes
  <1>5. ToSet(Left(S)) \subseteq Subscribers' \ offed'
    BY <1>1, <1>2, <1>4 DEF Takes
  <1>6. \A k \in DOMAIN arrays \ {current} :
           /\ ToSet(arrays[k]) \subseteq Subscribers' \ offed'
           /\ ToSet(arrays[k]) \cap ToSet(Left(S)) = {}
    BY <1>1, <1>2, <1>4 DEF Takes, ArraysOK
  <1>7. ArrayBecomes(Left(S))
    BY <1>2, <1>3, <1>4, <1>5, <1>6 DEF ArrayBecomes
  <1>8. QED
    BY <1>2, <1>3, <1>7

LEMMA TakesOK ==
  ASSUME TypeOK, ArraysOK, NEW S, NEW T, Takes(S, T)
  PROVE  /\ ArraysOK' /\ arrays' \in Seq(Seq(Listeners)) /\ DOMAIN arrays' = DOMAIN arrays
         /\ current' \in 0..Len(arrays') /\ (current' # 0 => arrays'[current'] # <<>>)
         /\ Registered' = Registered \ S
         /\ disturbed' \subseteq Emissions /\ disturbed \subseteq disturbed'
         /\ through' \in [Emissions -> SUBSET Listeners]
         /\ \A e \in Emissions : emission'[e].phase # "running" => through'[e] = through[e]
  <1>1. CASE current = 0
    <2>1. UNCHANGED <<arrays, current, disturbed, through>>
      BY <1>1 DEF Takes, Splice
    <2>2. Registered = {} /\ Registered' = {} /\ offed' = offed
      BY <1>1, <2>1 DEF Registered, Takes
    <2>3. ArraysOK'
      BY <2>1, <2>2, SameSubscribers DEF ArraysOK, Takes
    <2>4. QED
      BY <1>1, <2>1, <2>2, <2>3 DEF TypeOK
  <1>2. CASE current # 0
    <2>1. /\ ArrayBecomes(Left(S)) /\ Disturb(Left(S)) /\ Leave(S)
          /\ current' = IF Left(S) = <<>> THEN 0 ELSE current
          /\ ToSet(Left(S)) = Registered \ S
      BY <1>2, TakesArray
    <2>2. /\ ArraysOK' /\ arrays' \in Seq(Seq(Listeners)) /\ DOMAIN arrays' = DOMAIN arrays
          /\ Len(arrays') = Len(arrays) /\ arrays'[current] = Left(S)
      BY <2>1, ArrayBecomesOK
    <2>3. /\ current' \in 0..Len(arrays') /\ (current' # 0 => arrays'[current'] # <<>>)
      BY <1>2, <2>1, <2>2 DEF TypeOK
    <2>4. Registered' = Registered \ S
      <3>1. CASE Left(S) = <<>>
        <4>1. Registered \ S = {}
          BY <2>1, <3>1, EmptyList
        <4>2. QED
          BY <2>1, <3>1, <4>1 DEF Registered
      <3>2. CASE Left(S) # <<>>
        <4>1. current' = current /\ current' # 0
          BY <1>2, <2>1, <3>2
        <4>2. Registered' = ToSet(arrays'[current])
          BY <4>1 DEF Registered
        <4>3. QED
          BY <2>1, <2>2, <4>2
      <3>3. QED
        BY <3>1, <3>2
    <2>5. disturbed' \subseteq Emissions /\ disturbed \subseteq disturbed'
      BY <2>1 DEF Disturb, TypeOK
    <2>6. /\ through' \in [Emissions -> SUBSET Listeners]
          /\ \A e \in Emissions : emission'[e].phase # "running" => through'[e] = through[e]
      BY <2>1 DEF Leave, TypeOK
    <2>7. QED
      BY <2>2, <2>3, <2>4, <2>5, <2>6
  <1>3. QED
    BY <1>1, <1>2

LEMMA TakesReach ==
  ASSUME TypeOK, ArraysOK, NEW S, NEW T, Takes(S, T), NEW e \in Emissions \ disturbed',
         WalkOK(e), ReachOK(e), emission'[e] = emission[e], count'[e] = count[e]
  PROVE  ReachOK(e)'
  <1>1. CASE current = 0
    <2>1. UNCHANGED <<arrays, through>>
      BY <1>1 DEF Takes, Splice
    <2>2. QED
      BY <2>1 DEF ReachOK
  <1>2. CASE current # 0
    <2>1. /\ ArrayBecomes(Left(S)) /\ Disturb(Left(S)) /\ Leave(S)
          /\ ToSet(Left(S)) = Registered \ S
      BY <1>2, TakesArray
    <2>2. emission[e].phase # "running" => through'[e] = through[e]
      BY TakesOK
    <2>3. ASSUME emission[e].phase = "running"
          PROVE  through'[e] \subseteq ToSet(arrays'[emission[e].array])
      <3> DEFINE n == emission[e].array
      <3>1. through'[e] = through[e] \ S /\ n \in DOMAIN arrays
        BY <2>1, <2>3 DEF Leave, WalkOK
      <3>2. through[e] \subseteq ToSet(arrays[n])
        BY <2>3 DEF ReachOK, Reached
      <3>3. CASE n = current
        <4>1. ToSet(arrays'[n]) = Registered \ S /\ Registered = ToSet(arrays[n])
          BY <1>2, <2>1, <3>3, ArrayBecomesOK DEF Registered
        <4>2. QED
          BY <3>1, <3>2, <4>1
      <3>4. CASE n # current
        <4>1. arrays'[n] = arrays[n]
          BY <2>1, <3>1, <3>4, ArrayBecomesOK
        <4>2. QED
          BY <3>1, <3>2, <4>1
      <3>5. QED
        BY <3>3, <3>4
    <2>4. Undisturbed(e)
      BY <2>2, <2>3 DEF Undisturbed
    <2>5. QED
      BY <2>1, <2>4, DisturbOK
  <1>3. QED
    BY <1>1, <1>2

-----------------------------------------------------------------------------
LEMMA OffOK ==
  ASSUME EventIInv, NEW l \in Listeners, Off(l)
  PROVE  EventIInv'
  <1>1. /\ TypeOK /\ ArraysOK /\ SpentOK /\ IsInjective(subscribed)
        /\ (\A e \in Emissions : WalkOK(e)) /\ (\A e \in Emissions \ disturbed : ReachOK(e))
    BY DEF EventIInv
  <1>2. Takes({l}, {l}) /\ UNCHANGED <<emission, subscribed, spent, count>>
    BY DEF Takes, Off
  <1>3. /\ ArraysOK' /\ arrays' \in Seq(Seq(Listeners)) /\ DOMAIN arrays' = DOMAIN arrays
        /\ current' \in 0..Len(arrays') /\ (current' # 0 => arrays'[current'] # <<>>)
        /\ Registered' = Registered \ {l}
        /\ disturbed' \subseteq Emissions /\ disturbed \subseteq disturbed'
        /\ through' \in [Emissions -> SUBSET Listeners]
    BY <1>1, <1>2, TakesOK
  <1>4. Subscribers' = Subscribers
    BY <1>2 DEF Subscribers
  <1>5. TypeOK'
    <2>1. offed' \subseteq Listeners
      BY <1>1, <1>2 DEF Takes, TypeOK
    <2>2. QED
      BY <1>1, <1>2, <1>3, <2>1 DEF TypeOK
  <1>6. SpentOK'
    BY <1>1, <1>2, <1>3, <1>4 DEF SpentOK, SpentIsGone
  <1>7. \A e \in Emissions : WalkOK(e)'
    BY <1>1, <1>2, <1>3, <1>4 DEF WalkOK
  <1>8. \A e \in Emissions \ disturbed' : ReachOK(e)'
    BY <1>1, <1>2, <1>3, TakesReach
  <1>9. Registered \subseteq Subscribers
    BY <1>1, CurrentArray DEF Registered
  <1>10. offed' \subseteq Subscribers'
    BY <1>2, <1>4, <1>9 DEF EventIInv, Takes
  <1>11. QED
    BY <1>1, <1>2, <1>3, <1>4, <1>5, <1>6, <1>7, <1>8, <1>10 DEF EventIInv

LEMMA RemoveAllListenersOK ==
  ASSUME EventIInv, RemoveAllListeners
  PROVE  EventIInv'
  <1>1. /\ TypeOK /\ ArraysOK /\ SpentOK /\ IsInjective(subscribed)
        /\ (\A e \in Emissions : WalkOK(e)) /\ (\A e \in Emissions \ disturbed : ReachOK(e))
    BY DEF EventIInv
  <1>2. /\ UNCHANGED <<arrays, emission, subscribed, offed, spent, disturbed, count>>
        /\ current' = 0
        /\ through' = [e \in Emissions |-> IF emission[e].phase = "running"
                                           THEN through[e] \ Registered ELSE through[e]]
    BY DEF RemoveAllListeners, Leave
  <1>3. Subscribers' = Subscribers /\ Registered' = {} /\ BeforePairs' = BeforePairs
    BY <1>2, SameSubscribers DEF Registered
  <1>4. ArraysOK'
    BY <1>1, <1>2, <1>3 DEF ArraysOK
  <1>5. TypeOK'
    <2>1. through' \in [Emissions -> SUBSET Listeners] /\ current' \in 0..Len(arrays')
      BY <1>1, <1>2 DEF TypeOK
    <2>2. QED
      BY <1>1, <1>2, <2>1 DEF TypeOK
  <1>6. SpentOK' /\ \A e \in Emissions : WalkOK(e)'
    BY <1>1, <1>2, <1>3 DEF SpentOK, SpentIsGone, WalkOK
  <1>7. \A e \in Emissions \ disturbed' : ReachOK(e)'
    <2> SUFFICES ASSUME NEW e \in Emissions \ disturbed PROVE ReachOK(e)'
      BY <1>2
    <2>1. /\ emission[e].phase # "running" => through'[e] = through[e]
          /\ emission[e].phase = "running" => through'[e] \subseteq through[e]
      BY <1>2
    <2>2. QED
      BY <1>1, <1>2, <2>1 DEF ReachOK, Reached
  <1>8. QED
    BY <1>1, <1>2, <1>3, <1>4, <1>5, <1>6, <1>7 DEF EventIInv

LEMMA OnOK ==
  ASSUME EventIInv, NEW l \in Listeners, On(l)
  PROVE  EventIInv'
  <1>1. /\ TypeOK /\ ArraysOK /\ SpentOK /\ IsInjective(subscribed)
        /\ (\A e \in Emissions : WalkOK(e)) /\ (\A e \in Emissions \ disturbed : ReachOK(e))
    BY DEF EventIInv
  <1>2. /\ UNCHANGED <<emission, offed, spent, through, count>>
        /\ subscribed' = Append(subscribed, l) /\ l \notin Subscribers
    BY <1>1 DEF On, Contains, Subscribers, ToSet, TypeOK
  <1>3. /\ BeforePairs \subseteq BeforePairs' /\ Subscribers' = Subscribers \cup {l}
    BY <1>1, <1>2, BeforeGrows
  <1>4. subscribed' \in Seq(Listeners) /\ IsInjective(subscribed')
    BY <1>1, <1>2, AppendResult DEF TypeOK, Subscribers
  <1>5. l \notin offed /\ l \notin spent
    <2>1. offed \subseteq Subscribers
      BY <1>1 DEF EventIInv
    <2>2. QED
      BY <1>1, <1>2, <2>1 DEF SpentOK
  <1>6. CASE current = 0
    <2>1. arrays' = Append(arrays, <<l>>) /\ current' = Len(arrays) + 1 /\ disturbed' = disturbed
      BY <1>6 DEF On
    <2> DEFINE n == Len(arrays) + 1
    <2>2. /\ arrays' \in Seq(Seq(Listeners)) /\ n \in Nat /\ n # 0 /\ n \notin DOMAIN arrays
          /\ DOMAIN arrays' = DOMAIN arrays \cup {n} /\ Len(arrays') = n
          /\ arrays'[n] = <<l>> /\ \A k \in DOMAIN arrays : arrays'[k] = arrays[k]
      BY <1>1, <2>1 DEF TypeOK
    <2>3. /\ IsInjective(<<l>>) /\ Ordered(<<l>>, BeforePairs') /\ ToSet(<<l>>) = {l}
          /\ <<l>> # <<>>
      BY DEF IsInjective, Ordered, ToSet
    <2> HIDE DEF n
    <2>4. \A k \in DOMAIN arrays :
             /\ IsInjective(arrays[k]) /\ Ordered(arrays[k], BeforePairs')
             /\ ToSet(arrays[k]) \subseteq Subscribers \ offed
      BY <1>1, <1>3, OrderedMore DEF ArraysOK
    <2>5. ArraysOK'
      <3>1. \A k \in DOMAIN arrays' :
               /\ IsInjective(arrays'[k]) /\ Ordered(arrays'[k], BeforePairs')
               /\ ToSet(arrays'[k]) \subseteq Subscribers' \ offed'
        BY <1>2, <1>3, <1>5, <2>2, <2>3, <2>4
      <3>2. ASSUME NEW j \in DOMAIN arrays', NEW k \in DOMAIN arrays', j # k
            PROVE  ToSet(arrays'[j]) \cap ToSet(arrays'[k]) = {}
        <4>1. CASE j \in DOMAIN arrays /\ k \in DOMAIN arrays
          BY <1>1, <2>2, <3>2, <4>1 DEF ArraysOK
        <4>2. CASE j = n \/ k = n
          <5>1. \A i \in DOMAIN arrays : ToSet(arrays'[i]) \cap {l} = {}
            BY <1>2, <2>2, <2>4
          <5>2. ToSet(arrays'[n]) = {l}
            BY <2>2, <2>3
          <5>3. CASE j = n
            <6>1. k \in DOMAIN arrays
              BY <2>2, <3>2, <5>3
            <6>2. QED
              BY <5>1, <5>2, <5>3, <6>1
          <5>4. CASE k = n
            <6>1. j \in DOMAIN arrays
              BY <2>2, <3>2, <5>4
            <6>2. QED
              BY <5>1, <5>2, <5>4, <6>1
          <5>5. QED
            BY <4>2, <5>3, <5>4
        <4>3. QED
          BY <2>2, <4>1, <4>2
      <3>3. QED
        BY <3>1, <3>2 DEF ArraysOK
    <2>6. Registered' = {l} /\ Registered = {}
      <3>1. current' = n /\ arrays'[current'] = <<l>>
        BY <2>1, <2>2 DEF n
      <3>2. QED
        BY <1>6, <2>2, <2>3, <3>1 DEF Registered
    <2>7. SpentOK'
      BY <1>1, <1>2, <1>3, <1>5, <2>6 DEF SpentOK, SpentIsGone
    <2>8. TypeOK'
      <3>1. current' \in 0..Len(arrays') /\ arrays'[current'] # <<>>
        BY <2>1, <2>2, <2>3 DEF n
      <3>2. QED
        BY <1>1, <1>2, <1>4, <2>1, <2>2, <3>1 DEF TypeOK
    <2>9. \A e \in Emissions : WalkOK(e)'
      BY <1>1, <1>2, <1>3, <2>2 DEF WalkOK
    <2>10. \A e \in Emissions \ disturbed' : ReachOK(e)'
      BY <1>1, <1>2, <2>1, <2>2 DEF ReachOK, WalkOK
    <2>11. QED
      BY <1>1, <1>2, <1>3, <1>4, <2>5, <2>7, <2>8, <2>9, <2>10 DEF EventIInv
  <1>7. CASE current # 0
    <2> DEFINE a == arrays[current]
               new == Insert(a, l)
    <2>1. /\ current \in DOMAIN arrays /\ a \in Seq(Listeners)
          /\ Registered = ToSet(a) /\ IsInjective(a) /\ Ordered(a, BeforePairs)
          /\ Registered \subseteq Subscribers \ offed
          /\ \A k \in DOMAIN arrays \ {current} : ToSet(arrays[k]) \cap Registered = {}
      BY <1>1, <1>7, CurrentArray
    <2>2. /\ arrays' = [arrays EXCEPT ![current] = new] /\ Disturb(new) /\ current' = current
      BY <1>7 DEF On
    <2>3. /\ new \in Seq(Listeners) /\ new # <<>> /\ IsInjective(new)
          /\ Ordered(new, BeforePairs') /\ ToSet(new) = Registered \cup {l}
      BY <1>1, <1>2, <2>1, InsertOK
    <2> HIDE DEF new
    <2>4. \A k \in DOMAIN arrays \ {current} : /\ ToSet(arrays[k]) \subseteq Subscribers \ offed
                                               /\ ToSet(arrays[k]) \cap ToSet(new) = {}
      BY <1>1, <1>2, <2>1, <2>3 DEF ArraysOK
    <2>5. ArrayBecomes(new)
      BY <1>2, <1>3, <1>5, <1>7, <2>1, <2>2, <2>3, <2>4 DEF ArrayBecomes
    <2>6. /\ ArraysOK' /\ arrays' \in Seq(Seq(Listeners)) /\ DOMAIN arrays' = DOMAIN arrays
          /\ Len(arrays') = Len(arrays) /\ arrays'[current] = new
          /\ \A k \in DOMAIN arrays \ {current} : arrays'[k] = arrays[k]
      BY <1>1, <2>5, ArrayBecomesOK
    <2>7. disturbed' \subseteq Emissions /\ disturbed \subseteq disturbed'
      BY <1>1, <2>2 DEF Disturb, TypeOK
    <2>8. TypeOK'
      <3>1. current' \in 0..Len(arrays') /\ arrays'[current'] # <<>>
        BY <1>1, <2>2, <2>3, <2>6 DEF TypeOK
      <3>2. QED
        BY <1>1, <1>2, <1>4, <2>6, <2>7, <3>1 DEF TypeOK
    <2>9. SpentOK'
      <3>1. Registered' = Registered \cup {l}
        BY <1>7, <2>2, <2>3, <2>6 DEF Registered
      <3>2. QED
        BY <1>1, <1>2, <1>3, <1>5, <3>1 DEF SpentOK, SpentIsGone
    <2>10. \A e \in Emissions : WalkOK(e)'
      BY <1>1, <1>2, <1>3, <2>6 DEF WalkOK
    <2>11. ASSUME NEW e \in Emissions \ disturbed' PROVE ReachOK(e)'
      <3>1. ReachOK(e) /\ WalkOK(e)
        BY <1>1, <2>7
      <3>2. emission[e].phase = "running" =>
               through'[e] \subseteq ToSet(arrays'[emission[e].array])
        <4>1. emission[e].phase = "running" =>
                 /\ emission[e].array \in DOMAIN arrays
                 /\ through[e] \subseteq ToSet(arrays[emission[e].array])
          BY <3>1 DEF ReachOK, WalkOK, Reached
        <4>2. QED
          BY <1>2, <2>1, <2>3, <2>6, <4>1
      <3>3. Undisturbed(e)
        BY <1>2, <3>2 DEF Undisturbed
      <3>4. QED
        BY <1>1, <2>2, <2>5, <3>1, <3>3, DisturbOK
    <2>12. QED
      BY <1>1, <1>2, <1>3, <1>4, <2>6, <2>8, <2>9, <2>10, <2>11 DEF EventIInv
  <1>8. QED
    BY <1>6, <1>7

-----------------------------------------------------------------------------
(* Emission e calls the listener at place i of its walk's array.           *)
Calls(e, walk, i, counts) ==
    /\ Call(e, walk, i, counts)
    /\ UNCHANGED <<arrays, current, subscribed, offed, spent>>
    /\ walk \in Walk /\ walk.phase = "running" /\ walk.array \in DOMAIN arrays
    /\ walk.remove \subseteq Subscribers
    /\ i \in 1..Len(arrays[walk.array]) /\ counts \in [Listeners -> 0..2]
    /\ disturbed' \subseteq Emissions /\ disturbed \subseteq disturbed' \cup {e}
    /\ through' \in [Emissions -> SUBSET Listeners]
    /\ \A d \in Emissions \ {e} : through'[d] = through[d]
    /\ e \notin disturbed' => Reached(arrays[walk.array], i, counts, through'[e])

(* What a walk is before it starts.                                        *)
LEMMA WalkFields ==
  /\ NoWalk \in Walk /\ NoWalk.phase = "idle" /\ NoWalk.at = Nobody
  /\ NoWalk.remove = {} /\ NoWalk.next = 1
  BY EmitterAssumption DEF NoWalk, Walk

LEMMA EmitsOK ==
  ASSUME EventIInv, NEW e \in Emissions, NEW walk, NEW i, NEW counts,
         Calls(e, walk, i, counts)
  PROVE  EventIInv'
  <1>1. /\ TypeOK /\ ArraysOK /\ SpentOK /\ IsInjective(subscribed)
        /\ (\A d \in Emissions : WalkOK(d)) /\ (\A d \in Emissions \ disturbed : ReachOK(d))
        /\ offed \subseteq Subscribers
    BY DEF EventIInv
  <1> DEFINE a == arrays[walk.array]
             l == a[i]
             w == [walk EXCEPT !.at = l, !.next = i + 1]
             more == [counts EXCEPT ![l] = UpTo2(@)]
  <1>2. /\ UNCHANGED <<arrays, current, subscribed, offed, spent>>
        /\ emission' = [emission EXCEPT ![e] = w] /\ count' = [count EXCEPT ![e] = more]
    BY DEF Calls, Call
  <1>3. /\ walk \in Walk /\ walk.phase = "running" /\ walk.array \in DOMAIN arrays
        /\ walk.remove \subseteq Subscribers
        /\ i \in 1..Len(a) /\ counts \in [Listeners -> 0..2]
    BY DEF Calls
  <1>4. a \in Seq(Listeners) /\ IsInjective(a) /\ ToSet(a) \subseteq Subscribers
    BY <1>1, <1>3 DEF TypeOK, ArraysOK
  <1>5. l \in Listeners /\ l \in Subscribers
    BY <1>3, <1>4 DEF ToSet
  <1>6. /\ w \in Walk /\ w.phase = "running" /\ w.array = walk.array /\ w.next = i + 1
        /\ w.at = l /\ w.remove = walk.remove
    <2> DEFINE n == i + 1
    <2>1. n \in Nat
      BY <1>3
    <2> HIDE DEF l, n
    <2>2. /\ [walk EXCEPT !.at = l, !.next = n] \in Walk
          /\ LET v == [walk EXCEPT !.at = l, !.next = n]
             IN  /\ v.phase = walk.phase /\ v.array = walk.array /\ v.next = n
                 /\ v.at = l /\ v.remove = walk.remove
      BY <1>3, <1>5, <2>1 DEF Walk
    <2>3. QED
      BY <1>3, <2>2 DEF n
  <1>7. more \in [Listeners -> 0..2]
    BY <1>3, <1>5 DEF UpTo2
  <1>8. e \notin disturbed' => Reached(a, i + 1, more, through'[e])
    <2> SUFFICES ASSUME e \notin disturbed' PROVE Reached(a, i + 1, more, through'[e])
      OBVIOUS
    <2>1. Reached(a, i, counts, through'[e]) /\ i <= Len(a)
      BY <1>3 DEF Calls
    <2>2. QED
      BY <1>3, <1>4, <2>1, NextCalled
  <1>9. i + 1 >= 1
    BY <1>3
  <1>a. a = arrays'[walk.array]
    BY <1>2
  <1> HIDE DEF w, more, l, a
  <1>10. /\ emission' \in [Emissions -> Walk] /\ emission'[e] = w /\ count'[e] = more
         /\ count' \in [Emissions -> [Listeners -> 0..2]]
         /\ \A d \in Emissions \ {e} : emission'[d] = emission[d] /\ count'[d] = count[d]
    BY <1>1, <1>2, <1>6, <1>7 DEF TypeOK
  <1>11. /\ disturbed' \subseteq Emissions /\ disturbed \subseteq disturbed' \cup {e}
         /\ through' \in [Emissions -> SUBSET Listeners]
         /\ \A d \in Emissions \ {e} : through'[d] = through[d]
    BY DEF Calls
  <1>12. TypeOK'
    BY <1>1, <1>2, <1>10, <1>11 DEF TypeOK
  <1>13. /\ Subscribers' = Subscribers /\ BeforePairs' = BeforePairs /\ Registered' = Registered
    BY <1>2, SameSubscribers DEF Registered
  <1>14. ArraysOK' /\ SpentOK'
    BY <1>1, <1>2, <1>13 DEF ArraysOK, SpentOK, SpentIsGone
  <1>15. \A d \in Emissions : WalkOK(d)'
    <2>1. WalkOK(e)'
      BY <1>2, <1>3, <1>5, <1>6, <1>9, <1>10, <1>13 DEF WalkOK
    <2>2. \A d \in Emissions \ {e} : WalkOK(d)'
      BY <1>1, <1>2, <1>10, <1>13 DEF WalkOK
    <2>3. QED
      BY <2>1, <2>2
  <1>16. \A d \in Emissions \ disturbed' : ReachOK(d)'
    <2>1. e \notin disturbed' => ReachOK(e)'
      BY <1>6, <1>8, <1>10, <1>a DEF ReachOK
    <2>2. ASSUME NEW d \in Emissions \ disturbed', d # e PROVE ReachOK(d)'
      <3>1. ReachOK(d)
        BY <1>1, <1>11, <2>2
      <3>2. QED
        BY <1>2, <1>10, <1>11, <2>2, <3>1 DEF ReachOK
    <2>3. QED
      BY <2>1, <2>2
  <1>17. QED
    BY <1>1, <1>2, <1>12, <1>13, <1>14, <1>15, <1>16 DEF EventIInv

LEMMA EmitOK ==
  ASSUME EventIInv, NEW e \in Emissions, Emit(e)
  PROVE  EventIInv'
  <1> DEFINE walk == [NoWalk EXCEPT !.phase = "running", !.array = current]
             none == [l \in Listeners |-> 0]
  <1>1. TypeOK /\ ArraysOK /\ current # 0
    BY DEF EventIInv, Emit
  <1>2. /\ current \in DOMAIN arrays /\ arrays[current] \in Seq(Listeners)
        /\ arrays[current] # <<>> /\ Registered = ToSet(arrays[current])
        /\ Registered \subseteq Listeners
    BY <1>1, CurrentArray
  <1>3. /\ walk.phase = "running" /\ walk.array = current /\ walk.remove = {}
        /\ walk \in Walk
    <2>1. current \in Nat
      BY <1>1 DEF TypeOK
    <2>2. NoWalk \in Walk /\ NoWalk.remove = {}
      BY WalkFields
    <2>3. QED
      BY <2>1, <2>2 DEF Walk
  <1>4. Len(arrays[current]) \in Nat /\ 1 \in 1..Len(arrays[current])
    BY <1>2
  <1>5. none \in [Listeners -> 0..2] /\ \A l \in Listeners : none[l] = 0
    OBVIOUS
  <1>6. /\ Call(e, walk, 1, none) /\ disturbed' = disturbed \ {e}
        /\ through' = [through EXCEPT ![e] = Registered]
        /\ UNCHANGED <<arrays, current, subscribed, offed, spent>>
    BY DEF Emit
  <1> HIDE DEF walk, none
  <1>7. Reached(arrays[current], 1, none, Registered)
    <2>1. 1..(1 - 1) = {} /\ 1 - 1 <= Len(arrays[current])
      BY <1>4
    <2>2. QED
      BY <1>2, <1>5, <2>1 DEF Reached
  <1>8. /\ through' \in [Emissions -> SUBSET Listeners] /\ through'[e] = Registered
        /\ \A d \in Emissions \ {e} : through'[d] = through[d]
    BY <1>1, <1>2, <1>6 DEF TypeOK
  <1>9. disturbed' \subseteq Emissions /\ disturbed \subseteq disturbed' \cup {e}
    BY <1>1, <1>6 DEF TypeOK
  <1>10. Calls(e, walk, 1, none)
    BY <1>2, <1>3, <1>4, <1>5, <1>6, <1>7, <1>8, <1>9 DEF Calls
  <1>11. QED
    BY <1>10, EmitsOK

(* The walk of emission e goes on as walk.                                 *)
EmitGoesOn(e, walk) ==
    /\ Advance(e, walk) /\ UNCHANGED <<subscribed, offed>>
    /\ emission[e].phase = "running" /\ walk \in Walk /\ walk.phase = "running"
    /\ walk.array = emission[e].array /\ walk.next = emission[e].next
    /\ walk.remove \subseteq Subscribers

LEMMA FinishOK ==
  ASSUME EventIInv, NEW e \in Emissions, NEW walk, EmitGoesOn(e, walk),
         ~(walk.next <= Len(arrays[walk.array]))
  PROVE  EventIInv'
  <1>1. /\ TypeOK /\ ArraysOK /\ SpentOK /\ IsInjective(subscribed)
        /\ (\A d \in Emissions : WalkOK(d)) /\ (\A d \in Emissions \ disturbed : ReachOK(d))
        /\ offed \subseteq Subscribers
    BY DEF EventIInv
  <1>2. /\ emission[e].phase = "running" /\ walk \in Walk
        /\ walk.array = emission[e].array /\ walk.next = emission[e].next
        /\ walk.remove \subseteq Subscribers
    BY DEF EmitGoesOn
  <1> DEFINE w == [NoWalk EXCEPT !.phase = "ended"]
  <1>3. /\ emission' = [emission EXCEPT ![e] = w] /\ Splice(walk.remove)
        /\ spent' = spent \cup walk.remove /\ count' = count /\ UNCHANGED <<subscribed, offed>>
    BY DEF EmitGoesOn, Advance, Finish
  <1>4. w \in Walk /\ w.phase = "ended" /\ w.at = Nobody /\ w.remove = {} /\ w.next = 1
    BY EmitterAssumption DEF Walk, NoWalk
  <1> HIDE DEF w
  <1>5. /\ emission' \in [Emissions -> Walk] /\ emission'[e] = w
        /\ \A d \in Emissions \ {e} : emission'[d] = emission[d]
    BY <1>1, <1>3, <1>4 DEF TypeOK
  <1>6. walk.remove \subseteq Listeners
    BY <1>2 DEF Walk
  <1>7. Takes(walk.remove, {})
    BY <1>3, <1>6 DEF Takes
  <1>8. /\ ArraysOK' /\ arrays' \in Seq(Seq(Listeners)) /\ DOMAIN arrays' = DOMAIN arrays
        /\ current' \in 0..Len(arrays') /\ (current' # 0 => arrays'[current'] # <<>>)
        /\ Registered' = Registered \ walk.remove
        /\ disturbed' \subseteq Emissions /\ disturbed \subseteq disturbed'
        /\ through' \in [Emissions -> SUBSET Listeners]
        /\ \A d \in Emissions : emission'[d].phase # "running" => through'[d] = through[d]
    BY <1>1, <1>7, TakesOK
  <1>9. Subscribers' = Subscribers
    BY <1>3 DEF Subscribers
  <1>10. TypeOK'
    BY <1>1, <1>3, <1>5, <1>6, <1>8 DEF TypeOK
  <1>11. SpentOK'
    BY <1>1, <1>2, <1>3, <1>8, <1>9 DEF SpentOK, SpentIsGone
  <1>12. \A d \in Emissions : WalkOK(d)'
    <2>1. WalkOK(e)'
      BY <1>4, <1>5 DEF WalkOK
    <2>2. \A d \in Emissions \ {e} : WalkOK(d)'
      BY <1>1, <1>5, <1>8, <1>9 DEF WalkOK
    <2>3. QED
      BY <2>1, <2>2
  <1>13. ASSUME NEW d \in Emissions \ disturbed' PROVE ReachOK(d)'
    <2>1. WalkOK(d) /\ ReachOK(d)
      BY <1>1, <1>8
    <2>2. CASE d = e
      <3> DEFINE a == arrays[walk.array]
      <3>1. Reached(a, walk.next, count[e], through[e]) /\ a \in Seq(Listeners)
        BY <1>1, <1>2, <2>1, <2>2 DEF ReachOK, WalkOK, TypeOK
      <3>2. ~(walk.next <= Len(a)) /\ through[e] \subseteq Listeners
        BY <1>1 DEF TypeOK
      <3> HIDE DEF a
      <3>3. (\A l \in Listeners : count[e][l] <= 1) /\ (\A l \in through[e] : count[e][l] = 1)
        BY <3>1, <3>2, AllCalled
      <3>4. through'[e] = through[e]
        BY <1>4, <1>5, <1>8
      <3>5. QED
        BY <1>3, <1>4, <1>5, <2>2, <3>3, <3>4 DEF ReachOK
    <2>3. CASE d # e
      BY <1>1, <1>3, <1>5, <1>7, <2>1, <2>3, TakesReach
    <2>4. QED
      BY <2>2, <2>3
  <1>14. QED
    BY <1>1, <1>3, <1>8, <1>9, <1>10, <1>11, <1>12, <1>13 DEF EventIInv

LEMMA EmitGoesOnOK ==
  ASSUME EventIInv, NEW e \in Emissions, NEW walk, EmitGoesOn(e, walk)
  PROVE  EventIInv'
  <1>1. TypeOK /\ WalkOK(e) /\ (e \notin disturbed => ReachOK(e))
    BY DEF EventIInv
  <1>2. CASE walk.next <= Len(arrays[walk.array])
    <2>1. /\ Call(e, walk, walk.next, count[e])
          /\ UNCHANGED <<arrays, current, subscribed, offed, spent, disturbed, through>>
      BY <1>2 DEF EmitGoesOn, Advance
    <2>2. /\ emission[e].phase = "running" /\ walk \in Walk /\ walk.phase = "running"
          /\ walk.array = emission[e].array /\ walk.next = emission[e].next
          /\ walk.remove \subseteq Subscribers
      BY DEF EmitGoesOn
    <2>3. walk.array \in DOMAIN arrays /\ arrays[walk.array] \in Seq(Listeners)
      BY <1>1, <2>2 DEF WalkOK, TypeOK
    <2>4. walk.next \in 1..Len(arrays[walk.array])
      BY <1>1, <1>2, <2>2, <2>3 DEF WalkOK, Walk
    <2>5. count[e] \in [Listeners -> 0..2]
      BY <1>1 DEF TypeOK
    <2>6. e \notin disturbed => Reached(arrays[walk.array], walk.next, count[e], through[e])
      BY <1>1, <2>2 DEF ReachOK
    <2>7. /\ disturbed' \subseteq Emissions /\ disturbed \subseteq disturbed' \cup {e}
          /\ through' \in [Emissions -> SUBSET Listeners]
      BY <1>1, <2>1 DEF TypeOK
    <2>8. Calls(e, walk, walk.next, count[e])
      BY <2>1, <2>2, <2>3, <2>4, <2>5, <2>6, <2>7 DEF Calls
    <2>9. QED
      BY <2>8, EmitsOK
  <1>3. CASE ~(walk.next <= Len(arrays[walk.array]))
    BY <1>3, FinishOK
  <1>4. QED
    BY <1>2, <1>3

LEMMA ReturnOK ==
  ASSUME EventIInv, NEW e \in Emissions, Return(e) \/ Throw(e)
  PROVE  EventIInv'
  <1> DEFINE old == emission[e]
  <1>1. old \in Walk /\ old.at \in Subscribers \cup {Nobody} /\ old.remove \subseteq Subscribers
    BY DEF EventIInv, TypeOK, WalkOK
  <1>2. old.phase = "running" /\ UNCHANGED <<subscribed, offed>>
    BY DEF Return, Throw
  <1> DEFINE back == [old EXCEPT !.remove = @ \cup ({old.at} \cap Once)]
  <1>3. Return(e) => Advance(e, back)
    BY DEF Return
  <1>4. Throw(e) => Advance(e, old)
    BY DEF Throw
  <1>5. Nobody \notin Once
    BY EmitterAssumption
  <1>6. /\ back.phase = old.phase /\ back.array = old.array /\ back.next = old.next
        /\ back.remove = old.remove \cup ({old.at} \cap Once) /\ back \in Walk
    BY <1>1, EmitterAssumption DEF Walk
  <1> HIDE DEF back
  <1>7. Return(e) => EmitGoesOn(e, back)
    BY <1>1, <1>2, <1>3, <1>5, <1>6 DEF EmitGoesOn
  <1>8. Throw(e) => EmitGoesOn(e, old)
    BY <1>1, <1>2, <1>4 DEF EmitGoesOn
  <1>9. QED
    BY <1>7, <1>8, EmitGoesOnOK

-----------------------------------------------------------------------------
LEMMA EventInit ==
  ASSUME Init
  PROVE  EventIInv
  <1> USE DEF Init
  <1>1. NoWalk \in Walk /\ NoWalk.phase = "idle" /\ NoWalk.at = Nobody
        /\ NoWalk.remove = {} /\ NoWalk.next = 1
    BY EmitterAssumption DEF NoWalk, Walk
  <1>2. TypeOK
    BY <1>1 DEF TypeOK
  <1>3. Subscribers = {} /\ IsInjective(subscribed) /\ Registered = {} /\ DOMAIN arrays = {}
    BY DEF Subscribers, ToSet, IsInjective, Registered
  <1>4. ArraysOK /\ SpentOK
    BY <1>3 DEF ArraysOK, SpentOK, SpentIsGone
  <1>5. \A e \in Emissions : WalkOK(e) /\ ReachOK(e)
    BY <1>1 DEF WalkOK, ReachOK
  <1>6. QED
    BY <1>2, <1>3, <1>4, <1>5 DEF EventIInv

LEMMA EventStep ==
  ASSUME EventIInv, [Next]_vars
  PROVE  EventIInv'
  <1>1. CASE UNCHANGED vars
    <2>1. UNCHANGED <<arrays, current, emission, subscribed, offed, spent, disturbed,
                      through, count>>
      BY <1>1 DEF vars, history
    <2>2. /\ Subscribers' = Subscribers /\ BeforePairs' = BeforePairs
          /\ Registered' = Registered
      BY <2>1, SameSubscribers DEF Registered
    <2>3. TypeOK' /\ ArraysOK' /\ SpentOK'
      BY <2>1, <2>2 DEF EventIInv, TypeOK, ArraysOK, SpentOK, SpentIsGone
    <2>4. (\A e \in Emissions : WalkOK(e)') /\ (\A e \in Emissions \ disturbed : ReachOK(e)')
      BY <2>1, <2>2 DEF EventIInv, WalkOK, ReachOK
    <2>5. QED
      BY <2>1, <2>2, <2>3, <2>4 DEF EventIInv
  <1>2. ASSUME NEW l \in Listeners, On(l) \/ Off(l) PROVE EventIInv'
    BY <1>2, OnOK, OffOK
  <1>3. CASE RemoveAllListeners
    BY <1>3, RemoveAllListenersOK
  <1>4. ASSUME NEW e \in Emissions, Emit(e) \/ Return(e) \/ Throw(e) PROVE EventIInv'
    BY <1>4, EmitOK, ReturnOK
  <1>5. QED
    BY <1>1, <1>2, <1>3, <1>4 DEF Next

LEMMA EventInvariant == Spec => []EventIInv
  <1>1. QED
    BY EventInit, EventStep, PTL DEF Spec

(* The emitter keeps its types, and the map never holds an empty array of  *)
(* listeners (on, off, removeAllListeners, emit).                          *)
THEOREM EmitterTypes == Spec => []TypeOK
  <1>1. EventIInv => TypeOK
    BY DEF EventIInv
  <1>2. QED
    BY <1>1, EventInvariant, PTL
(* Every array keeps the listeners by descending priority, equals in the   *)
(* order of their subscriptions, and no once listener an emission has      *)
(* called is registered after it: emit, on, off and removeAllListeners.    *)
THEOREM ListenersStaySorted == Spec => []ListenersOK
  <1>1. EventIInv => ListenersOK
    <2> SUFFICES ASSUME EventIInv PROVE ListenersOK
      OBVIOUS
    <2>1. ArraysSorted
      <3> SUFFICES ASSUME NEW n \in DOMAIN arrays, NEW i \in DOMAIN arrays[n],
                          NEW j \in DOMAIN arrays[n], i < j
                   PROVE  Before(arrays[n][i], arrays[n][j])
        BY DEF ArraysSorted
      <3>1. Ordered(arrays[n], BeforePairs) /\ arrays[n] \in Seq(Listeners)
        BY DEF EventIInv, ArraysOK, TypeOK
      <3> DEFINE a == arrays[n]
      <3>2. i \in 1..Len(a) /\ j \in 1..Len(a)
        BY <3>1
      <3>3. <<a[i], a[j]>> \in BeforePairs
        BY <3>1, <3>2 DEF Ordered
      <3>4. QED
        BY <3>3 DEF BeforePairs
    <2>2. QED
      BY <2>1 DEF ListenersOK, EventIInv, SpentOK
  <1>2. QED
    BY <1>1, EventInvariant, PTL

(* An emission whose past nobody disturbs calls each listener that stays   *)
(* registered through it, and calls none twice: emit's walk.               *)
THEOREM EmissionsReachAll == Spec => []UndisturbedReachesAll
  <1>1. EventIInv => UndisturbedReachesAll
    <2> SUFFICES ASSUME EventIInv, NEW e \in Emissions \ disturbed
                 PROVE  /\ \A l \in Listeners : count[e][l] <= 1
                        /\ emission[e].phase = "ended" => \A l \in through[e] : count[e][l] = 1
      BY DEF UndisturbedReachesAll
    <2>1. ReachOK(e) /\ emission[e].phase \in {"idle", "running", "ended"}
      BY DEF EventIInv, TypeOK, Walk
    <2>2. QED
      BY <2>1 DEF ReachOK, Reached
  <1>2. QED
    BY <1>1, EventInvariant, PTL

(* No emission calls a listener that off() has removed, not even one that  *)
(* was under way.                                                          *)
THEOREM RemovedStaySilent == Spec => OffIsFinal
  <1>1. ASSUME EventIInv, [Next]_vars
        PROVE  [\A e \in Emissions :
                  emission'[e] # emission[e] => emission'[e].at \notin offed]_vars
    <2>1. SUFFICES ASSUME Next, NEW e \in Emissions, emission'[e] # emission[e]
                   PROVE  emission'[e].at \notin offed
      BY <1>1
    <2>2. Nobody \notin offed
      BY <1>1, EmitterAssumption DEF EventIInv, TypeOK
    <2>3. ASSUME NEW d \in Emissions, NEW walk, NEW i, NEW counts, walk \in Walk,
                 Call(d, walk, i, counts), walk.array \in DOMAIN arrays,
                 i \in 1..Len(arrays[walk.array])
          PROVE  emission'[e].at \notin offed
      <3> DEFINE l == arrays[walk.array][i]
                 w == [walk EXCEPT !.at = l, !.next = i + 1]
      <3>1. emission' = [emission EXCEPT ![d] = w]
        BY <2>3 DEF Call
      <3>2. w.at = l
        BY <2>3 DEF Walk
      <3>3. ToSet(arrays[walk.array]) \cap offed = {} /\ arrays[walk.array] \in Seq(Listeners)
        BY <1>1, <2>3 DEF EventIInv, ArraysOK, TypeOK
      <3>4. l \notin offed
        BY <2>3, <3>3 DEF ToSet
      <3> HIDE DEF w
      <3>5. emission'[e] = w
        BY <1>1, <2>1, <3>1 DEF EventIInv, TypeOK
      <3>6. QED
        BY <3>2, <3>4, <3>5
    <2>4. ASSUME NEW d \in Emissions, NEW walk, walk \in Walk, Advance(d, walk),
                 walk.array = emission[d].array, walk.next = emission[d].next,
                 emission[d].phase = "running"
          PROVE  emission'[e].at \notin offed
      <3>1. WalkOK(d) /\ TypeOK
        BY <1>1 DEF EventIInv
      <3>2. CASE walk.next <= Len(arrays[walk.array])
        <4>1. Call(d, walk, walk.next, count[d])
          BY <2>4, <3>2 DEF Advance
        <4>2. walk.array \in DOMAIN arrays /\ walk.next \in 1..Len(arrays[walk.array])
          BY <2>4, <3>1, <3>2 DEF WalkOK, Walk
        <4>3. QED
          BY <2>3, <2>4, <4>1, <4>2
      <3>3. CASE ~(walk.next <= Len(arrays[walk.array]))
        <4>1. emission' = [emission EXCEPT ![d] = [NoWalk EXCEPT !.phase = "ended"]]
          BY <2>4, <3>3 DEF Advance, Finish
        <4>2. emission'[e].at = Nobody
          BY <2>1, <3>1, <4>1 DEF TypeOK, NoWalk
        <4>3. QED
          BY <2>2, <4>2
      <3>4. QED
        BY <3>2, <3>3
    <2>5. ASSUME NEW d \in Emissions, Emit(d) PROVE emission'[e].at \notin offed
      <3> DEFINE walk == [NoWalk EXCEPT !.phase = "running", !.array = current]
      <3>1. Call(d, walk, 1, [l \in Listeners |-> 0]) /\ current # 0
        BY <2>5 DEF Emit
      <3>2. current \in DOMAIN arrays /\ arrays[current] # <<>> /\ arrays[current] \in Seq(Listeners)
        BY <1>1, <3>1, CurrentArray DEF EventIInv
      <3>3. walk.array = current /\ walk \in Walk
        <4>1. current \in Nat /\ NoWalk \in Walk
          BY <1>1, WalkFields DEF EventIInv, TypeOK
        <4>2. QED
          BY <4>1 DEF Walk
      <3> HIDE DEF walk
      <3>4. 1 \in 1..Len(arrays[walk.array])
        BY <3>2, <3>3
      <3>5. QED
        BY <2>3, <3>1, <3>2, <3>3, <3>4
    <2>6. ASSUME NEW d \in Emissions, Return(d) \/ Throw(d) PROVE emission'[e].at \notin offed
      <3> DEFINE old == emission[d]
                 back == [old EXCEPT !.remove = @ \cup ({old.at} \cap Once)]
      <3>1. old \in Walk
        BY <1>1 DEF EventIInv, TypeOK
      <3>2. back.array = old.array /\ back.next = old.next /\ back \in Walk
        BY <3>1, EmitterAssumption DEF Walk
      <3>3. old.phase = "running" /\ (Advance(d, back) \/ Advance(d, old))
        BY <2>6 DEF Return, Throw
      <3> HIDE DEF back
      <3>4. QED
        BY <2>4, <3>1, <3>2, <3>3
    <2>7. ASSUME NEW l \in Listeners, On(l) \/ Off(l) PROVE FALSE
      BY <2>1, <2>7 DEF On, Off
    <2>8. ~RemoveAllListeners
      BY <2>1 DEF RemoveAllListeners
    <2>9. QED
      BY <2>1, <2>5, <2>6, <2>7, <2>8 DEF Next
  <1>2. QED
    BY <1>1, EventInvariant, PTL DEF Spec, OffIsFinal

-----------------------------------------------------------------------------
(* The metrics.  Sums of numbers, one after the other.                      *)
IsSum(h, s) ==
    /\ h \in [0..Len(s) -> Int] /\ h[0] = 0
    /\ \A m \in 1..Len(s) : h[m] = h[m - 1] + s[m]

LEMMA SumSteps ==
  ASSUME NEW s \in Seq(Int)
  PROVE  \E h : IsSum(h, s) /\ h[Len(s)] = SumUp(s)
  <1> DEFINE n == Len(s)
             D == 1..n
             F == [p \in D \X Int |-> p[2] + s[p[1]]]
             Body(k, d) == IF d = {} THEN 0 ELSE k[d \ {Max(d)}] + s[Max(d)]
             K == CHOOSE k : k = [d \in SUBSET D |-> Body(k, d)]
  <1>1. n \in Nat /\ s \in [1..n -> Int]
    OBVIOUS
  <1>2. \A x \in D, a \in Int : F[<<x, a>>] = a + s[x] /\ F[<<x, a>>] \in Int
    BY <1>1
  <1>0. SumUp(s) = K[D]
    <2>1. DOMAIN s = D
      OBVIOUS
    <2> DEFINE L == CHOOSE k : k = [d \in SUBSET (DOMAIN s) |-> Body(k, d)]
    <2>2. SumUp(s) = L[DOMAIN s]
      BY DEF SumUp, FoldLeft, MapThenFoldSet, Max
    <2> HIDE DEF D
    <2>3. QED
      BY <2>1, <2>2
  <1>3. FoldsOver(n, Int, 0, F)
    BY <1>1, <1>2 DEF FoldsOver
  <1> HIDE DEF F, n, D
  <1>4. \A d \in SUBSET D : d # {} => Max(d) \in d
    BY <1>1, LastExists DEF Max, D
  <1>5. PICK g : IsLeftFold(g, n, Int, 0, F)
    BY <1>3, LeftFoldExists
  <1>6. \A d \in SUBSET D : g[d] = Body(g, d)
    BY <1>2, <1>4, <1>5 DEF IsLeftFold, D
  <1>7. g = [d \in SUBSET D |-> Body(g, d)]
    <2> HIDE DEF Body
    <2>1. QED
      BY <1>5, <1>6 DEF IsLeftFold, D
  <1>8. K = [d \in SUBSET D |-> Body(K, d)]
    <2> HIDE DEF Body
    <2>1. QED
      BY <1>7
  <1>9. \A d \in SUBSET D : K[d] = Body(K, d)
    <2> HIDE DEF Body, K
    <2>1. QED
      BY <1>8
  <1> HIDE DEF K
  <1>10. FoldsOn(K, n, Int, 0, F)
    BY <1>2, <1>4, <1>9 DEF FoldsOn, D
  <1>11. PICK h : IsHistory(h, n, Int, 0, F) /\ h[n] = K[1..n]
    BY <1>3, <1>10, LeftFoldSteps
  <1>12. ASSUME NEW m \in 1..n PROVE h[m] = h[m - 1] + s[m]
    <2>1. m - 1 \in 0..n
      BY <1>1
    <2>2. h[m - 1] \in Int /\ h[m] = F[<<m, h[m - 1]>>]
      BY <1>11, <2>1 DEF IsHistory
    <2>3. QED
      BY <1>1, <1>2, <2>2 DEF D
  <1>13. QED
    BY <1>0, <1>1, <1>11, <1>12 DEF IsHistory, IsSum, n, D

(* calculateAllMetrics, one component after the other.                      *)
Metrics == [dot : Int, normA : Int, normB : Int, euclidean : Int, manhattan : Int]
Zero    == [dot |-> 0, normA |-> 0, normB |-> 0, euclidean |-> 0, manhattan |-> 0]

AreMetrics(h, a, b) ==
    /\ h \in [0..Len(a) -> Metrics] /\ h[0] = Zero
    /\ \A m \in 1..Len(a) : h[m] = AddComponent(h[m - 1], a[m], b[m])

LEMMA AddComponentType ==
  ASSUME NEW m \in Metrics, NEW x \in Int, NEW y \in Int
  PROVE  AddComponent(m, x, y) \in Metrics
  <1>1. x * y \in Int /\ x * x \in Int /\ y * y \in Int /\ (x - y) * (x - y) \in Int
        /\ Absolute(x - y) \in Int
    BY DEF Absolute
  <1>2. QED
    BY <1>1 DEF AddComponent, Metrics

LEMMA MetricsSteps ==
  ASSUME NEW a \in Seq(Int), NEW b \in Seq(Int), Compatible(a, b)
  PROVE  \E h : /\ AreMetrics(h, a, b)
                /\ LET all == h[Len(a)]
                   IN AllMetrics(a, b) = [cosine |-> Fraction(all.dot, all.normA, all.normB),
                                          euclidean |-> all.euclidean,
                                          dotProduct |-> all.dot, manhattan |-> all.manhattan]
  <1> DEFINE n == Len(a)
             D == 1..n
             places == [i \in 1..Len(a) |-> i]
             F == [p \in D \X Metrics |-> AddComponent(p[2], a[p[1]], b[p[1]])]
             Body(k, d) == IF d = {} THEN Zero
                           ELSE AddComponent(k[d \ {Max(d)}], a[places[Max(d)]],
                                             b[places[Max(d)]])
             K == CHOOSE k : k = [d \in SUBSET D |-> Body(k, d)]
             Told(all) == [cosine |-> Fraction(all.dot, all.normA, all.normB),
                           euclidean |-> all.euclidean,
                           dotProduct |-> all.dot, manhattan |-> all.manhattan]
  <1>1. /\ n \in Nat /\ Len(b) = n /\ \A x \in D : a[x] \in Int /\ b[x] \in Int
        /\ \A x \in D : places[x] = x
    BY DEF Compatible
  <1>2. \A x \in D, m \in Metrics : /\ F[<<x, m>>] = AddComponent(m, a[x], b[x])
                                    /\ F[<<x, m>>] \in Metrics
    BY <1>1, AddComponentType
  <1>3. AllMetrics(a, b) = Told(K[D])
    <2> DEFINE L == CHOOSE k : k = [d \in SUBSET (DOMAIN places) |-> Body(k, d)]
    <2>1. DOMAIN places = D
      OBVIOUS
    <2>2. AllMetrics(a, b) = Told(L[DOMAIN places])
      BY DEF AllMetrics, FoldLeft, MapThenFoldSet, Max, Zero
    <2> HIDE DEF D
    <2>3. L[DOMAIN places] = K[D]
      BY <2>1
    <2>4. QED
      BY <2>2, <2>3
  <1>4. FoldsOver(n, Metrics, Zero, F)
    <2>1. Zero \in Metrics
      BY DEF Zero, Metrics
    <2>2. QED
      BY <1>1, <1>2, <2>1 DEF FoldsOver
  <1> HIDE DEF F, n, D, Told, places
  <1>5. \A d \in SUBSET D : d # {} => Max(d) \in d
    BY <1>1, LastExists DEF Max, D
  <1>6. PICK g : IsLeftFold(g, n, Metrics, Zero, F)
    BY <1>4, LeftFoldExists
  <1>7. \A d \in SUBSET D : g[d] = Body(g, d)
    <2> SUFFICES ASSUME NEW d \in SUBSET D, d # {}
                 PROVE  g[d] = AddComponent(g[d \ {Max(d)}], a[Max(d)], b[Max(d)])
      BY <1>1, <1>5, <1>6 DEF IsLeftFold, D
    <2>1. Max(d) \in D /\ g[d \ {Max(d)}] \in Metrics
      BY <1>5, <1>6 DEF IsLeftFold, D
    <2>2. g[d] = F[<<Max(d), g[d \ {Max(d)}]>>]
      BY <1>6 DEF IsLeftFold, D
    <2>3. QED
      BY <1>2, <2>1, <2>2
  <1>8. g = [d \in SUBSET D |-> Body(g, d)]
    <2> HIDE DEF Body
    <2>1. QED
      BY <1>6, <1>7 DEF IsLeftFold, D
  <1>9. K = [d \in SUBSET D |-> Body(K, d)]
    <2> HIDE DEF Body
    <2>1. QED
      BY <1>8
  <1>10. \A d \in SUBSET D : K[d] = Body(K, d)
    <2> HIDE DEF Body, K
    <2>1. QED
      BY <1>9
  <1> HIDE DEF K
  <1>11. FoldsOn(K, n, Metrics, Zero, F)
    <2>1. K[{}] = Zero
      BY <1>10
    <2>2. ASSUME NEW d \in SUBSET D, d # {}, K[d \ {Max(d)}] \in Metrics
          PROVE  K[d] = F[<<Max(d), K[d \ {Max(d)}]>>]
      <3>1. Max(d) \in D /\ places[Max(d)] = Max(d)
        BY <1>1, <1>5, <2>2
      <3>2. K[d] = AddComponent(K[d \ {Max(d)}], a[Max(d)], b[Max(d)])
        BY <1>10, <2>2, <3>1
      <3>3. QED
        BY <1>2, <2>2, <3>1, <3>2
    <2>3. QED
      BY <2>1, <2>2 DEF FoldsOn, D
  <1>12. PICK h : IsHistory(h, n, Metrics, Zero, F) /\ h[n] = K[1..n]
    BY <1>4, <1>11, LeftFoldSteps
  <1>13. ASSUME NEW m \in 1..n PROVE h[m] = AddComponent(h[m - 1], a[m], b[m])
    <2>1. m - 1 \in 0..n
      BY <1>1
    <2>2. h[m - 1] \in Metrics /\ h[m] = F[<<m, h[m - 1]>>]
      BY <1>12, <2>1 DEF IsHistory
    <2>3. QED
      BY <1>2, <2>2 DEF D
  <1>14. AreMetrics(h, a, b)
    BY <1>12, <1>13 DEF IsHistory, AreMetrics, n
  <1>15. AllMetrics(a, b) = Told(h[n])
    BY <1>3, <1>12 DEF D
  <1>16. QED
    BY <1>14, <1>15 DEF Told, n

(* The metrics calculated in one pass are those calculated one by one,      *)
(* whatever the vectors.                                                    *)
THEOREM MetricsAlwaysAgree ==
  ASSUME NEW a \in Seq(Int), NEW b \in Seq(Int)
  PROVE  MetricsAgree(a, b)
  <1> DEFINE n == Len(a)
             products == [i \in 1..n |-> a[i] * b[i]]
             squaresA == [i \in 1..n |-> a[i] * a[i]]
             squaresB == [i \in 1..n |-> b[i] * b[i]]
             gaps     == [i \in 1..n |-> (a[i] - b[i]) * (a[i] - b[i])]
             steps    == [i \in 1..n |-> Absolute(a[i] - b[i])]
  <1>1. CASE ~Compatible(a, b)
    BY <1>1 DEF MetricsAgree, AllMetrics
  <1>2. CASE Compatible(a, b)
    <2>1. n \in Nat /\ Len(b) = n /\ \A i \in 1..n : a[i] \in Int /\ b[i] \in Int
      BY <1>2 DEF Compatible
    <2>2. /\ Dot(a, b) = SumUp(products) /\ Dot(a, a) = SumUp(squaresA)
          /\ Dot(b, b) = SumUp(squaresB) /\ EuclideanDistance(a, b) = SumUp(gaps)
          /\ ManhattanDistance(a, b) = SumUp(steps)
      BY <1>2, <2>1 DEF Dot, EuclideanDistance, ManhattanDistance
    <2> HIDE DEF n
    <2>3. \A i \in 1..n : /\ products[i] \in Int /\ squaresA[i] \in Int /\ squaresB[i] \in Int
                          /\ gaps[i] \in Int /\ steps[i] \in Int
      BY <2>1 DEF Absolute
    <2>4. /\ products \in Seq(Int) /\ squaresA \in Seq(Int) /\ squaresB \in Seq(Int)
          /\ gaps \in Seq(Int) /\ steps \in Seq(Int)
          /\ Len(products) = n /\ Len(squaresA) = n /\ Len(squaresB) = n
          /\ Len(gaps) = n /\ Len(steps) = n
      BY <2>1, <2>3, SeqDef
    <2>5. PICK h : /\ AreMetrics(h, a, b)
                   /\ LET all == h[n]
                      IN AllMetrics(a, b) = [cosine |-> Fraction(all.dot, all.normA, all.normB),
                                             euclidean |-> all.euclidean,
                                             dotProduct |-> all.dot, manhattan |-> all.manhattan]
      BY <1>2, MetricsSteps DEF n
    <2>6. PICK p : IsSum(p, products) /\ p[n] = SumUp(products)
      <3> HIDE DEF products
      <3>1. QED
        BY <2>4, SumSteps
    <2>7. PICK q : IsSum(q, squaresA) /\ q[n] = SumUp(squaresA)
      <3> HIDE DEF squaresA
      <3>1. QED
        BY <2>4, SumSteps
    <2>8. PICK r : IsSum(r, squaresB) /\ r[n] = SumUp(squaresB)
      <3> HIDE DEF squaresB
      <3>1. QED
        BY <2>4, SumSteps
    <2>9. PICK e : IsSum(e, gaps) /\ e[n] = SumUp(gaps)
      <3> HIDE DEF gaps
      <3>1. QED
        BY <2>4, SumSteps
    <2>10. PICK w : IsSum(w, steps) /\ w[n] = SumUp(steps)
      <3> HIDE DEF steps
      <3>1. QED
        BY <2>4, SumSteps
    <2> DEFINE Same(m) == /\ h[m].dot = p[m] /\ h[m].normA = q[m] /\ h[m].normB = r[m]
                          /\ h[m].euclidean = e[m] /\ h[m].manhattan = w[m]
               T == {m \in Nat : m <= n => Same(m)}
    <2>11. 0 \in T
      BY <2>4, <2>5, <2>6, <2>7, <2>8, <2>9, <2>10 DEF AreMetrics, IsSum, Zero
    <2>12. ASSUME NEW m \in Nat, m \in T PROVE m + 1 \in T
      <3> SUFFICES ASSUME m + 1 <= n PROVE Same(m + 1)
        OBVIOUS
      <3>1. m + 1 \in 1..n /\ (m + 1) - 1 = m /\ Same(m) /\ m \in 0..n
        BY <2>1, <2>12
      <3>2. h[m + 1] = AddComponent(h[m], a[m + 1], b[m + 1])
        BY <2>5, <3>1 DEF AreMetrics, n
      <3>3. /\ p[m + 1] = p[m] + products[m + 1] /\ q[m + 1] = q[m] + squaresA[m + 1]
            /\ r[m + 1] = r[m] + squaresB[m + 1] /\ e[m + 1] = e[m] + gaps[m + 1]
            /\ w[m + 1] = w[m] + steps[m + 1]
        <4> HIDE DEF products, squaresA, squaresB, gaps, steps
        <4>1. QED
          BY <2>4, <2>6, <2>7, <2>8, <2>9, <2>10, <3>1 DEF IsSum
      <3>4. /\ products[m + 1] = a[m + 1] * b[m + 1]
            /\ squaresA[m + 1] = a[m + 1] * a[m + 1] /\ squaresB[m + 1] = b[m + 1] * b[m + 1]
            /\ gaps[m + 1] = (a[m + 1] - b[m + 1]) * (a[m + 1] - b[m + 1])
            /\ steps[m + 1] = Absolute(a[m + 1] - b[m + 1])
        BY <3>1
      <3> HIDE DEF products, squaresA, squaresB, gaps, steps
      <3>5. QED
        BY <3>1, <3>2, <3>3, <3>4 DEF AddComponent
    <2> HIDE DEF T
    <2>13. n \in T
      BY <2>1, <2>11, <2>12, AllNumbers
    <2>14. Same(n)
      BY <2>1, <2>13 DEF T
    <2> HIDE DEF products, squaresA, squaresB, gaps, steps
    <2>15. QED
      BY <1>2, <2>2, <2>5, <2>6, <2>7, <2>8, <2>9, <2>10, <2>14
      DEF MetricsAgree, CosineSimilarity
  <1>3. QED
    BY <1>1, <1>2

(* What is true of products.                                                *)
LEMMA PositiveFactor ==
  ASSUME NEW x \in Int, NEW y \in Int, x > 0, x * y >= 0 PROVE y >= 0
  OBVIOUS

LEMMA SquareType == ASSUME NEW x \in Int PROVE x * x \in Int /\ x * x >= 0
  OBVIOUS

LEMMA NoNegativeProduct ==
  ASSUME NEW x \in Int, NEW y \in Int, x >= 0, y >= 0 PROVE x * y \in Int /\ x * y >= 0
  OBVIOUS

LEMMA CauchyStep ==
  ASSUME NEW a \in Int, NEW b \in Int, NEW d \in Int, NEW x \in Int, NEW y \in Int,
         a >= 0, b >= 0, d * d <= a * b
  PROVE  (d + x * y) * (d + x * y) <= (a + x * x) * (b + y * y)
  <1> DEFINE e == a * (y * y) + b * (x * x) - 2 * (d * (x * y))
  <1>1. e \in Int
    OBVIOUS
  <1>2. (a + x * x) * (b + y * y) - (d + x * y) * (d + x * y) = (a * b - d * d) + e
    OBVIOUS
  <1>3. a * e = (a * y - d * x) * (a * y - d * x) + (x * x) * (a * b - d * d)
    OBVIOUS
  <1>4. e >= 0
    <2>1. CASE a > 0
      <3>1. (a * y - d * x) * (a * y - d * x) >= 0
        BY SquareType
      <3>2. (x * x) * (a * b - d * d) >= 0
        BY SquareType, NoNegativeProduct
      <3> HIDE DEF e
      <3>3. a * e >= 0
        BY <1>1, <1>3, <3>1, <3>2
      <3>4. QED
        BY <1>1, <2>1, <3>3, PositiveFactor
    <2>2. CASE a = 0
      <3>1. d * d <= 0
        BY <2>2
      <3>2. d = 0
        BY <3>1
      <3>3. e = b * (x * x)
        BY <2>2, <3>2
      <3>4. QED
        BY <3>3, SquareType, NoNegativeProduct
    <2>3. QED
      BY <2>1, <2>2
  <1> HIDE DEF e
  <1>5. QED
    BY <1>1, <1>2, <1>4

LEMMA DotResult ==
  ASSUME NEW a \in Seq(Int), NEW b \in Seq(Int), Len(a) = Len(b)
  PROVE  /\ Dot(a, b) \in Int /\ Dot(a, a) \in Nat /\ Dot(b, b) \in Nat
         /\ Dot(b, a) = Dot(a, b)
         /\ Dot(a, b) * Dot(a, b) <= Dot(a, a) * Dot(b, b)
  <1> DEFINE n == Len(a)
             products == [i \in 1..n |-> a[i] * b[i]]
             squaresA == [i \in 1..n |-> a[i] * a[i]]
             squaresB == [i \in 1..n |-> b[i] * b[i]]
  <1>1. n \in Nat /\ \A i \in 1..n : a[i] \in Int /\ b[i] \in Int
    OBVIOUS
  <1>2. /\ Dot(a, b) = SumUp(products) /\ Dot(a, a) = SumUp(squaresA)
        /\ Dot(b, b) = SumUp(squaresB)
    BY DEF Dot
  <1>3. Dot(b, a) = SumUp(products)
    <2>1. Dot(b, a) = SumUp([i \in 1..n |-> b[i] * a[i]])
      BY DEF Dot
    <2> HIDE DEF n
    <2>2. [i \in 1..n |-> b[i] * a[i]] = products
      BY <1>1
    <2>3. QED
      BY <2>1, <2>2
  <1> HIDE DEF n
  <1>4. \A i \in 1..n : products[i] \in Int /\ squaresA[i] \in Int /\ squaresB[i] \in Int
    BY <1>1
  <1>5. /\ products \in Seq(Int) /\ squaresA \in Seq(Int) /\ squaresB \in Seq(Int)
        /\ Len(products) = n /\ Len(squaresA) = n /\ Len(squaresB) = n
    BY <1>1, <1>4, SeqDef
  <1>6. PICK p : IsSum(p, products) /\ p[n] = SumUp(products)
    <2> HIDE DEF products
    <2>1. QED
      BY <1>5, SumSteps
  <1>7. PICK q : IsSum(q, squaresA) /\ q[n] = SumUp(squaresA)
    <2> HIDE DEF squaresA
    <2>1. QED
      BY <1>5, SumSteps
  <1>8. PICK r : IsSum(r, squaresB) /\ r[n] = SumUp(squaresB)
    <2> HIDE DEF squaresB
    <2>1. QED
      BY <1>5, SumSteps
  <1>9. \A m \in 0..n : p[m] \in Int /\ q[m] \in Int /\ r[m] \in Int
    <2> HIDE DEF products, squaresA, squaresB
    <2>1. QED
      BY <1>5, <1>6, <1>7, <1>8 DEF IsSum
  <1> DEFINE Bounded(m) == /\ q[m] >= 0 /\ r[m] >= 0 /\ p[m] * p[m] <= q[m] * r[m]
             T == {m \in Nat : m <= n => Bounded(m)}
  <1>10. 0 \in T
    <2>1. p[0] = 0 /\ q[0] = 0 /\ r[0] = 0
      BY <1>6, <1>7, <1>8 DEF IsSum
    <2>2. QED
      BY <2>1
  <1>11. ASSUME NEW m \in Nat, m \in T PROVE m + 1 \in T
    <2> SUFFICES ASSUME m + 1 <= n PROVE Bounded(m + 1)
      OBVIOUS
    <2>1. m + 1 \in 1..n /\ (m + 1) - 1 = m /\ m \in 0..n /\ Bounded(m)
      BY <1>1, <1>11
    <2> DEFINE x == a[m + 1]
               y == b[m + 1]
    <2>2. x \in Int /\ y \in Int
      BY <1>1, <2>1
    <2>3. products[m + 1] = x * y /\ squaresA[m + 1] = x * x /\ squaresB[m + 1] = y * y
      BY <2>1
    <2> HIDE DEF products, squaresA, squaresB, x, y
    <2>4. p[m + 1] = p[m] + x * y /\ q[m + 1] = q[m] + x * x /\ r[m + 1] = r[m] + y * y
      BY <1>5, <1>6, <1>7, <1>8, <2>1, <2>3 DEF IsSum
    <2>5. p[m] \in Int /\ q[m] \in Int /\ r[m] \in Int
      BY <1>9, <2>1
    <2>6. p[m + 1] * p[m + 1] <= q[m + 1] * r[m + 1]
      BY <2>1, <2>2, <2>4, <2>5, CauchyStep
    <2>7. q[m + 1] >= 0 /\ r[m + 1] >= 0
      <3>1. x * x \in Int /\ x * x >= 0 /\ y * y \in Int /\ y * y >= 0
        BY <2>2, SquareType
      <3>2. QED
        BY <2>1, <2>4, <2>5, <3>1
    <2>8. QED
      BY <2>6, <2>7
  <1> HIDE DEF T
  <1>12. n \in T
    BY <1>1, <1>10, <1>11, AllNumbers
  <1>13. Bounded(n)
    BY <1>1, <1>12 DEF T
  <1>14. p[n] \in Int /\ q[n] \in Int /\ r[n] \in Int
    BY <1>1, <1>9
  <1> HIDE DEF products, squaresA, squaresB
  <1>15. QED
    BY <1>2, <1>3, <1>6, <1>7, <1>8, <1>13, <1>14

(* The fractions that stand for cosines.                                    *)
Cosines == Int \X (Nat \ {0})

LEMMA FractionResult ==
  ASSUME NEW d \in Int, NEW a \in Nat, NEW b \in Nat
  PROVE  /\ Fraction(d, a, b) \in Cosines
         /\ d * d <= a * b => Absolute(Fraction(d, a, b)[1]) <= Fraction(d, a, b)[2]
  <1>1. a * b \in Nat
    <2>1. a * b >= 0 /\ a * b \in Int
      BY NoNegativeProduct
    <2>2. QED
      BY <2>1
  <1> DEFINE c == a * b
             e == d * Absolute(d)
  <1>2. e \in Int
    BY DEF Absolute
  <1>3. Absolute(e) = d * d
    <2>1. CASE d >= 0
      <3>1. e = d * d /\ d * d >= 0
        BY <2>1, SquareType DEF Absolute
      <3>2. QED
        BY <3>1 DEF Absolute
    <2>2. CASE d < 0
      <3>1. e = d * (-d)
        BY <2>2 DEF Absolute
      <3>2. e = -(d * d) /\ d * d >= 0 /\ d * d \in Int
        BY <3>1, SquareType
      <3> HIDE DEF e
      <3>3. QED
        BY <3>2 DEF Absolute
    <2>3. QED
      BY <2>1, <2>2
  <1>4. Fraction(d, a, b) = IF c = 0 THEN <<0, 1>> ELSE <<e, c>>
    BY DEF Fraction
  <1> HIDE DEF c, e
  <1>5. CASE c = 0
    <2>1. Fraction(d, a, b) = <<0, 1>> /\ Absolute(0) = 0
      BY <1>4, <1>5 DEF Absolute
    <2>2. QED
      BY <2>1 DEF Cosines
  <1>6. CASE c # 0
    <2>1. c \in Nat \ {0}
      BY <1>1, <1>6 DEF c
    <2>2. Fraction(d, a, b) = <<e, c>>
      BY <1>4, <1>6
    <2>3. d * d <= a * b => Absolute(e) <= c
      BY <1>3 DEF c
    <2>4. QED
      BY <1>2, <2>1, <2>2, <2>3 DEF Cosines
  <1>7. QED
    BY <1>5, <1>6

LEMMA CosineResult ==
  ASSUME NEW a \in Seq(Int), NEW b \in Seq(Int), Compatible(a, b)
  PROVE  /\ CosineSimilarity(a, b) = Fraction(Dot(a, b), Dot(a, a), Dot(b, b))
         /\ CosineSimilarity(a, b) \in Cosines
         /\ Absolute(CosineSimilarity(a, b)[1]) <= CosineSimilarity(a, b)[2]
         /\ CosineSimilarity(b, a) = CosineSimilarity(a, b)
  <1> DEFINE f == Fraction(Dot(a, b), Dot(a, a), Dot(b, b))
  <1>1. Len(a) = Len(b) /\ Compatible(b, a)
    <2>1. Len(a) = 0 <=> a = <<>>
      OBVIOUS
    <2>2. Len(b) = 0 <=> b = <<>>
      OBVIOUS
    <2>3. QED
      BY <2>1, <2>2 DEF Compatible
  <1>2. /\ Dot(a, b) \in Int /\ Dot(a, a) \in Nat /\ Dot(b, b) \in Nat /\ Dot(b, a) = Dot(a, b)
        /\ Dot(a, b) * Dot(a, b) <= Dot(a, a) * Dot(b, b)
    BY <1>1, DotResult
  <1>3. f \in Cosines /\ Absolute(f[1]) <= f[2]
    BY <1>2, FractionResult
  <1>4. CosineSimilarity(a, b) = f
    BY DEF CosineSimilarity
  <1>5. CosineSimilarity(b, a) = f
    <2>1. Dot(b, b) * Dot(a, a) = Dot(a, a) * Dot(b, b)
      BY <1>2
    <2>2. CosineSimilarity(b, a) = Fraction(Dot(a, b), Dot(b, b), Dot(a, a))
      BY <1>1, <1>2 DEF CosineSimilarity
    <2>3. QED
      BY <2>1, <2>2 DEF Fraction
  <1> HIDE DEF f
  <1>6. QED
    BY <1>3, <1>4, <1>5 DEF f

(* What the batch holds for each vector.                                    *)
LEMMA BatchResult ==
  ASSUME NEW query \in Seq(Int), NEW vectors \in Seq(Seq(Int)),
         BatchCosineSimilarity(query, vectors) # Error
  PROVE  /\ query # <<>> /\ vectors # <<>>
         /\ \A i \in 1..Len(vectors) :
               IF Compatible(query, vectors[i])
               THEN BatchCosineSimilarity(query, vectors)[i] = CosineSimilarity(query, vectors[i])
               ELSE Dot(query, query) = 0
  <1> DEFINE batch == BatchCosineSimilarity(query, vectors)
             norm == Dot(query, query)
  <1>1. query # <<>> /\ vectors # <<>>
    BY DEF BatchCosineSimilarity
  <1>2. ASSUME NEW i \in 1..Len(vectors), Compatible(query, vectors[i])
        PROVE  batch[i] = CosineSimilarity(query, vectors[i])
    <2>1. vectors[i] \in Seq(Int)
      OBVIOUS
    <2>2. CosineSimilarity(query, vectors[i])
             = Fraction(Dot(query, vectors[i]), norm, Dot(vectors[i], vectors[i]))
      BY <1>2, <2>1, CosineResult
    <2>3. CASE norm = 0
      <3>1. batch = [k \in 1..Len(vectors) |-> <<0, 1>>]
        BY <1>1, <2>3 DEF BatchCosineSimilarity
      <3>2. Dot(vectors[i], vectors[i]) \in Nat
        BY <2>1, DotResult
      <3>3. norm * Dot(vectors[i], vectors[i]) = 0
        BY <2>3, <3>2
      <3>4. QED
        BY <2>2, <3>1, <3>3 DEF Fraction
    <2>4. CASE norm # 0
      <3>1. batch = [k \in 1..Len(vectors) |->
                        Fraction(Dot(query, vectors[k]), norm, Dot(vectors[k], vectors[k]))]
        BY <1>1, <2>4 DEF BatchCosineSimilarity
      <3>2. QED
        BY <2>2, <3>1
    <2>5. QED
      BY <2>3, <2>4
  <1>3. ASSUME NEW i \in 1..Len(vectors), ~Compatible(query, vectors[i]), norm # 0 PROVE FALSE
    BY <1>1, <1>3 DEF BatchCosineSimilarity, Compatible
  <1>4. QED
    BY <1>1, <1>2, <1>3

(* A batch agrees with the cosines taken one by one, and they are between   *)
(* -1 and 1 and symmetric, whatever the vectors: an error is told from an   *)
(* answer.                                                                  *)
THEOREM BatchesAlwaysAgree ==
  ASSUME Error \notin Cosines, NEW query \in Seq(Int), NEW vectors \in Seq(Seq(Int))
  PROVE  BatchAgrees(query, vectors)
  <1> DEFINE batch == BatchCosineSimilarity(query, vectors)
             one(i) == CosineSimilarity(query, vectors[i])
  <1> SUFFICES ASSUME batch # Error, NEW i \in 1..Len(vectors)
               PROVE  IF one(i) = Error THEN Dot(query, query) = 0
                      ELSE /\ batch[i] = one(i) /\ one(i) = CosineSimilarity(vectors[i], query)
                           /\ Absolute(one(i)[1]) <= one(i)[2]
    BY DEF BatchAgrees
  <1>1. vectors[i] \in Seq(Int)
    OBVIOUS
  <1>2. CASE Compatible(query, vectors[i])
    <2>1. /\ one(i) \in Cosines /\ one(i) = CosineSimilarity(vectors[i], query)
          /\ Absolute(one(i)[1]) <= one(i)[2]
      BY <1>1, <1>2, CosineResult
    <2>2. batch[i] = one(i)
      BY <1>2, BatchResult
    <2>3. QED
      BY <2>1, <2>2
  <1>3. CASE ~Compatible(query, vectors[i])
    <2>1. one(i) = Error
      BY <1>3 DEF CosineSimilarity
    <2>2. Dot(query, query) = 0
      BY <1>3, BatchResult
    <2>3. QED
      BY <2>1, <2>2
  <1>4. QED
    BY <1>2, <1>3

(* The order of the fractions is that of the numbers they stand for.        *)
LEMMA BelowOrders ==
  ASSUME NEW x \in Cosines, NEW y \in Cosines, NEW z \in Cosines
  PROVE  /\ Below(x, y) => ~Below(y, x)
         /\ Below(x, z) => Below(x, y) \/ Below(y, z)
  <1>1. /\ x[1] \in Int /\ x[2] \in Int /\ x[2] > 0 /\ y[1] \in Int /\ y[2] \in Int /\ y[2] > 0
        /\ z[1] \in Int /\ z[2] \in Int /\ z[2] > 0
    BY DEF Cosines
  <1> DEFINE a == x[1]
             b == x[2]
             c == y[1]
             d == y[2]
             e == z[1]
             f == z[2]
  <1>2. /\ Below(x, y) <=> a * d < c * b
        /\ Below(y, x) <=> c * b < a * d
        /\ Below(x, z) <=> a * f < e * b
        /\ Below(y, z) <=> c * f < e * d
    BY DEF Below
  <1> HIDE DEF a, b, c, d, e, f
  <1>3. a \in Int /\ b \in Int /\ c \in Int /\ d \in Int /\ e \in Int /\ f \in Int
        /\ b > 0 /\ d > 0 /\ f > 0
    BY <1>1 DEF a, b, c, d, e, f
  <1>4. a * d \in Int /\ c * b \in Int /\ a * f \in Int /\ e * b \in Int
        /\ c * f \in Int /\ e * d \in Int
    BY <1>3
  <1>5. ASSUME a * d >= c * b, c * f >= e * d PROVE a * f >= e * b
    <2>1. (a * d - c * b) * f >= 0
      BY <1>3, <1>4, <1>5, NoNegativeProduct
    <2>2. (c * f - e * d) * b >= 0
      BY <1>3, <1>4, <1>5, NoNegativeProduct
    <2>3. d * (a * f - e * b) = (a * d - c * b) * f + (c * f - e * d) * b
      BY <1>3
    <2>4. d * (a * f - e * b) >= 0
      <3>1. (a * d - c * b) * f \in Int /\ (c * f - e * d) * b \in Int
        BY <1>3
      <3>2. QED
        BY <2>1, <2>2, <2>3, <3>1
    <2>5. a * f - e * b \in Int
      BY <1>4
    <2>6. a * f - e * b >= 0
      BY <1>3, <2>4, <2>5, PositiveFactor
    <2>7. QED
      BY <1>4, <2>6
  <1>6. QED
    BY <1>2, <1>4, <1>5

(* The search for the k nearest vectors keeps its promise for every query,  *)
(* every list of vectors, of whatever dimensions, and every k.              *)
THEOREM NearestAlwaysFirst ==
  ASSUME NEW query \in Seq(Int), NEW vectors \in Seq(Seq(Int)), NEW k \in Nat
  PROVE  NearestFirst(query, vectors, k)
  <1> DEFINE n == Len(vectors)
             top == TopKSimilar(query, vectors, k)
             cosine(i) == CosineSimilarity(query, vectors[i])
             similarity == BatchCosineSimilarity(query, vectors)
             s == [i \in 1..n |-> i]
             ahead == [i \in 1..Len(s) |-> {j \in 1..Len(s) :
                          \/ Below(similarity[s[i]], similarity[s[j]])
                          \/ ~Below(similarity[s[j]], similarity[s[i]]) /\ j < i}]
             order == [m \in 1..Len(s) |-> s[InTurn(ahead)[m]]]
             less == {x \in (1..n) \X (1..n) : Below(similarity[x[2]], similarity[x[1]])}
  <1> SUFFICES ASSUME top # Error, \A i \in 1..n : cosine(i) # Error
               PROVE  /\ IsInjective(top) /\ Len(top) = Lesser(k, n)
                      /\ \A i \in 1..Len(top), j \in 1..n :
                           Below(cosine(top[i]), cosine(j)) => \E h \in 1..i : top[h] = j
    BY DEF NearestFirst
  <1>1. similarity # Error /\ top = SubSeq(order, 1, Lesser(k, Len(order)))
    BY DEF TopKSimilar, StableSort
  <1>2. n \in Nat /\ s \in Seq(1..n) /\ Len(s) = n /\ \A i \in 1..n : s[i] = i
    <2>1. n \in Nat
      OBVIOUS
    <2> HIDE DEF n
    <2>2. s \in [1..n -> 1..n]
      OBVIOUS
    <2>3. s \in Seq(1..n)
      BY <2>1, <2>2, SeqDef
    <2>4. QED
      BY <2>1, <2>2, <2>3
  <1>3. \A i \in 1..n : similarity[i] = cosine(i) /\ similarity[i] \in Cosines
    <2> SUFFICES ASSUME NEW i \in 1..n
                 PROVE  similarity[i] = cosine(i) /\ similarity[i] \in Cosines
      OBVIOUS
    <2>1. vectors[i] \in Seq(Int)
      OBVIOUS
    <2>2. Compatible(query, vectors[i])
      <3>1. cosine(i) # Error
        OBVIOUS
      <3>2. QED
        BY <3>1 DEF CosineSimilarity
    <2>3. similarity[i] = cosine(i)
      BY <1>1, <2>2, BatchResult
    <2>4. QED
      BY <2>1, <2>2, <2>3, CosineResult
  <1>4. \A i, j \in 1..n : <<i, j>> \in less <=> Below(similarity[j], similarity[i])
    OBVIOUS
  <1> HIDE DEF similarity, cosine, n, top
  <1>5. WeakOrder(less, n)
    <2>1. \A i, j \in 1..n : <<i, j>> \in less => <<j, i>> \notin less
      <3> HIDE DEF less
      <3>1. QED
        BY <1>3, <1>4, BelowOrders
    <2>2. ASSUME NEW i \in 1..n, NEW j \in 1..n, NEW l \in 1..n, <<i, l>> \in less
          PROVE  <<i, j>> \in less \/ <<j, l>> \in less
      <3> HIDE DEF less
      <3>1. Below(similarity[l], similarity[i])
        BY <1>4, <2>2
      <3>2. Below(similarity[l], similarity[j]) \/ Below(similarity[j], similarity[i])
        BY <1>3, <3>1, BelowOrders
      <3>3. QED
        BY <1>4, <3>2
    <2> HIDE DEF less
    <2>3. QED
      BY <2>1, <2>2 DEF WeakOrder
  <1>6. ahead = StableAhead(less, Len(s))
    <2> HIDE DEF less
    <2>1. QED
      BY <1>2, <1>4 DEF StableAhead
  <1> HIDE DEF ahead, less
  <1>7. order \in Seq(1..n) /\ \E p : SortedBy(p, order, s, less)
    <2> HIDE DEF s
    <2>1. QED
      BY <1>2, <1>5, <1>6, SortResult
  <1>8. PICK p : SortedBy(p, order, s, less)
    BY <1>7
  <1> HIDE DEF order
  <1>9. /\ Len(order) = n /\ p \in [1..n -> 1..n] /\ \A m \in 1..n : order[m] = p[m]
        /\ \A i \in 1..n : \E m \in 1..n : p[m] = i
        /\ \A i, m \in 1..n : p[i] = p[m] => i = m
        /\ \A i, m \in 1..n : i < m <=> \/ <<p[i], p[m]>> \in less
                                        \/ <<p[m], p[i]>> \notin less /\ p[i] < p[m]
    <2> HIDE DEF s
    <2>1. QED
      BY <1>2, <1>8 DEF SortedBy
  <1>10. /\ Len(top) = Lesser(k, n) /\ Len(top) \in 0..n
         /\ \A i \in 1..Len(top) : i \in 1..n /\ top[i] = p[i]
         /\ DOMAIN top = 1..Len(top)
    <2> DEFINE l == Lesser(k, n)
    <2>1. l \in 0..n /\ l \in 0..Len(order) /\ 1 \in 1..(Len(order) + 1)
      BY <1>2, <1>9 DEF Lesser
    <2>2. top = SubSeq(order, 1, l)
      BY <1>1, <1>9
    <2> HIDE DEF l
    <2>3. Len(top) = l /\ DOMAIN top = 1..l /\ \A i \in 1..l : top[i] = order[i]
      BY <1>7, <2>1, <2>2
    <2>4. \A i \in 1..l : i \in 1..n
      BY <1>2, <2>1
    <2>5. QED
      BY <1>9, <2>1, <2>3, <2>4 DEF l
  <1>11. IsInjective(top)
    BY <1>9, <1>10 DEF IsInjective
  <1>12. ASSUME NEW i \in 1..Len(top), NEW j \in 1..n, Below(cosine(top[i]), cosine(j))
         PROVE  \E h \in 1..i : top[h] = j
    <2>1. PICK m \in 1..n : p[m] = j
      BY <1>9
    <2>2. i \in 1..n /\ top[i] = p[i] /\ p[i] \in 1..n
      BY <1>9, <1>10
    <2>3. <<p[m], p[i]>> \in less
      BY <1>3, <1>4, <1>12, <2>1, <2>2
    <2>4. m < i
      BY <1>9, <2>2, <2>3
    <2>5. m \in 1..i /\ m \in 1..Len(top)
      BY <1>2, <1>10, <2>4
    <2>6. QED
      BY <1>10, <2>1, <2>5
  <1>13. QED
    BY <1>10, <1>11, <1>12

(* What a ranking reads of a result.                                        *)
Rankable(X) == \A r \in X : r.score \in Int /\ r.stamp \in Int

(* A ranking that keeps the results of the set S.                           *)
LEMMA RankingOrderResult ==
  ASSUME NEW X, Rankable(X), NEW s \in Seq(X), NEW tieBreaker
  PROVE  LET t == RankingOrder(s, tieBreaker)
             less == {x \in (1..Len(s)) \X (1..Len(s)) :
                        GoesBefore(s[x[1]], s[x[2]], tieBreaker)}
         IN  t \in Seq(X) /\ \E p : SortedBy(p, t, s, less)
  <1> DEFINE n == Len(s)
             less == {x \in (1..n) \X (1..n) : GoesBefore(s[x[1]], s[x[2]], tieBreaker)}
             ahead == [i \in 1..n |-> {j \in 1..n :
                          \/ GoesBefore(s[j], s[i], tieBreaker)
                          \/ ~GoesBefore(s[i], s[j], tieBreaker) /\ j < i}]
             t == RankingOrder(s, tieBreaker)
  <1>1. n \in Nat /\ \A i \in 1..n : s[i] \in X /\ s[i].score \in Int /\ s[i].stamp \in Int
    BY DEF Rankable
  <1>2. \A i, j \in 1..n : <<i, j>> \in less <=> GoesBefore(s[i], s[j], tieBreaker)
    OBVIOUS
  <1>3. t = [m \in 1..n |-> s[InTurn(ahead)[m]]]
    BY DEF RankingOrder, StableSort
  <1> HIDE DEF n, less, t
  <1>4. WeakOrder(less, n)
    <2> DEFINE More(i, j) == GoesBefore(s[i], s[j], tieBreaker)
    <2>1. ASSUME NEW i \in 1..n, NEW j \in 1..n, More(i, j) PROVE ~More(j, i)
      BY <1>1, <2>1 DEF GoesBefore
    <2>2. ASSUME NEW i \in 1..n, NEW j \in 1..n, NEW k \in 1..n, More(i, k)
          PROVE  More(i, j) \/ More(j, k)
      BY <1>1, <2>2 DEF GoesBefore
    <2>3. QED
      BY <1>2, <2>1, <2>2 DEF WeakOrder
  <1>5. ahead = StableAhead(less, n)
    BY <1>2 DEF StableAhead
  <1> HIDE DEF ahead
  <1>6. t \in Seq(X) /\ \E p : SortedBy(p, t, s, less)
    <2>1. n = Len(s)
      BY DEF n
    <2>2. QED
      BY <1>3, <1>4, <1>5, <2>1, SortResult
  <1>7. QED
    BY <1>6 DEF n, less, t

(* What rankBySimilarity promises holds of every list of results, every     *)
(* tie breaker, minimum and limit.                                          *)
THEOREM RankingKeepsPromise ==
  ASSUME NEW X, Rankable(X), NEW results \in Seq(X), NEW tieBreaker,
         NEW minScore \in Int, NEW maxResults \in Nat
  PROVE  /\ RankBySimilarity(results, tieBreaker, minScore, maxResults) \in Seq(X)
         /\ RankedAsPromised(results, tieBreaker, minScore, maxResults)
  <1> DEFINE S == {r \in ToSet(results) : r.score >= minScore}
             filtered == Keep(results, S)
             sorted == RankingOrder(filtered, tieBreaker)
             less == {x \in (1..Len(filtered)) \X (1..Len(filtered)) :
                        GoesBefore(filtered[x[1]], filtered[x[2]], tieBreaker)}
             ranked == RankBySimilarity(results, tieBreaker, minScore, maxResults)
             kept == {i \in 1..Len(results) : results[i].score >= minScore}
             n == Len(filtered)
             l == Len(ranked)
  <1>1. filtered \in Seq(X) /\ \E f : Places(f, filtered, results, S, Len(results))
    BY KeepPlaces
  <1>2. PICK f : Places(f, filtered, results, S, Len(results))
    BY <1>1
  <1>3. /\ n \in Nat /\ Len(results) \in Nat
        /\ f \in [1..n -> kept]
        /\ \A j \in 1..n : filtered[j] = results[f[j]]
        /\ \A i, j \in 1..n : i < j => f[i] < f[j]
        /\ \A i \in kept : \E j \in 1..n : f[j] = i
    <2>1. n \in Nat /\ Len(results) \in Nat /\ DOMAIN results = 1..Len(results)
      BY <1>1
    <2>2. \A i \in 1..Len(results) : results[i] \in S <=> i \in kept
      BY <2>1 DEF ToSet
    <2> HIDE DEF filtered, S, kept
    <2>3. \A j \in 1..n : f[j] \in 1..Len(results) /\ filtered[j] = results[f[j]] /\ filtered[j] \in S
      BY <1>2 DEF Places
    <2>4. \A j \in 1..n : f[j] \in kept
      BY <2>2, <2>3
    <2>5. f \in [1..n -> kept]
      BY <1>2, <2>4 DEF Places
    <2>6. kept \subseteq 1..Len(results)
      BY DEF kept
    <2>7. QED
      BY <1>2, <2>1, <2>2, <2>3, <2>5, <2>6 DEF Places
  <1>4. sorted \in Seq(X) /\ \E p : SortedBy(p, sorted, filtered, less)
    <2> HIDE DEF filtered
    <2>1. QED
      BY <1>1, RankingOrderResult
  <1>5. PICK p : SortedBy(p, sorted, filtered, less)
    BY <1>4
  <1>6. /\ p \in [1..n -> 1..n]
        /\ \A m \in 1..n : sorted[m] = filtered[p[m]]
        /\ \A i \in 1..n : \E m \in 1..n : p[m] = i
        /\ \A i, m \in 1..n : p[i] = p[m] => i = m
        /\ Len(sorted) = n
    BY <1>5 DEF SortedBy
  <1> DEFINE More(i, j) == GoesBefore(sorted[i], sorted[j], tieBreaker)
  <1>7. /\ \A i, m \in 1..n : i < m => ~More(m, i)
        /\ \A i, m \in 1..n : ~More(i, m) /\ ~More(m, i) /\ p[i] < p[m] => i < m
    <2>1. \A i, m \in 1..n : <<p[i], p[m]>> \in less <=> More(i, m)
      <3> HIDE DEF filtered, sorted
      <3>1. QED
        BY <1>6
    <2>2. \A i, m \in 1..n : i < m <=> More(i, m) \/ (~More(m, i) /\ p[i] < p[m])
      BY <1>5, <2>1 DEF SortedBy
    <2>3. \A i \in 1..n : sorted[i] \in X /\ sorted[i].score \in Int /\ sorted[i].stamp \in Int
      <3> HIDE DEF sorted, filtered
      <3>1. QED
        BY <1>4, <1>6 DEF Rankable
    <2> HIDE DEF sorted, filtered
    <2>4. \A i, m \in 1..n : More(i, m) => ~More(m, i)
      BY <2>3 DEF GoesBefore
    <2> HIDE DEF More
    <2>5. QED
      BY <2>2, <2>4
  <1>8. /\ ranked \in Seq(X)
        /\ l = IF maxResults = 0 THEN n ELSE Lesser(maxResults, n)
        /\ l \in 0..n /\ \A i \in 1..l : ranked[i] = sorted[i]
    <2>1. ranked = IF maxResults > 0 THEN SubSeq(sorted, 1, Lesser(maxResults, Len(sorted)))
                                     ELSE sorted
      BY DEF RankBySimilarity
    <2> HIDE DEF sorted, filtered, ranked
    <2>2. CASE maxResults > 0
      <3> DEFINE k == Lesser(maxResults, n)
      <3>1. k \in 0..n /\ k \in 0..Len(sorted) /\ 1 \in 1..(Len(sorted) + 1)
        BY <1>3, <1>6, <2>2 DEF Lesser
      <3>2. ranked = SubSeq(sorted, 1, k)
        BY <1>6, <2>1, <2>2
      <3> HIDE DEF k
      <3>3. ranked \in Seq(X) /\ l = k /\ \A i \in 1..l : ranked[i] = sorted[i]
        BY <1>4, <3>1, <3>2
      <3>4. QED
        BY <2>2, <3>1, <3>3 DEF k
    <2>3. CASE maxResults = 0
      BY <1>3, <1>4, <1>6, <2>1, <2>3
    <2>4. QED
      BY <2>2, <2>3
  <1>9. Cardinality(kept) = n
    <2> HIDE DEF kept, filtered
    <2>0. n \in Nat
      BY <1>3
    <2> HIDE DEF n
    <2>1. IsFiniteSet(1..n) /\ Cardinality(1..n) = n
      BY <2>0, UpTo
    <2>2. \A i, j \in 1..n : f[i] = f[j] => i = j
      <3>1. \A i \in 1..n : f[i] \in Int
        BY <1>3 DEF kept
      <3>2. \A i, j \in 1..n : i = j \/ i < j \/ j < i
        BY <2>0
      <3>3. QED
        BY <1>3, <3>1, <3>2
    <2>3. f \in Bijection(1..n, kept)
      BY <1>3, <2>2 DEF Bijection, Injection, Surjection, IsInjective
    <2>4. QED
      BY <2>1, <2>3, FS_Bijection DEF ExistsBijection
  <1> DEFINE place == [i \in 1..l |-> f[p[i]]]
  <1>10. \A i \in 1..l : i \in 1..n /\ p[i] \in 1..n /\ f[p[i]] \in kept
    <2> HIDE DEF filtered, sorted, ranked, kept, l, n
    <2>1. n \in Nat /\ l \in 0..n
      BY <1>3, <1>8
    <2>2. \A i \in 1..l : i \in 1..n
      BY <2>1
    <2>3. \A i \in 1..n : p[i] \in 1..n /\ f[p[i]] \in kept
      BY <1>3, <1>6
    <2>4. QED
      BY <2>2, <2>3
  <1>11. \A i, j \in 1..n : f[i] < f[j] => i < j
    <2> HIDE DEF filtered, kept
    <2>1. \A i \in 1..n : f[i] \in Int
      BY <1>3 DEF kept
    <2>2. \A i, j \in 1..n : i = j \/ i < j \/ j < i
      BY <1>3
    <2>3. QED
      BY <1>3, <2>1, <2>2
  <1>12. \A i, j \in 1..n : f[i] = f[j] => i = j
    <2> HIDE DEF filtered, kept
    <2>1. \A i \in 1..n : f[i] \in Int
      BY <1>3 DEF kept
    <2>2. \A i, j \in 1..n : i = j \/ i < j \/ j < i
      BY <1>3
    <2>3. QED
      BY <1>3, <2>1, <2>2
  <1>13. \A i, j \in 1..l :
            GoesBefore(ranked[i], ranked[j], tieBreaker) <=> More(i, j)
    BY <1>8
  <1> HIDE DEF filtered, sorted, ranked, kept, l, n, More, less, S
  <1>14. /\ place \in [1..l -> kept] /\ IsInjective(place)
         /\ \A i \in 1..l : ranked[i] = results[place[i]]
    <2>1. place \in [1..l -> kept]
      BY <1>10
    <2>2. \A i \in 1..l : ranked[i] = results[place[i]]
      BY <1>3, <1>6, <1>8, <1>10
    <2>3. \A i, j \in 1..l : place[i] = place[j] => i = j
      BY <1>6, <1>10, <1>12
    <2>4. QED
      BY <2>1, <2>2, <2>3 DEF IsInjective
  <1>15. ASSUME NEW j \in kept \ {place[i] : i \in 1..l}, NEW i \in 1..l
         PROVE  ~GoesBefore(results[j], ranked[i], tieBreaker)
    <2>1. PICK h \in 1..n : f[h] = j
      BY <1>3
    <2>2. PICK m \in 1..n : p[m] = h
      BY <1>6
    <2>3. m \notin 1..l
      BY <2>1, <2>2
    <2>4. i < m /\ i \in 1..n
      BY <1>3, <1>8, <2>3
    <2>5. ~More(m, i)
      BY <1>7, <2>4
    <2>6. results[j] = sorted[m] /\ ranked[i] = sorted[i]
      BY <1>3, <1>6, <1>8, <2>1, <2>2
    <2>7. QED
      BY <2>5, <2>6 DEF More
  <1>16. ASSUME NEW i \in 1..l, NEW k \in 1..l,
                ~GoesBefore(ranked[i], ranked[k], tieBreaker),
                ~GoesBefore(ranked[k], ranked[i], tieBreaker), place[i] < place[k]
         PROVE  i < k
    BY <1>7, <1>10, <1>11, <1>13, <1>16
  <1>17. ASSUME NEW i \in 1..l - 1
         PROVE  ~GoesBefore(ranked[i + 1], ranked[i], tieBreaker)
    <2>1. i \in 1..l /\ i + 1 \in 1..l /\ i < i + 1
      BY <1>3, <1>8
    <2>2. QED
      BY <1>7, <1>10, <1>13, <2>1
  <1>18. QED
    <2> HIDE DEF place
    <2>1. /\ Len(ranked) = IF maxResults = 0 THEN Cardinality(kept)
                           ELSE Lesser(maxResults, Cardinality(kept))
          /\ \E x \in [1..Len(ranked) -> kept] :
                /\ IsInjective(x)
                /\ \A i \in 1..Len(ranked) : ranked[i] = results[x[i]]
                /\ \A j \in kept \ {x[i] : i \in 1..Len(ranked)} :
                      \A i \in 1..Len(ranked) : ~GoesBefore(results[j], ranked[i], tieBreaker)
                /\ \A i, k \in 1..Len(ranked) :
                      (/\ ~GoesBefore(ranked[i], ranked[k], tieBreaker)
                       /\ ~GoesBefore(ranked[k], ranked[i], tieBreaker)
                       /\ x[i] < x[k]) => i < k
      BY <1>8, <1>9, <1>14, <1>15, <1>16 DEF l
    <2>2. QED
      BY <1>8, <1>17, <2>1 DEF RankedAsPromised, ranked, kept, l

-----------------------------------------------------------------------------
(* The search.  Of two contents the better one scores higher or, with the   *)
(* same score, is not older.                                                *)
AtLeast(query, x, y) ==
    \/ Score[query][x] > Score[query][y]
    \/ Score[query][x] = Score[query][y] /\ Stamp[x] >= Stamp[y]

Wanted(j, content) ==
    /\ content \in Passes[j.options.filter]
    /\ Score[j.query][content] >= j.options.threshold

(* What the results of a search owe to the contexts it has seen.            *)
Told(j, results) ==
    /\ Len(results) <= j.options.topK
    /\ \A i, k \in 1..Len(results) : results[i].id = results[k].id => i = k
    /\ \A i \in 1..Len(results) : /\ <<results[i].id, results[i].content>> \in j.seen
                                  /\ Wanted(j, results[i].content)
    /\ \A x \in j.kept :
          \/ j.missed \/ ~Wanted(j, x[2])
          \/ \E i \in 1..Len(results) : results[i].id = x[1]
          \/ /\ Len(results) = j.options.topK
             /\ \A i \in 1..Len(results) : AtLeast(j.query, results[i].content, x[2])

(* What a search has read, and has still to read, of the contexts.          *)
ReadSoFar(j) ==
    /\ IsInjective(j.todo)
    /\ \A i, k \in 1..Len(j.found) : j.found[i].id = j.found[k].id => i = k
    /\ \A i \in 1..Len(j.found) : /\ j.found[i].id \notin ToSet(j.todo)
                                  /\ <<j.found[i].id, j.found[i].content>> \in j.seen
    /\ \A x \in j.kept :
          \/ j.missed \/ x[1] \in ToSet(j.todo)
          \/ \E i \in 1..Len(j.found) : j.found[i] = [id |-> x[1], content |-> x[2]]

WellPosed(j) ==
    /\ j.kind = "search" => j.query \in Queries /\ j.options \in Settings
    /\ j.phase \in {"reading", "reranking"} => j.kind = "search"
    /\ j.phase = "writing" => j.kind \in {"add", "remove", "clear"} /\ j.id \in Ids
    /\ j.kind \in {"add", "remove"} => j.id \in Ids /\ j.todo = <<>>
    /\ j.kind = "remove" => j.content = Nothing
    /\ j.phase \in {"embedding", "listing"} => j.found = <<>>

(* What a job owes to what some adapter holds and to what all of them hold. *)
JobSound(j, some, all) ==
    /\ WellPosed(j)
    /\ j.phase \in {"reading", "reranking"} => some \subseteq j.seen /\ j.kept \subseteq all
    /\ j.phase = "reading" => ReadSoFar(j)
    /\ j.phase = "reranking" => Told(j, j.results)

SearchIInv ==
    /\ SearchTypeOK
    /\ \A c \in Users : JobSound(job[c], Held, Everywhere)
    /\ CacheFresh

-----------------------------------------------------------------------------
Found == [id : Ids, content : Contents]

(* Where the results of a ranking stand among the contexts that are ranked, *)
(* and for what a context is left out.                                      *)
LEMMA RankedResult ==
  ASSUME NEW query \in Queries, NEW resolved \in Settings, NEW contexts \in Seq(Found)
  PROVE  LET results == Ranked(query, resolved, contexts)
         IN  /\ results \in Seq(Answer) /\ Len(results) <= resolved.topK
             /\ \E place \in [1..Len(results) -> 1..Len(contexts)] :
                   /\ \A i, k \in 1..Len(results) : place[i] = place[k] => i = k
                   /\ \A i \in 1..Len(results) :
                         /\ results[i].id = contexts[place[i]].id
                         /\ results[i].content = contexts[place[i]].content
                         /\ Score[query][results[i].content] >= resolved.threshold
                   /\ \A k \in 1..Len(contexts) :
                         \/ Score[query][contexts[k].content] < resolved.threshold
                         \/ \E i \in 1..Len(results) : place[i] = k
                         \/ /\ Len(results) = resolved.topK
                            /\ \A i \in 1..Len(results) :
                                  AtLeast(query, results[i].content, contexts[k].content)
  <1> DEFINE X == [id : Ids, content : Contents, score : Int, stamp : Nat]
             raw == Raw(query, contexts)
             least == resolved.threshold
             most == resolved.topK
             ranked == RankBySimilarity(raw, "metadata", least, most)
             results == Ranked(query, resolved, contexts)
             n == Len(contexts)
             l == Len(ranked)
             kept == {i \in 1..Len(raw) : raw[i].score >= least}
  <1>1. least \in Int /\ most \in Nat \ {0}
    BY DEF Settings
  <1>2. n \in Nat /\ \A i \in 1..n : contexts[i].id \in Ids /\ contexts[i].content \in Contents
    <2>1. n \in Nat /\ \A i \in 1..n : contexts[i] \in Found
      OBVIOUS
    <2>2. QED
      BY <2>1 DEF Found
  <1>3. \A x \in Contents : Score[query][x] \in Int /\ Stamp[x] \in Nat
    BY SearchAssumption
  <1>4. /\ raw \in Seq(X) /\ Len(raw) = n
        /\ \A i \in 1..n : /\ raw[i].id = contexts[i].id
                           /\ raw[i].content = contexts[i].content
                           /\ raw[i].score = Score[query][contexts[i].content]
                           /\ raw[i].stamp = Stamp[contexts[i].content]
    <2> HIDE DEF n, X
    <2>1. raw = [i \in 1..n |-> [id |-> contexts[i].id, content |-> contexts[i].content,
                                 score |-> Score[query][contexts[i].content],
                                 stamp |-> Stamp[contexts[i].content]]]
      BY DEF Raw, n
    <2> HIDE DEF raw
    <2>2. ASSUME NEW i \in 1..n
          PROVE  /\ raw[i] \in X
                 /\ raw[i].id = contexts[i].id
                 /\ raw[i].content = contexts[i].content
                 /\ raw[i].score = Score[query][contexts[i].content]
                 /\ raw[i].stamp = Stamp[contexts[i].content]
      BY <1>2, <1>3, <2>1 DEF X
    <2>3. raw \in [1..n -> X]
      BY <2>1, <2>2
    <2>4. raw \in Seq(X) /\ Len(raw) = n
      BY <1>2, <2>3, SeqDef
    <2>5. QED
      BY <2>2, <2>4
  <1>5. Rankable(X)
    BY DEF Rankable
  <1> HIDE DEF X, raw, least, most
  <1>6. ranked \in Seq(X) /\ RankedAsPromised(raw, "metadata", least, most)
    BY <1>1, <1>4, <1>5, RankingKeepsPromise
  <1>7. PICK place \in [1..l -> kept] :
            /\ IsInjective(place)
            /\ \A i \in 1..l : ranked[i] = raw[place[i]]
            /\ \A j \in kept \ {place[i] : i \in 1..l} :
                  \A i \in 1..l : ~GoesBefore(raw[j], ranked[i], "metadata")
    BY <1>4, <1>6 DEF RankedAsPromised
  <1>8. l = Lesser(most, Cardinality(kept))
    BY <1>1, <1>4, <1>6 DEF RankedAsPromised
  <1>9. results = [i \in 1..l |-> [id |-> ranked[i].id, content |-> ranked[i].content,
                                   score |-> ranked[i].score * 10000, rank |-> i]]
    BY DEF Ranked, raw, least, most
  <1> HIDE DEF results, ranked, n, l
  <1>10. /\ IsFiniteSet(kept)
         /\ l \in Nat /\ l <= most /\ (l = most \/ l = Cardinality(kept))
    <2>1. IsFiniteSet(kept)
      <3>1. IsFiniteSet(1..Len(raw))
        BY <1>2, <1>4, UpTo
      <3>2. kept \in SUBSET (1..Len(raw))
        OBVIOUS
      <3>3. QED
        BY <3>1, <3>2, FS_Subset
    <2>2. Cardinality(kept) \in Nat
      BY <2>1, FS_CardinalityType
    <2>3. QED
      BY <1>1, <1>8, <2>1, <2>2 DEF Lesser
  <1>11. \A k \in kept : l = most \/ \E i \in 1..l : place[i] = k
    <2>1. CASE l = Cardinality(kept)
      <3>1. Cardinality(1..l) = l
        BY <1>10, UpTo
      <3> HIDE DEF kept
      <3>2. place \in Injection(1..l, kept)
        BY <1>7 DEF Injection, IsInjective
      <3>3. place \in Surjection(1..l, kept)
        BY <1>10, <2>1, <3>1, <3>2, FS_Injection
      <3>4. QED
        BY <3>3 DEF Surjection
    <2>2. QED
      BY <1>10, <2>1
  <1> HIDE DEF kept
  <1>12. results \in Seq(Answer) /\ Len(results) = l
    <2>1. ASSUME NEW i \in 1..l PROVE results[i] \in Answer
      <3>1. ranked[i] \in X /\ i \in Nat
        BY <1>6, <1>10 DEF l
      <3>2. ranked[i].score * 10000 \in Int
        BY <3>1 DEF X
      <3>3. QED
        BY <1>9, <3>1, <3>2 DEF X, Answer
    <2>2. results \in [1..l -> Answer]
      BY <1>9, <2>1
    <2>3. QED
      BY <1>10, <2>2, SeqDef
  <1>13. ASSUME NEW i \in 1..l
         PROVE  /\ place[i] \in 1..n
                /\ results[i].id = contexts[place[i]].id
                /\ results[i].content = contexts[place[i]].content
                /\ Score[query][results[i].content] >= least
    <2>1. place[i] \in 1..n /\ raw[place[i]].score >= least
      BY <1>4, <1>7 DEF kept
    <2>2. ranked[i] = raw[place[i]]
      BY <1>7
    <2>3. results[i].id = ranked[i].id /\ results[i].content = ranked[i].content
      BY <1>9
    <2>4. QED
      BY <1>4, <2>1, <2>2, <2>3
  <1>14. ASSUME NEW k \in 1..n
         PROVE  \/ Score[query][contexts[k].content] < least
                \/ \E i \in 1..l : place[i] = k
                \/ /\ l = most
                   /\ \A i \in 1..l : AtLeast(query, results[i].content, contexts[k].content)
    <2>1. raw[k].score = Score[query][contexts[k].content] /\ raw[k].score \in Int
             /\ raw[k].stamp = Stamp[contexts[k].content] /\ raw[k].stamp \in Int
      BY <1>2, <1>3, <1>4
    <2>2. CASE k \notin kept
      BY <1>1, <1>4, <2>1, <2>2 DEF kept
    <2>3. CASE k \in kept /\ \A i \in 1..l : place[i] # k
      <3>1. l = most
        BY <1>11, <2>3
      <3>2. ASSUME NEW i \in 1..l PROVE AtLeast(query, results[i].content, contexts[k].content)
        <4>1. ~GoesBefore(raw[k], raw[place[i]], "metadata")
          BY <1>7, <2>3
        <4>2. /\ raw[place[i]].score = Score[query][results[i].content]
              /\ raw[place[i]].stamp = Stamp[results[i].content]
              /\ raw[place[i]].score \in Int /\ raw[place[i]].stamp \in Int
          BY <1>2, <1>3, <1>4, <1>13
        <4>3. QED
          BY <2>1, <4>1, <4>2 DEF GoesBefore, AtLeast
      <3>3. QED
        BY <3>1, <3>2
    <2>4. QED
      BY <2>2, <2>3
  <1>15. \A i, k \in 1..l : place[i] = place[k] => i = k
    BY <1>7 DEF IsInjective
  <1>16. place \in [1..l -> 1..n]
    BY <1>7, <1>13
  <1>17. QED
    BY <1>10, <1>12, <1>13, <1>14, <1>15, <1>16 DEF results, n, least, most

(* The ranking of what a search has found tells what Told promises.         *)
LEMMA RankedTells ==
  ASSUME NEW j, j.query \in Queries, j.options \in Settings,
         j.kept \subseteq Ids \X Contents, NEW contexts \in Seq(Found),
         \A i, k \in 1..Len(contexts) : contexts[i].id = contexts[k].id => i = k,
         \A i \in 1..Len(contexts) : <<contexts[i].id, contexts[i].content>> \in j.seen,
         \A x \in j.kept : \/ j.missed
                           \/ \E i \in 1..Len(contexts) :
                                 contexts[i] = [id |-> x[1], content |-> x[2]]
  PROVE  LET filtered == Keep(contexts, {x \in ToSet(contexts) :
                                           x.content \in Passes[j.options.filter]})
             results == Ranked(j.query, j.options, filtered)
         IN  /\ filtered \in Seq(Found)
             /\ results \in Seq(Answer) /\ Told(j, results)
             /\ filtered = <<>> => Told(j, <<>>)
  <1> DEFINE S == {x \in ToSet(contexts) : x.content \in Passes[j.options.filter]}
             filtered == Keep(contexts, S)
             results == Ranked(j.query, j.options, filtered)
             m == Len(contexts)
             n == Len(filtered)
             l == Len(results)
  <1>1. filtered \in Seq(Found) /\ \E f : Places(f, filtered, contexts, S, m)
    BY KeepPlaces
  <1>2. PICK f : Places(f, filtered, contexts, S, m)
    BY <1>1
  <1>3. \A i \in 1..m : contexts[i] \in S <=> contexts[i].content \in Passes[j.options.filter]
    <2>1. DOMAIN contexts = 1..m
      OBVIOUS
    <2>2. QED
      BY <2>1 DEF ToSet
  <1>4. m \in Nat /\ n \in Nat /\ \A i \in 1..m : contexts[i] \in Found
    BY <1>1
  <1> HIDE DEF S, filtered, m
  <1>5. /\ \A i \in 1..n : /\ f[i] \in 1..m /\ filtered[i] = contexts[f[i]]
                           /\ filtered[i].content \in Passes[j.options.filter]
        /\ \A i, k \in 1..n : f[i] = f[k] => i = k
        /\ \A i \in 1..m : contexts[i].content \in Passes[j.options.filter] =>
                              \E k \in 1..n : f[k] = i
    <2>1. \A i \in 1..n : f[i] \in 1..m /\ filtered[i] = contexts[f[i]] /\ filtered[i] \in S
      BY <1>2 DEF Places
    <2>2. ASSUME NEW i \in 1..n, NEW k \in 1..n, f[i] = f[k] PROVE i = k
      <3>1. i < k \/ k < i \/ i = k
        BY <1>4
      <3>2. f[i] \in Int
        BY <1>4, <2>1
      <3>3. QED
        BY <1>2, <2>2, <3>1, <3>2 DEF Places
    <2>3. \A i \in 1..m : contexts[i] \in S => \E k \in 1..n : f[k] = i
      BY <1>2 DEF Places
    <2>4. QED
      BY <1>3, <2>1, <2>2, <2>3
  <1>6. /\ results \in Seq(Answer) /\ l <= j.options.topK
        /\ \E place \in [1..l -> 1..n] :
              /\ \A i, k \in 1..l : place[i] = place[k] => i = k
              /\ \A i \in 1..l :
                    /\ results[i].id = filtered[place[i]].id
                    /\ results[i].content = filtered[place[i]].content
                    /\ Score[j.query][results[i].content] >= j.options.threshold
              /\ \A k \in 1..n :
                    \/ Score[j.query][filtered[k].content] < j.options.threshold
                    \/ \E i \in 1..l : place[i] = k
                    \/ /\ l = j.options.topK
                       /\ \A i \in 1..l :
                             AtLeast(j.query, results[i].content, filtered[k].content)
    BY <1>1, RankedResult
  <1> HIDE DEF results, n, l
  <1>7. PICK place \in [1..l -> 1..n] :
              /\ \A i, k \in 1..l : place[i] = place[k] => i = k
              /\ \A i \in 1..l :
                    /\ results[i].id = filtered[place[i]].id
                    /\ results[i].content = filtered[place[i]].content
                    /\ Score[j.query][results[i].content] >= j.options.threshold
              /\ \A k \in 1..n :
                    \/ Score[j.query][filtered[k].content] < j.options.threshold
                    \/ \E i \in 1..l : place[i] = k
                    \/ /\ l = j.options.topK
                       /\ \A i \in 1..l :
                             AtLeast(j.query, results[i].content, filtered[k].content)
    BY <1>6
  <1>8. ASSUME NEW i \in 1..l, NEW k \in 1..l, results[i].id = results[k].id PROVE i = k
    <2>1. place[i] \in 1..n /\ place[k] \in 1..n
      BY <1>7
    <2>2. contexts[f[place[i]]].id = contexts[f[place[k]]].id
      BY <1>5, <1>7, <1>8, <2>1
    <2>3. f[place[i]] = f[place[k]]
      BY <1>5, <2>1, <2>2 DEF m
    <2>4. QED
      BY <1>5, <1>7, <2>1, <2>3
  <1>9. \A i \in 1..l : /\ <<results[i].id, results[i].content>> \in j.seen
                        /\ Wanted(j, results[i].content)
    BY <1>5, <1>7 DEF Wanted, m
  <1>10. ASSUME NEW x \in j.kept, ~j.missed, Wanted(j, x[2])
         PROVE  \E k \in 1..n : filtered[k].id = x[1] /\ filtered[k].content = x[2]
    <2>1. PICK i \in 1..m : contexts[i] = [id |-> x[1], content |-> x[2]]
      BY <1>10 DEF m
    <2>2. contexts[i].id = x[1] /\ contexts[i].content = x[2]
      BY <2>1
    <2>3. QED
      BY <1>5, <1>10, <2>2 DEF Wanted
  <1>11. ASSUME NEW x \in j.kept, ~j.missed, Wanted(j, x[2])
         PROVE  \/ \E i \in 1..l : results[i].id = x[1]
                \/ /\ l = j.options.topK
                   /\ \A i \in 1..l : AtLeast(j.query, results[i].content, x[2])
    <2>1. PICK k \in 1..n : filtered[k].id = x[1] /\ filtered[k].content = x[2]
      BY <1>10, <1>11
    <2>2. Score[j.query][x[2]] \in Int /\ j.options.threshold \in Int
      <3>1. x[2] \in Contents
        BY <1>11
      <3>2. QED
        BY <3>1, SearchAssumption DEF Settings
    <2>3. ~(Score[j.query][filtered[k].content] < j.options.threshold)
      BY <1>11, <2>1, <2>2 DEF Wanted
    <2>4. QED
      BY <1>7, <2>1, <2>3
  <1>12. Told(j, results)
    BY <1>6, <1>8, <1>9, <1>11 DEF Told, l
  <1>13. filtered = <<>> => Told(j, <<>>)
    <2>1. ASSUME filtered = <<>> PROVE n = 0 /\ j.options.topK \in Nat
      BY <2>1 DEF n, Settings
    <2>2. Len(<<>>) = 0 /\ 1..0 = {}
      OBVIOUS
    <2>3. QED
      BY <1>10, <2>1, <2>2 DEF Told
  <1>14. QED
    BY <1>1, <1>6, <1>12, <1>13 DEF filtered, results, S

(* Reranking changes the order of the results only.                         *)
LEMMA RerankTells ==
  ASSUME NEW j, NEW results \in Seq(Answer), Told(j, results)
  PROVE  RerankResults(results) \in Seq(Answer) /\ Told(j, RerankResults(results))
  <1> DEFINE n == Len(results)
             scored == [i \in 1..n |-> [results[i] EXCEPT !.score = RerankScore(results[i])]]
             less == {x \in (1..n) \X (1..n) : scored[x[1]].score > scored[x[2]].score}
             ahead == [i \in 1..n |-> {k \in 1..n :
                          \/ scored[k].score > scored[i].score
                          \/ ~(scored[i].score > scored[k].score) /\ k < i}]
             t == RerankResults(results)
  <1>1. n \in Nat /\ \A i \in 1..n : results[i] \in Answer
    OBVIOUS
  <1>2. ASSUME NEW i \in 1..n
        PROVE  /\ scored[i] \in Answer
               /\ scored[i].id = results[i].id /\ scored[i].content = results[i].content
    <2>1. results[i] \in Answer
      BY <1>1
    <2>2. RerankScore(results[i]) \in Int
      <3>1. results[i].score \in Int /\ results[i].content \in Contents
        BY <2>1 DEF Answer
      <3>2. LengthFactor[results[i].content] \in Int /\ AgeFactor[results[i].content] \in Int
        <4>1. \A x \in Contents : LengthFactor[x] \in {90, 100, 110} /\ AgeFactor[x] \in {100, 105}
          BY SearchAssumption
        <4>2. {90, 100, 110} \subseteq Int /\ {100, 105} \subseteq Int
          OBVIOUS
        <4>3. QED
          BY <3>1, <4>1, <4>2
      <3>3. FullScore * 10000 \in Int /\ results[i].score \div 10000 \in Int
        BY <3>1, SearchAssumption
      <3>4. (results[i].score \div 10000) * LengthFactor[results[i].content]
               * AgeFactor[results[i].content] \in Int
        BY <3>2, <3>3
      <3>5. QED
        BY <3>3, <3>4 DEF RerankScore, Lesser
    <2>3. QED
      BY <2>1, <2>2 DEF Answer
  <1>3. scored \in Seq(Answer) /\ Len(scored) = n
    <2> HIDE DEF n
    <2>1. scored \in [1..n -> Answer]
      BY <1>2
    <2> HIDE DEF scored
    <2>2. QED
      BY <1>1, <2>1, SeqDef
  <1>4. t = [m \in 1..n |-> scored[InTurn(ahead)[m]]]
    <2>1. t = LET before == [i \in 1..Len(scored) |-> {k \in 1..Len(scored) :
                              \/ scored[k].score > scored[i].score
                              \/ ~(scored[i].score > scored[k].score) /\ k < i}]
              IN  [m \in 1..Len(scored) |-> scored[InTurn(before)[m]]]
      BY DEF RerankResults, StableSort
    <2> HIDE DEF scored, t, n
    <2>2. QED
      BY <1>3, <2>1
  <1>5. \A i, k \in 1..n : <<i, k>> \in less <=> scored[i].score > scored[k].score
    OBVIOUS
  <1>6. \A i \in 1..n : scored[i].score \in Int
    BY <1>2 DEF Answer
  <1> DEFINE most == j.options.topK
             Seen(r) == <<r.id, r.content>> \in j.seen /\ Wanted(j, r.content)
             Above(r, x) == AtLeast(j.query, r.content, x[2])
  <1>0. /\ n <= most
        /\ \A i, k \in 1..n : results[i].id = results[k].id => i = k
        /\ \A i \in 1..n : Seen(results[i])
        /\ \A x \in j.kept :
              \/ j.missed \/ ~Wanted(j, x[2])
              \/ \E i \in 1..n : results[i].id = x[1]
              \/ n = most /\ \A i \in 1..n : Above(results[i], x)
    BY DEF Told
  <1> HIDE DEF n, less, t, scored, most
  <1>7. WeakOrder(less, n)
    BY <1>5, <1>6 DEF WeakOrder
  <1>8. ahead = StableAhead(less, n)
    BY <1>5 DEF StableAhead
  <1> HIDE DEF ahead
  <1>9. t \in Seq(Answer) /\ \E p : SortedBy(p, t, scored, less)
    BY <1>3, <1>4, <1>7, <1>8, SortResult
  <1>10. PICK p : SortedBy(p, t, scored, less)
    BY <1>9
  <1>11. /\ Len(t) = n /\ p \in [1..n -> 1..n]
         /\ \A i \in 1..n : /\ p[i] \in 1..n
                            /\ t[i].id = results[p[i]].id /\ t[i].content = results[p[i]].content
         /\ \A i \in 1..n : \E m \in 1..n : p[m] = i
         /\ \A i, k \in 1..n : p[i] = p[k] => i = k
    BY <1>2, <1>3, <1>10 DEF SortedBy
  <1>12. Told(j, t)
    <2>1. ASSUME NEW i \in 1..n, NEW k \in 1..n, t[i].id = t[k].id PROVE i = k
      <3>0. results[p[i]].id = results[p[k]].id /\ p[i] \in 1..n /\ p[k] \in 1..n
        BY <1>11, <2>1
      <3>1. p[i] = p[k]
        BY <1>0, <3>0
      <3>2. QED
        BY <1>11, <3>1
    <2>2. ASSUME NEW i \in 1..n PROVE Seen(t[i])
      <3>1. Seen(results[p[i]])
        BY <1>0, <1>11
      <3>2. QED
        BY <1>11, <3>1
    <2>3. ASSUME NEW x \in j.kept, ~j.missed, Wanted(j, x[2])
          PROVE  (\E i \in 1..n : t[i].id = x[1]) \/ (n = most /\ \A i \in 1..n : Above(t[i], x))
      <3>1. CASE \E i \in 1..n : results[i].id = x[1]
        BY <1>11, <3>1
      <3>2. CASE n = most /\ \A i \in 1..n : Above(results[i], x)
        BY <1>11, <3>2
      <3>3. QED
        BY <1>0, <2>3, <3>1, <3>2
    <2>4. QED
      BY <1>0, <1>11, <2>1, <2>2, <2>3 DEF Told, most
  <1>13. QED
    BY <1>9, <1>12 DEF t

LEMMA IdsFinite == IsFiniteSet(Ids)
  <1>1. /\ Len(IdOrder) \in Nat /\ DOMAIN IdOrder = 1..Len(IdOrder)
        /\ IdOrder \in [1..Len(IdOrder) -> Ids] /\ ToSet(IdOrder) = Ids
    BY SearchAssumption
  <1>2. IdOrder \in Surjection(1..Len(IdOrder), Ids)
    BY <1>1 DEF ToSet, Surjection
  <1>3. IsFiniteSet(1..Len(IdOrder))
    BY <1>1, UpTo
  <1>4. QED
    BY <1>2, <1>3, FS_Surjection

(* A search that saw one state of the store only answers from that state.   *)
LEMMA ToldAnswers ==
  ASSUME NEW j, j.options \in Settings, ~j.missed,
         NEW contents, contents \subseteq Ids \X Contents,
         \A x, y \in contents : x[1] = y[1] => x = y,
         j.seen = contents, j.kept = contents,
         NEW results \in Seq(Answer), Told(j, results)
  PROVE  Answers(j.query, j.options, contents, results)
  <1> DEFINE fit == {x \in contents : /\ x[2] \in Passes[j.options.filter]
                                      /\ Score[j.query][x[2]] >= j.options.threshold}
             found == {<<results[i].id, results[i].content>> : i \in 1..Len(results)}
             n == Len(results)
             pair == [i \in 1..n |-> <<results[i].id, results[i].content>>]
  <1>1. \A x \in contents : x \in fit <=> Wanted(j, x[2])
    BY DEF Wanted
  <1>2. n \in Nat /\ n <= j.options.topK /\ j.options.topK \in Nat
    BY DEF Told, Settings
  <1>3. \A i \in 1..n : pair[i] \in contents /\ Wanted(j, pair[i][2])
    BY DEF Told
  <1>4. found \subseteq fit
    BY <1>1, <1>3
  <1>5. IsFiniteSet(found) /\ Cardinality(found) = n
    <2>2. pair \in Bijection(1..n, found)
      BY DEF Told, Bijection, Injection, Surjection, IsInjective
    <2> HIDE DEF n, pair, found
    <2>1. IsFiniteSet(1..n) /\ Cardinality(1..n) = n
      BY <1>2, UpTo
    <2>3. QED
      BY <2>1, <2>2, FS_Bijection DEF ExistsBijection
  <1>6. IsFiniteSet(fit)
    <2> DEFINE idOf == [x \in fit |-> x[1]]
    <2>1. idOf \in Injection(fit, Ids)
      BY DEF Injection, IsInjective
    <2>2. QED
      BY <2>1, IdsFinite, FS_Injection
  <1>7. ASSUME NEW y \in fit, y \notin found
        PROVE  /\ n = j.options.topK
               /\ \A i \in 1..n : AtLeast(j.query, results[i].content, y[2])
    <2>1. Wanted(j, y[2]) /\ y \in j.kept
      BY <1>1, <1>7
    <2>2. ASSUME NEW i \in 1..n, results[i].id = y[1] PROVE FALSE
      <3>1. pair[i] \in contents /\ pair[i][1] = y[1]
        BY <1>3, <2>2
      <3>2. pair[i] = y
        BY <3>1
      <3>3. QED
        BY <1>7, <3>2
    <2>3. QED
      BY <2>1, <2>2 DEF Told
  <1> HIDE DEF fit, found, n
  <1>8. n = Lesser(j.options.topK, Cardinality(fit))
    <2>1. Cardinality(fit) \in Nat
      BY <1>6, FS_CardinalityType
    <2>2. CASE fit = found
      BY <1>2, <1>5, <2>2 DEF Lesser
    <2>3. CASE fit # found
      <3>1. n = j.options.topK
        BY <1>4, <1>7, <2>3
      <3>2. n <= Cardinality(fit)
        BY <1>4, <1>5, <1>6, FS_Subset
      <3>3. QED
        BY <1>2, <2>1, <3>1, <3>2 DEF Lesser
    <2>4. QED
      BY <2>2, <2>3
  <1>9. \A x \in found, y \in fit \ found :
           \/ Score[j.query][x[2]] > Score[j.query][y[2]]
           \/ Score[j.query][x[2]] = Score[j.query][y[2]] /\ Stamp[x[2]] >= Stamp[y[2]]
    <2> SUFFICES ASSUME NEW i \in 1..n, NEW y \in fit \ found
                 PROVE  AtLeast(j.query, results[i].content, y[2])
      BY DEF AtLeast, found, n
    <2>1. QED
      BY <1>7
  <1>10. /\ found \subseteq fit /\ Cardinality(found) = Len(results)
         /\ Len(results) = Lesser(j.options.topK, Cardinality(fit))
    BY <1>4, <1>5, <1>8 DEF n
  <1>11. QED
    BY <1>9, <1>10 DEF Answers, fit, found

-----------------------------------------------------------------------------
(* The cache.                                                               *)
CacheShape(t) ==
    /\ t \in Seq(Entry) /\ Len(t) <= MaxCached
    /\ \A i, k \in 1..Len(t) : t[i].key = t[k].key => i = k

LEMMA CachedWithResult ==
  ASSUME CacheShape(searchCache), NEW entry \in Entry
  PROVE  /\ CacheShape(CachedWith(entry))
         /\ \A i \in 1..Len(CachedWith(entry)) :
               \/ CachedWith(entry)[i] = entry
               \/ \E k \in 1..Len(searchCache) : CachedWith(entry)[i] = searchCache[k]
  <1> DEFINE s == searchCache
             n == Len(s)
             same == EntriesOf(entry.key)
             table == IF same = {} THEN Append(s, entry)
                      ELSE [i \in 1..n |-> IF i \in same THEN entry ELSE s[i]]
             t == CachedWith(entry)
  <1>1. /\ s \in Seq(Entry) /\ n \in Nat /\ n <= MaxCached /\ MaxCached \in Nat \ {0}
        /\ s \in [1..n -> Entry]
        /\ \A i, k \in 1..n : s[i].key = s[k].key => i = k
    BY SearchAssumption DEF CacheShape
  <1>2. \A i \in 1..n : i \in same <=> s[i].key = entry.key
    BY DEF EntriesOf
  <1>3. t = IF Len(table) > MaxCached THEN Tail(table) ELSE table
    BY DEF CachedWith
  <1> HIDE DEF same, t, n
  <1> DEFINE Goal == /\ CacheShape(t)
                     /\ \A i \in 1..Len(t) : t[i] = entry \/ \E k \in 1..n : t[i] = s[k]
  <1>4. ASSUME same = {} PROVE Goal
    <2> DEFINE a == Append(s, entry)
    <2>1. /\ table = a /\ a \in Seq(Entry) /\ Len(a) = n + 1
          /\ \A i \in 1..n : a[i] = s[i]
          /\ a[n + 1] = entry
      BY <1>1, <1>4 DEF n
    <2> HIDE DEF table, a
    <2>2. \A i \in 1..(n + 1) : i \in 1..n \/ i = n + 1
      BY <1>1
    <2>3. \A i, k \in 1..(n + 1) : a[i].key = a[k].key => i = k
      BY <1>1, <1>2, <1>4, <2>1, <2>2
    <2>4. CASE n + 1 <= MaxCached
      <3>1. t = a /\ Len(t) = n + 1 /\ n + 1 <= MaxCached
        BY <1>1, <1>3, <2>1, <2>4
      <3>2. \A i \in 1..(n + 1) : a[i] = entry \/ \E k \in 1..n : a[i] = s[k]
        BY <2>1, <2>2
      <3>3. CacheShape(t)
        BY <2>1, <2>3, <3>1 DEF CacheShape
      <3>4. QED
        BY <3>1, <3>2, <3>3
    <2>5. CASE n + 1 > MaxCached
      <3> DEFINE r == Tail(a)
      <3>1. /\ r \in Seq(Entry) /\ Len(r) = n /\ t = r
            /\ \A i \in 1..n : r[i] = a[i + 1] /\ i + 1 \in 1..(n + 1)
        BY <1>1, <1>3, <2>1, <2>5
      <3> HIDE DEF r
      <3>2. \A i, k \in 1..n : r[i].key = r[k].key => i = k
        <4> SUFFICES ASSUME NEW i \in 1..n, NEW k \in 1..n, r[i].key = r[k].key PROVE i = k
          OBVIOUS
        <4>1. i + 1 = k + 1
          BY <2>3, <3>1
        <4>2. QED
          BY <1>1, <4>1
      <3>3. \A i \in 1..n : r[i] = entry \/ \E k \in 1..n : r[i] = s[k]
        BY <2>1, <2>2, <3>1
      <3>4. CacheShape(t)
        BY <1>1, <3>1, <3>2 DEF CacheShape
      <3>5. QED
        BY <3>1, <3>3, <3>4
    <2>6. QED
      <3>1. n + 1 <= MaxCached \/ n + 1 > MaxCached
        BY <1>1
      <3>2. QED
        BY <2>4, <2>5, <3>1
  <1>5. ASSUME same # {} PROVE Goal
    <2>1. table = [i \in 1..n |-> IF i \in same THEN entry ELSE s[i]]
      BY <1>5
    <2>2. table \in [1..n -> Entry]
      BY <1>1, <2>1
    <2>3. table \in Seq(Entry) /\ Len(table) = n
      BY <1>1, <2>1, <2>2, SeqDef
    <2>4. \A i \in 1..n : table[i] = IF i \in same THEN entry ELSE s[i]
      BY <2>1
    <2> HIDE DEF table
    <2>5. t = table
      BY <1>1, <1>3, <2>3
    <2>6. \A i \in 1..n : table[i].key = s[i].key
      BY <1>2, <2>4
    <2>7. \A i \in 1..n : table[i] = entry \/ table[i] = s[i]
      BY <2>4
    <2>8. CacheShape(t)
      BY <1>1, <2>3, <2>5, <2>6 DEF CacheShape
    <2>9. QED
      BY <2>3, <2>5, <2>7, <2>8
  <1>6. QED
    BY <1>4, <1>5 DEF t, n

LEMMA ExpiredResult ==
  ASSUME CacheShape(searchCache), NEW i \in 1..Len(searchCache)
  PROVE  LET t == RemoveAt(searchCache, i)
         IN  CacheShape(t) /\ \A m \in 1..Len(t) : \E k \in 1..Len(searchCache) : t[m] = searchCache[k]
  <1> DEFINE s == searchCache
             n == Len(s)
             t == RemoveAt(s, i)
             from == [m \in 1..(n - 1) |-> IF m < i THEN m ELSE m + 1]
  <1>1. s \in Seq(Entry) /\ n \in Nat /\ i \in 1..n /\ n <= MaxCached /\ MaxCached \in Nat
    BY SearchAssumption DEF CacheShape
  <1>2. t = SubSeq(s, 1, i - 1) \o SubSeq(s, i + 1, n)
    BY DEF RemoveAt
  <1>3. /\ SubSeq(s, 1, i - 1) \in Seq(Entry) /\ Len(SubSeq(s, 1, i - 1)) = i - 1
        /\ \A m \in 1..(i - 1) : SubSeq(s, 1, i - 1)[m] = s[m]
    BY <1>1
  <1>4. /\ SubSeq(s, i + 1, n) \in Seq(Entry) /\ Len(SubSeq(s, i + 1, n)) = n - i
        /\ \A m \in 1..(n - i) : SubSeq(s, i + 1, n)[m] = s[m + i]
    BY <1>1
  <1> HIDE DEF n, t
  <1>5. /\ t \in Seq(Entry) /\ Len(t) = n - 1
        /\ \A m \in 1..(n - 1) : t[m] = s[from[m]]
    <2> DEFINE a == SubSeq(s, 1, i - 1)
               b == SubSeq(s, i + 1, n)
    <2> HIDE DEF a, b
    <2>1. /\ a \in Seq(Entry) /\ b \in Seq(Entry) /\ t = a \o b
          /\ Len(a) = i - 1 /\ Len(b) = n - i
          /\ \A m \in 1..(i - 1) : a[m] = s[m]
          /\ \A m \in 1..(n - i) : b[m] = s[m + i]
      BY <1>2, <1>3, <1>4 DEF a, b
    <2>2. /\ t \in Seq(Entry) /\ Len(t) = Len(a) + Len(b)
          /\ \A m \in 1..Len(a) : t[m] = a[m]
          /\ \A m \in 1..Len(b) : t[Len(a) + m] = b[m]
      <3>1. a \in Seq(Entry) /\ b \in Seq(Entry)
        BY <2>1
      <3>2. /\ a \o b \in Seq(Entry) /\ Len(a \o b) = Len(a) + Len(b)
            /\ \A m \in 1..Len(a) : (a \o b)[m] = a[m]
            /\ \A m \in 1..Len(b) : (a \o b)[Len(a) + m] = b[m]
        BY <3>1, JoinResult
      <3>3. QED
        BY <2>1, <3>2
    <2>3. ASSUME NEW m \in 1..(n - 1) PROVE t[m] = s[from[m]]
      <3>1. CASE m < i
        <4>1. m \in 1..(i - 1)
          BY <1>1, <3>1
        <4>2. t[m] = s[m]
          BY <2>1, <2>2, <4>1
        <4>3. QED
          BY <3>1, <4>2
      <3>2. CASE ~(m < i)
        <4> DEFINE k == m - (i - 1)
        <4>1. k \in 1..(n - i) /\ Len(a) + k = m /\ k + i = m + 1
          BY <1>1, <2>1, <3>2
        <4> HIDE DEF k
        <4>2. t[m] = s[m + 1]
          BY <2>1, <2>2, <4>1
        <4>3. QED
          BY <3>2, <4>2
      <3>3. QED
        BY <3>1, <3>2
    <2>4. QED
      BY <1>1, <2>1, <2>2, <2>3
  <1>6. \A m \in 1..(n - 1) : from[m] \in 1..n
    BY <1>1
  <1>7. \A l, m \in 1..(n - 1) : from[l] = from[m] => l = m
    BY <1>1
  <1> HIDE DEF from
  <1>8. CacheShape(t)
    <2>1. n - 1 \in Nat /\ n - 1 <= MaxCached
      BY <1>1
    <2>2. \A l, m \in 1..(n - 1) : t[l].key = t[m].key => l = m
      <3>1. \A l, m \in 1..n : s[l].key = s[m].key => l = m
        BY DEF CacheShape, n
      <3>2. QED
        BY <1>5, <1>6, <1>7, <3>1
    <2>3. QED
      BY <1>5, <2>1, <2>2 DEF CacheShape
  <1>9. \A m \in 1..Len(t) : \E k \in 1..n : t[m] = s[k]
    BY <1>5, <1>6
  <1>10. QED
    BY <1>8, <1>9 DEF n, t

-----------------------------------------------------------------------------
(* The steps.  A change that is under way: what Unsettled speaks of.        *)
Loose(j) == /\ j.kind \in {"add", "remove", "clear"} /\ j.phase = "writing"
            /\ j.took > 0 \/ j.kind = "clear"

(* An entry that is to be believed was made of adapters that were alike,    *)
(* and answers from what they hold.                                         *)
EntryFresh(e, some, all) ==
    e.clean => some = all /\ Answers(e.key[1], e.options, some, e.results)

LEMMA HeldType ==
  ASSUME SearchTypeOK
  PROVE  /\ Held \subseteq Ids \X Contents /\ Everywhere \subseteq Held
         /\ \A x, y \in Everywhere : x[1] = y[1] => x = y
         /\ \A a \in Adapters :
               /\ StoredIds(a) \subseteq Ids
               /\ \A i \in Ids : store[a][i] # Nothing => <<i, store[a][i]>> \in Held
               /\ \A x \in Everywhere : x[1] \in StoredIds(a) /\ store[a][x[1]] = x[2]
  <1>1. 1 \in Adapters
    BY SearchAssumption DEF Adapters
  <1>2. \A a \in Adapters, i \in Ids : store[a][i] \in Contents \cup {Nothing}
    BY DEF SearchTypeOK
  <1>3. Held \subseteq Ids \X Contents /\ Everywhere \subseteq Held
    BY <1>1 DEF Held, Everywhere
  <1>4. ASSUME NEW x \in Everywhere, NEW a \in Adapters
        PROVE  /\ x \in Ids \X Contents /\ store[a][x[1]] = x[2]
               /\ x[1] \in StoredIds(a)
    BY SearchAssumption DEF Everywhere, StoredIds
  <1>5. ASSUME NEW x \in Everywhere, NEW y \in Everywhere, x[1] = y[1] PROVE x = y
    <2>1. x \in Ids \X Contents /\ y \in Ids \X Contents /\ x[2] = y[2]
      BY <1>1, <1>4, <1>5
    <2>2. x = <<x[1], x[2]>> /\ y = <<y[1], y[2]>>
      BY <2>1
    <2>3. QED
      BY <1>5, <2>1, <2>2
  <1>6. ASSUME NEW a \in Adapters, NEW i \in Ids, store[a][i] # Nothing
        PROVE  <<i, store[a][i]>> \in Held
    <2>1. <<i, store[a][i]>> \in Ids \X Contents
      BY <1>2, <1>6
    <2>2. QED
      BY <2>1 DEF Held
  <1>7. QED
    BY <1>3, <1>4, <1>5, <1>6 DEF StoredIds

(* What the adapters hold follows from the store.                           *)
LEMMA StoreStays ==
  ASSUME store' = store
  PROVE  Held' = Held /\ Everywhere' = Everywhere
  BY DEF Held, Everywhere, Adapters

(* One caller takes a step and the store stays.                             *)
LEMMA JobStep ==
  ASSUME SearchIInv, NEW c \in Users, NEW j \in Job, JobSound(j, Held, Everywhere),
         job' = [job EXCEPT ![c] = j], store' = store,
         orphans' \subseteq Adapters \X Ids \X (Contents \cup {Nothing}), dirty' \in BOOLEAN,
         CacheShape(searchCache'),
         \/ searchCache' = <<>>
         \/ /\ \A i \in 1..Len(searchCache') :
                  \/ EntryFresh(searchCache'[i], Held, Everywhere)
                  \/ \E k \in 1..Len(searchCache) : searchCache'[i] = searchCache[k]
            /\ dirty => dirty'
            /\ Loose(job[c]) => dirty' \/ Loose(j)
  PROVE  SearchIInv'
  <1>1. Held' = Held /\ Everywhere' = Everywhere
    BY StoreStays
  <1>2. SearchTypeOK'
    BY DEF SearchIInv, SearchTypeOK, CacheShape, Adapters
  <1>3. \A u \in Users : job'[u] = IF u = c THEN j ELSE job[u]
    BY DEF SearchIInv, SearchTypeOK
  <1>4. (\A u \in Users : JobSound(job[u], Held, Everywhere))'
    <2>1. \A u \in Users : JobSound(job'[u], Held, Everywhere)
      BY <1>3 DEF SearchIInv
    <2>2. QED
      BY <1>1, <2>1
  <1>5. CacheFresh'
    <2> SUFFICES ASSUME ~dirty', ~Unsettled', NEW i \in 1..Len(searchCache')
                 PROVE  EntryFresh(searchCache'[i], Held, Everywhere)
      BY <1>1 DEF CacheFresh, EntryFresh
    <2>1. 1..Len(<<>>) = {}
      OBVIOUS
    <2>2. /\ \/ EntryFresh(searchCache'[i], Held, Everywhere)
             \/ \E k \in 1..Len(searchCache) : searchCache'[i] = searchCache[k]
          /\ ~dirty /\ (Loose(job[c]) => Loose(j))
      BY <2>1
    <2>3. \A u \in Users : ~Loose(job'[u])
      BY DEF Unsettled, Loose
    <2>4. \A u \in Users : ~Loose(job[u])
      BY <1>3, <2>2, <2>3
    <2>5. ~Unsettled
      BY <2>4 DEF Unsettled, Loose
    <2>6. \A k \in 1..Len(searchCache) : EntryFresh(searchCache[k], Held, Everywhere)
      BY <2>2, <2>5 DEF SearchIInv, CacheFresh, EntryFresh
    <2>7. QED
      BY <2>2, <2>6
  <1>6. QED
    BY <1>2, <1>4, <1>5 DEF SearchIInv

(* A request is executed under the searches that are reading.  It is one of *)
(* a call that has still to end or an abandoned one, or changes nothing.    *)
LEMMA PutStep ==
  ASSUME SearchIInv, NEW a \in Adapters, NEW i \in Ids, NEW content \in Contents \cup {Nothing},
         NEW jobs \in [Users -> Job], \A u \in Users : JobSound(jobs[u], Held, Everywhere),
         Put(a, i, content, jobs), searchCache' = searchCache,
         orphans' \subseteq Adapters \X Ids \X (Contents \cup {Nothing}), dirty' \in BOOLEAN,
         \/ dirty'
         \/ \E u \in Users : Loose(jobs[u])
         \/ /\ content = store[a][i] /\ dirty' = dirty
            /\ \A u \in Users : Loose(job[u]) => Loose(jobs[u])
  PROVE  SearchIInv'
  <1> DEFINE now == [store EXCEPT ![a][i] = content]
             Shown(j) == [j EXCEPT !.seen = @ \cup Held', !.kept = @ \cap Everywhere']
  <1>1. /\ store' = now
        /\ job' = [u \in Users |-> IF jobs[u].phase \in {"reading", "reranking"}
                                   THEN Shown(jobs[u]) ELSE jobs[u]]
    BY DEF Put
  <1>2. store' \in [Adapters -> [Ids -> Contents \cup {Nothing}]]
    BY <1>1 DEF SearchIInv, SearchTypeOK
  <1>3. Held' \subseteq Ids \X Contents /\ Everywhere' \subseteq Ids \X Contents
    BY DEF Held, Everywhere
  <1> HIDE DEF now
  <1>4. ASSUME NEW j \in Job PROVE Shown(j) \in Job
    BY <1>3, <1>4 DEF Job
  <1>5. ASSUME NEW j \in Job, j.phase \in {"reading", "reranking"}, JobSound(j, Held, Everywhere)
        PROVE  JobSound(Shown(j), Held', Everywhere')
    <2> DEFINE t == Shown(j)
    <2>1. /\ t.kind = j.kind /\ t.phase = j.phase /\ t.query = j.query /\ t.options = j.options
          /\ t.id = j.id /\ t.content = j.content /\ t.todo = j.todo
          /\ t.found = j.found /\ t.results = j.results /\ t.missed = j.missed
          /\ t.seen = j.seen \cup Held' /\ t.kept = j.kept \cap Everywhere'
      BY DEF Job
    <2> HIDE DEF t
    <2>2. WellPosed(t)
      BY <1>5, <2>1 DEF JobSound, WellPosed
    <2>3. ReadSoFar(j) => ReadSoFar(t)
      BY <2>1 DEF ReadSoFar
    <2>4. Told(j, j.results) => Told(t, t.results)
      <3>1. \A x : Wanted(t, x) <=> Wanted(j, x)
        BY <2>1 DEF Wanted
      <3>2. QED
        BY <2>1, <3>1 DEF Told
    <2>5. JobSound(t, Held', Everywhere')
      BY <1>5, <2>1, <2>2, <2>3, <2>4 DEF JobSound
    <2>6. QED
      BY <2>5 DEF t
  <1>6. job' \in [Users -> Job]
    BY <1>1, <1>4
  <1>7. (\A u \in Users : JobSound(job[u], Held, Everywhere))'
    <2> SUFFICES ASSUME NEW u \in Users PROVE JobSound(job'[u], Held', Everywhere')
      OBVIOUS
    <2>1. CASE jobs[u].phase \in {"reading", "reranking"}
      BY <1>1, <1>5, <2>1
    <2>2. CASE jobs[u].phase \notin {"reading", "reranking"}
      <3>1. job'[u] = jobs[u]
        BY <1>1, <2>2
      <3>2. QED
        BY <2>2, <3>1 DEF JobSound
    <2>3. QED
      BY <2>1, <2>2
  <1>8. SearchTypeOK'
    BY <1>2, <1>6 DEF SearchIInv, SearchTypeOK, Adapters
  <1>9. CacheFresh'
    <2>1. ASSUME NEW u \in Users, Loose(jobs[u]) PROVE Loose(job'[u])
      BY <1>1, <2>1 DEF Loose
    <2>2. CASE dirty' \/ \E u \in Users : Loose(jobs[u])
      <3>1. dirty' \/ Unsettled'
        BY <2>1, <2>2 DEF Unsettled, Loose
      <3>2. QED
        BY <3>1 DEF CacheFresh
    <2>3. CASE /\ content = store[a][i] /\ dirty' = dirty
               /\ \A u \in Users : Loose(job[u]) => Loose(jobs[u])
      <3>1. store' = store
        BY <1>1, <2>3 DEF SearchIInv, SearchTypeOK, now
      <3>2. Held' = Held /\ Everywhere' = Everywhere
        BY <3>1, StoreStays
      <3>3. Unsettled => Unsettled'
        BY <2>1, <2>3 DEF Unsettled, Loose
      <3>4. QED
        BY <2>3, <3>2, <3>3 DEF SearchIInv, CacheFresh
    <2>4. QED
      BY <2>2, <2>3
  <1>10. QED
    BY <1>7, <1>8, <1>9 DEF SearchIInv

LEMMA JobTypes ==
  /\ NoJob \in Job
  /\ \A some, all : JobSound(NoJob, some, all)
  /\ \A phase \in JobPhases, query \in Queries, options \in Settings, results \in Seq(Answer) :
        [NoJob EXCEPT !.kind = "search", !.phase = phase, !.query = query, !.options = options,
                      !.results = results] \in Job
  <1>1. <<>> \in Seq(Ids) /\ <<>> \in Seq([id : Ids, content : Contents]) /\ <<>> \in Seq(Answer)
    OBVIOUS
  <1>2. NoJob \in Job
    <2>1. {} \in SUBSET Adapters /\ 0 \in Nat /\ {} \in SUBSET (Ids \X Contents)
      OBVIOUS
    <2>2. QED
      BY <1>1, <2>1 DEF NoJob, Job, JobKinds, JobPhases
  <1>3. ASSUME NEW some, NEW all PROVE JobSound(NoJob, some, all)
    BY DEF NoJob, JobSound, WellPosed
  <1>4. ASSUME NEW phase \in JobPhases, NEW query \in Queries, NEW options \in Settings,
               NEW results \in Seq(Answer)
        PROVE  [NoJob EXCEPT !.kind = "search", !.phase = phase, !.query = query,
                             !.options = options, !.results = results] \in Job
    BY <1>1 DEF NoJob, Job, JobKinds
  <1>5. QED
    BY <1>2, <1>3, <1>4

(* A search that is done or waits for its embedding or its keys.            *)
LEMMA PlainSearch ==
  ASSUME NEW j \in Job, j.kind = "search", j.phase \in {"embedding", "listing", "done"},
         j.phase = "done" \/ j.found = <<>>,
         j.query \in Queries, j.options \in Settings, NEW some, NEW all
  PROVE  JobSound(j, some, all)
  BY DEF JobSound, WellPosed

LEMMA AnsweredResult ==
  ASSUME NEW asked, asked.query \in Queries, asked.options \in Settings,
         NEW results \in Seq(Answer), NEW some, NEW all
  PROVE  /\ Answered(asked, results) \in Job
         /\ JobSound(Answered(asked, results), some, all)
         /\ Answered(asked, results).phase = "done"
         /\ Answered(asked, results).results = results
  <1> DEFINE j == Answered(asked, results)
  <1>1. /\ j.kind = "search" /\ j.phase = "done" /\ j.results = results
        /\ j.query = asked.query /\ j.options = asked.options
    BY DEF Answered, NoJob
  <1>2. j \in Job
    <2>1. "done" \in JobPhases
      BY DEF JobPhases
    <2>2. QED
      BY <2>1, JobTypes DEF Answered
  <1> HIDE DEF j
  <1>3. JobSound(j, some, all)
    BY <1>1, <1>2, PlainSearch
  <1>4. QED
    BY <1>1, <1>2, <1>3 DEF j

LEMMA JobFacts ==
  ASSUME SearchIInv, NEW c \in Users
  PROVE  /\ job[c] \in Job /\ JobSound(job[c], Held, Everywhere)
         /\ CacheShape(searchCache) /\ dirty \in BOOLEAN
         /\ orphans \subseteq Adapters \X Ids \X (Contents \cup {Nothing})
         /\ job[c].kind = "search" => job[c].query \in Queries /\ job[c].options \in Settings
  BY DEF SearchIInv, SearchTypeOK, CacheShape, JobSound, WellPosed

(* One caller takes a step and nothing else changes.                        *)
LEMMA QuietStep ==
  ASSUME SearchIInv, NEW c \in Users, NEW j \in Job, JobSound(j, Held, Everywhere),
         Loose(job[c]) => Loose(j), job' = [job EXCEPT ![c] = j],
         store' = store, searchCache' = searchCache, orphans' = orphans, dirty' = dirty
  PROVE  SearchIInv'
  <1>1. /\ CacheShape(searchCache) /\ dirty \in BOOLEAN
        /\ orphans \subseteq Adapters \X Ids \X (Contents \cup {Nothing})
    BY JobFacts
  <1>2. /\ CacheShape(searchCache') /\ dirty' \in BOOLEAN
        /\ orphans' \subseteq Adapters \X Ids \X (Contents \cup {Nothing})
    BY <1>1
  <1>3. \A i \in 1..Len(searchCache') :
           \E k \in 1..Len(searchCache) : searchCache'[i] = searchCache[k]
    OBVIOUS
  <1>4. (dirty => dirty') /\ (Loose(job[c]) => dirty' \/ Loose(j))
    OBVIOUS
  <1>5. QED
    BY <1>2, <1>3, <1>4, JobStep

(* A call that throws.                                                      *)
LEMMA FailsStep ==
  ASSUME SearchIInv, NEW c \in Users, Fails(c), ~Loose(job[c])
  PROVE  SearchIInv'
  <1>1. /\ job' = [job EXCEPT ![c] = NoJob] /\ store' = store /\ searchCache' = searchCache
        /\ orphans' = orphans /\ dirty' = dirty
    BY DEF Fails
  <1>2. QED
    BY <1>1, JobStep, JobFacts, JobTypes

LEMMA ResolveType ==
  ASSUME NEW options \in Options PROVE Resolve(options) \in Settings
  BY SearchAssumption DEF Resolve, Settings, Or, Lesser

LEMMA StartSearchStep ==
  ASSUME SearchIInv, NEW c \in Users, NEW query \in Queries, NEW options \in Options,
         StartSearch(c, query, options)
  PROVE  SearchIInv'
  <1> DEFINE resolved == Resolve(options)
             asked == [NoJob EXCEPT !.kind = "search", !.query = query, !.options = resolved]
             going == [asked EXCEPT !.phase = "embedding"]
             entries == EntriesOf(CacheKey(query, resolved))
  <1>1. resolved \in Settings
    BY ResolveType
  <1> HIDE DEF resolved
  <1>2. asked.query = query /\ asked.options = resolved
    BY DEF NoJob
  <1>3. /\ going.kind = "search" /\ going.phase = "embedding"
        /\ going.query = query /\ going.options = resolved /\ going.found = <<>>
    BY DEF NoJob
  <1>4. going \in Job
    <2>1. <<>> \in Seq(Ids) /\ <<>> \in Seq([id : Ids, content : Contents]) /\ <<>> \in Seq(Answer)
      OBVIOUS
    <2>2. QED
      BY <1>1, <2>1 DEF NoJob, Job, JobKinds, JobPhases
  <1>5. entries \subseteq 1..Len(searchCache)
    BY DEF EntriesOf
  <1>6. /\ \/ \E i \in entries :
                \/ job' = [job EXCEPT ![c] = Answered(asked, searchCache[i].results)]
                      /\ searchCache' = searchCache
                \/ searchCache' = RemoveAt(searchCache, i) /\ job' = [job EXCEPT ![c] = going]
           \/ job' = [job EXCEPT ![c] = going] /\ searchCache' = searchCache
        /\ store' = store /\ orphans' = orphans /\ dirty' = dirty
        /\ ~Loose(job[c])
    BY DEF StartSearch, resolved, Idle, Loose
  <1> HIDE DEF asked, going, entries
  <1>7. JobSound(going, Held, Everywhere)
    BY <1>1, <1>3, <1>4, PlainSearch
  <1>8. CASE searchCache' = searchCache /\ job' = [job EXCEPT ![c] = going]
    BY <1>4, <1>6, <1>7, <1>8, JobStep, JobFacts
  <1>9. ASSUME NEW i \in entries, searchCache' = searchCache,
               job' = [job EXCEPT ![c] = Answered(asked, searchCache[i].results)]
        PROVE  SearchIInv'
    <2>1. searchCache[i].results \in Seq(Answer)
      <3>1. searchCache[i] \in Entry
        BY <1>5 DEF SearchIInv, SearchTypeOK
      <3>2. QED
        BY <3>1 DEF Entry
    <2>2. /\ Answered(asked, searchCache[i].results) \in Job
          /\ JobSound(Answered(asked, searchCache[i].results), Held, Everywhere)
      BY <1>1, <1>2, <2>1, AnsweredResult
    <2>3. QED
      BY <1>6, <1>9, <2>2, JobStep, JobFacts
  <1>10. ASSUME NEW i \in entries, searchCache' = RemoveAt(searchCache, i),
                job' = [job EXCEPT ![c] = going]
         PROVE  SearchIInv'
    <2>1. /\ CacheShape(searchCache')
          /\ \A m \in 1..Len(searchCache') :
                \E k \in 1..Len(searchCache) : searchCache'[m] = searchCache[k]
      BY <1>5, <1>10, ExpiredResult, JobFacts
    <2>2. QED
      BY <1>4, <1>6, <1>7, <1>10, <2>1, JobStep, JobFacts
  <1>11. QED
    BY <1>6, <1>8, <1>9, <1>10

LEMMA QueryEmbeddedStep ==
  ASSUME SearchIInv, NEW c \in Users, QueryEmbedded(c)
  PROVE  SearchIInv'
  <1>0. job[c].kind = "search" /\ job[c].phase = "embedding" /\ ~Loose(job[c])
    BY DEF QueryEmbedded, Searching, Loose
  <1>1. CASE Fails(c)
    BY <1>0, <1>1, FailsStep
  <1>2. CASE /\ job' = [job EXCEPT ![c].phase = "listing"]
             /\ UNCHANGED <<store, searchCache, orphans, dirty>>
    <2> DEFINE j == [job[c] EXCEPT !.phase = "listing"]
    <2>0. job[c] \in Job /\ job[c].found = <<>>
      BY <1>0, JobFacts DEF JobSound, WellPosed
    <2>1. j \in Job /\ j.kind = "search" /\ j.phase = "listing"
             /\ j.query = job[c].query /\ j.options = job[c].options /\ j.found = <<>>
      BY <1>0, <2>0 DEF Job, JobPhases
    <2>2. JobSound(j, Held, Everywhere)
      <3> HIDE DEF j
      <3>1. QED
        BY <1>0, <2>1, PlainSearch, JobFacts
    <2>3. job' = [job EXCEPT ![c] = j]
      BY <1>2
    <2> HIDE DEF j
    <2>4. QED
      BY <1>0, <1>2, <2>1, <2>2, <2>3, JobStep, JobFacts
  <1>3. QED
    BY <1>1, <1>2 DEF QueryEmbedded

(* The keys of the contexts that an adapter holds now.                      *)
LEMMA TodoResult ==
  ASSUME SearchIInv, NEW a \in Adapters
  PROVE  LET todo == Keep(IdOrder, StoredIds(a))
         IN todo \in Seq(Ids) /\ IsInjective(todo) /\ ToSet(todo) = StoredIds(a)
  <1>1. IdOrder \in Seq(Ids) /\ ToSet(IdOrder) = Ids /\ IsInjective(IdOrder)
    BY SearchAssumption
  <1>2. StoredIds(a) \subseteq Ids
    BY DEF StoredIds
  <1>3. /\ Keep(IdOrder, StoredIds(a)) \in Seq(Ids)
        /\ ToSet(Keep(IdOrder, StoredIds(a))) = ToSet(IdOrder) \cap StoredIds(a)
        /\ IsInjective(Keep(IdOrder, StoredIds(a)))
    BY <1>1, KeepResult
  <1>4. QED
    BY <1>1, <1>2, <1>3

LEMMA KeysListedStep ==
  ASSUME SearchIInv, NEW c \in Users, KeysListed(c)
  PROVE  SearchIInv'
  <1>0. job[c].kind = "search" /\ job[c].phase = "listing" /\ ~Loose(job[c])
    BY DEF KeysListed, Searching, Loose
  <1>1. CASE Fails(c)
    BY <1>0, <1>1, FailsStep
  <1>2. ASSUME NEW a \in Adapters, UNCHANGED <<store, searchCache, orphans, dirty>>,
               StoredIds(a) = {}, job' = [job EXCEPT ![c] = Answered(job[c], <<>>)]
        PROVE  SearchIInv'
    <2>1. /\ Answered(job[c], <<>>) \in Job
          /\ JobSound(Answered(job[c], <<>>), Held, Everywhere)
      BY <1>0, AnsweredResult, JobFacts, EmptyList
    <2>2. QED
      BY <1>0, <1>2, <2>1, QuietStep
  <1>3. ASSUME NEW a \in Adapters, UNCHANGED <<store, searchCache, orphans, dirty>>,
               StoredIds(a) # {},
               job' = [job EXCEPT ![c] = [job[c] EXCEPT !.phase = "reading", !.seen = Held,
                                            !.kept = Everywhere,
                                            !.todo = Keep(IdOrder, StoredIds(a))]]
        PROVE  SearchIInv'
    <2> DEFINE todo == Keep(IdOrder, StoredIds(a))
               j == [job[c] EXCEPT !.phase = "reading", !.seen = Held, !.kept = Everywhere,
                                   !.todo = todo]
    <2>1. todo \in Seq(Ids) /\ IsInjective(todo) /\ ToSet(todo) = StoredIds(a)
      BY TodoResult
    <2>2. SearchTypeOK
      BY DEF SearchIInv
    <2>3. /\ Held \subseteq Ids \X Contents /\ Everywhere \subseteq Ids \X Contents
          /\ \A x \in Everywhere : x[1] \in StoredIds(a)
      BY <2>2, HeldType
    <2>4. job' = [job EXCEPT ![c] = j]
      BY <1>3
    <2> HIDE DEF todo
    <2>5. job[c] \in Job
      BY JobFacts
    <2>6. j \in Job /\ j.kind = "search" /\ j.phase = "reading"
             /\ j.query = job[c].query /\ j.options = job[c].options /\ j.todo = todo
             /\ j.seen = Held /\ j.kept = Everywhere /\ j.found = job[c].found
      BY <1>0, <2>1, <2>3, <2>5 DEF Job, JobPhases
    <2> HIDE DEF j
    <2>7. ReadSoFar(j)
      <3>1. j.found = <<>> /\ Len(<<>>) = 0 /\ 1..0 = {}
        BY <1>0, <2>6, JobFacts DEF JobSound, WellPosed
      <3>2. QED
        BY <2>1, <2>3, <2>6, <3>1 DEF ReadSoFar
    <2>8. JobSound(j, Held, Everywhere)
      BY <1>0, <2>6, <2>7, JobFacts DEF JobSound, WellPosed
    <2>9. QED
      BY <1>0, <1>3, <2>4, <2>6, <2>8, QuietStep
  <1>4. QED
    <2>1. CASE ~Fails(c)
      <3>1. PICK a \in Adapters :
               /\ UNCHANGED <<store, searchCache, orphans, dirty>>
               /\ job' = [job EXCEPT ![c] =
                            IF StoredIds(a) = {} THEN Answered(job[c], <<>>)
                            ELSE [job[c] EXCEPT !.phase = "reading", !.seen = Held,
                                    !.kept = Everywhere, !.todo = Keep(IdOrder, StoredIds(a))]]
        BY <2>1 DEF KeysListed
      <3>2. CASE StoredIds(a) = {}
        <4>1. job' = [job EXCEPT ![c] = Answered(job[c], <<>>)]
          BY <3>1, <3>2
        <4>2. QED
          BY <1>2, <3>1, <3>2, <4>1
      <3>3. CASE StoredIds(a) # {}
        <4>1. job' = [job EXCEPT ![c] = [job[c] EXCEPT !.phase = "reading", !.seen = Held,
                                           !.kept = Everywhere,
                                           !.todo = Keep(IdOrder, StoredIds(a))]]
          BY <3>1, <3>3
        <4>2. QED
          BY <1>3, <3>1, <3>3, <4>1
      <3>4. QED
        BY <3>2, <3>3
    <2>2. QED
      BY <1>1, <2>1

(* What becomes of a search that has read one more context: it was found at *)
(* an adapter, or it is left out, which tells nothing of it if the adapter  *)
(* asked last holds it.                                                     *)
LEMMA ReadOne ==
  ASSUME SearchIInv, NEW o \in Job, ReadSoFar(o), o.todo # <<>>,
         Held \subseteq o.seen, o.kept \subseteq Everywhere,
         NEW a \in Adapters, NEW answer, NEW j, ReadSoFar(o),
         answer \in {store[a][Head(o.todo)], Nothing},
         j.todo = Tail(o.todo), j.seen = o.seen, j.kept = o.kept,
         j.missed = (o.missed \/ answer # store[a][Head(o.todo)]),
         j.found = IF answer = Nothing THEN o.found
                   ELSE Append(o.found, [id |-> Head(o.todo), content |-> answer])
  PROVE  ReadSoFar(j) /\ j.todo \in Seq(Ids) /\ j.found \in Seq(Found)
  <1> DEFINE i == Head(o.todo)
             read == j.found
  <1>4. /\ o.todo \in Seq(Ids) /\ i \in Ids /\ Tail(o.todo) \in Seq(Ids)
        /\ o.found \in Seq(Found) /\ o.missed \in BOOLEAN
    BY DEF Job, Found
  <1>5. SearchTypeOK
    BY DEF SearchIInv
  <1>6. store[a][i] \in Contents \cup {Nothing} /\ (answer # Nothing => answer = store[a][i])
    BY <1>4, <1>5 DEF SearchTypeOK
  <1>7. /\ IsInjective(Tail(o.todo)) /\ i \notin ToSet(Tail(o.todo))
        /\ ToSet(o.todo) = ToSet(Tail(o.todo)) \cup {i}
    BY <1>4, TailResult DEF ReadSoFar
  <1> HIDE DEF i
  <1>8. /\ read \in Seq(Found)
        /\ answer = Nothing => read = o.found
        /\ answer # Nothing => /\ Len(read) = Len(o.found) + 1
                               /\ \A k \in 1..Len(o.found) : read[k] = o.found[k]
                               /\ read[Len(o.found) + 1] = [id |-> i, content |-> answer]
    <2>1. CASE answer = Nothing
      BY <1>4, <2>1
    <2>2. CASE answer # Nothing
      <3> DEFINE x == [id |-> i, content |-> answer]
      <3>1. x \in Found /\ read = Append(o.found, x)
        BY <1>4, <1>6, <2>2 DEF Found, i
      <3> HIDE DEF x, read
      <3>2. QED
        BY <1>4, <2>2, <3>1 DEF x
    <2>3. QED
      BY <2>1, <2>2
  <1>9. j.todo = Tail(o.todo) /\ j.missed = (o.missed \/ answer # store[a][i])
    BY DEF i
  <1>10. /\ \A x \in Everywhere : store[a][x[1]] = x[2] /\ store[a][x[1]] # Nothing
         /\ answer # Nothing => <<i, answer>> \in Held
    BY <1>4, <1>5, <1>6, HeldType DEF StoredIds
  <1> HIDE DEF read
  <1>11. ReadSoFar(j)
    <2>1. CASE answer = Nothing
      <3>1. ASSUME NEW x \in j.kept, ~j.missed, x[1] = i PROVE FALSE
        BY <1>9, <1>10, <2>1, <3>1
      <3>2. j.found = o.found
        BY <1>8, <2>1 DEF read
      <3>3. \A x \in j.kept : \/ j.missed \/ x[1] \in ToSet(j.todo)
                              \/ \E k \in 1..Len(j.found) :
                                    j.found[k] = [id |-> x[1], content |-> x[2]]
        <4> SUFFICES ASSUME NEW x \in j.kept, ~j.missed, x[1] \notin ToSet(j.todo)
                     PROVE  \E k \in 1..Len(o.found) :
                               o.found[k] = [id |-> x[1], content |-> x[2]]
          BY <3>2
        <4>1. x \in o.kept /\ ~o.missed /\ x[1] \notin ToSet(o.todo)
          BY <1>7, <1>9, <3>1
        <4>2. QED
          BY <4>1 DEF ReadSoFar
      <3>4. \A k \in 1..Len(j.found) : /\ j.found[k].id \notin ToSet(j.todo)
                                       /\ <<j.found[k].id, j.found[k].content>> \in j.seen
        BY <1>7, <1>9, <3>2 DEF ReadSoFar
      <3>5. QED
        BY <1>7, <1>9, <3>2, <3>3, <3>4 DEF ReadSoFar
    <2>2. CASE answer # Nothing
      <3> DEFINE n == Len(o.found)
      <3>1. n \in Nat /\ \A k \in 1..(n + 1) : k \in 1..n \/ k = n + 1
        BY <1>4
      <3>2. /\ Len(read) = n + 1 /\ \A k \in 1..n : read[k] = o.found[k]
            /\ read[n + 1].id = i /\ read[n + 1].content = answer
            /\ read[n + 1] = [id |-> i, content |-> answer]
        BY <1>8, <2>2
      <3> HIDE DEF n
      <3>3. <<i, answer>> \in Held
        BY <1>10, <2>2
      <3>4. \A k \in 1..n : /\ o.found[k].id \notin ToSet(o.todo)
                            /\ <<o.found[k].id, o.found[k].content>> \in o.seen
        BY DEF ReadSoFar, n
      <3>5. \A k, m \in 1..n : o.found[k].id = o.found[m].id => k = m
        BY DEF ReadSoFar, n
      <3>6. \A k \in 1..(n + 1) : /\ read[k].id \notin ToSet(j.todo)
                                  /\ <<read[k].id, read[k].content>> \in j.seen
        BY <1>7, <1>9, <3>1, <3>2, <3>3, <3>4
      <3>7. ASSUME NEW k \in 1..(n + 1), NEW m \in 1..(n + 1), read[k].id = read[m].id
            PROVE  k = m
        <4>1. i \in ToSet(o.todo)
          BY <1>7
        <4>2. \A h \in 1..n : read[h].id # i
          BY <3>2, <3>4, <4>1
        <4>3. CASE k \in 1..n /\ m \in 1..n
          BY <3>2, <3>5, <3>7, <4>3
        <4>4. QED
          BY <3>1, <3>2, <3>7, <4>2, <4>3
      <3>8. ASSUME NEW x \in j.kept, ~j.missed, x[1] \notin ToSet(j.todo)
            PROVE  \E k \in 1..(n + 1) : read[k] = [id |-> x[1], content |-> x[2]]
        <4>1. CASE x[1] = i
          <5>1. answer = x[2]
            BY <1>6, <1>10, <2>2, <3>8, <4>1
          <5>2. n + 1 \in 1..(n + 1)
            BY <3>1
          <5>3. QED
            BY <3>2, <4>1, <5>1, <5>2
        <4>2. CASE x[1] # i
          <5>1. x \in o.kept /\ ~o.missed /\ x[1] \notin ToSet(o.todo)
            BY <1>7, <1>9, <3>8, <4>2
          <5>2. PICK k \in 1..n : o.found[k] = [id |-> x[1], content |-> x[2]]
            BY <5>1 DEF ReadSoFar, n
          <5>3. k \in 1..(n + 1) /\ read[k] = o.found[k]
            BY <3>1, <3>2
          <5>4. QED
            BY <5>2, <5>3
        <4>3. QED
          BY <4>1, <4>2
      <3>9. QED
        BY <1>7, <1>9, <3>2, <3>6, <3>7, <3>8 DEF ReadSoFar, read
    <2>3. QED
      BY <2>1, <2>2
  <1>12. QED
    BY <1>4, <1>8, <1>9, <1>11 DEF read

LEMMA ContextReadStep ==
  ASSUME SearchIInv, NEW c \in Users, ContextRead(c)
  PROVE  SearchIInv'
  <1> DEFINE o == job[c]
             i == Head(o.todo)
  <1>0. o.kind = "search" /\ o.phase = "reading" /\ o.todo # <<>> /\ ~Loose(job[c])
    BY DEF ContextRead, Searching, Loose
  <1>1. /\ o \in Job /\ WellPosed(o) /\ ReadSoFar(o)
        /\ Held \subseteq o.seen /\ o.kept \subseteq Everywhere
    BY <1>0, JobFacts DEF JobSound
  <1>2. CASE Fails(c)
    BY <1>0, <1>2, FailsStep
  <1>3. ASSUME NEW a \in Adapters, UNCHANGED <<store, searchCache, orphans, dirty>>,
               job' = [job EXCEPT ![c].asked = a]
        PROVE  SearchIInv'
    <2> DEFINE j == [o EXCEPT !.asked = a]
    <2>1. job' = [job EXCEPT ![c] = j]
      BY <1>3
    <2> HIDE DEF o
    <2>2. /\ j \in Job /\ j.kind = o.kind /\ j.phase = o.phase /\ j.query = o.query
          /\ j.options = o.options /\ j.id = o.id /\ j.todo = o.todo /\ j.found = o.found
          /\ j.seen = o.seen /\ j.kept = o.kept /\ j.missed = o.missed
      <3>1. a \in Nat
        BY SearchAssumption DEF Adapters
      <3>2. QED
        BY <1>1, <3>1 DEF Job
    <2> HIDE DEF j
    <2>3. ReadSoFar(j)
      BY <1>1, <2>2 DEF ReadSoFar
    <2>4. JobSound(j, Held, Everywhere)
      BY <1>0, <1>1, <2>2, <2>3 DEF JobSound, WellPosed
    <2>5. QED
      BY <1>0, <1>3, <2>1, <2>2, <2>4, QuietStep
  <1>4. ASSUME NEW a \in Adapters, UNCHANGED <<store, searchCache, orphans, dirty>>,
               NEW answer, answer \in {store[a][i], Nothing},
               job' = [job EXCEPT ![c] =
                         [o EXCEPT !.todo = Tail(@), !.asked = 0,
                            !.found = IF answer = Nothing THEN o.found
                                      ELSE Append(o.found, [id |-> i, content |-> answer]),
                            !.missed = (o.missed \/ answer # store[a][i])]]
        PROVE  SearchIInv'
    <2> DEFINE read == IF answer = Nothing THEN o.found
                       ELSE Append(o.found, [id |-> i, content |-> answer])
               rest == Tail(o.todo)
               left == (o.missed \/ answer # store[a][i])
               j == [o EXCEPT !.todo = rest, !.asked = 0, !.found = read, !.missed = left]
    <2>1. job' = [job EXCEPT ![c] = j]
      BY <1>4
    <2> HIDE DEF o, read, left, rest
    <2>2. left \in BOOLEAN /\ o.missed \in BOOLEAN
      BY <1>1 DEF Job, left
    <2>3. /\ j.kind = o.kind /\ j.phase = o.phase /\ j.query = o.query
          /\ j.options = o.options /\ j.id = o.id /\ j.todo = rest /\ j.found = read
          /\ j.seen = o.seen /\ j.kept = o.kept /\ j.missed = left
      BY <1>1 DEF Job
    <2>4. ReadSoFar(j) /\ rest \in Seq(Ids) /\ read \in Seq(Found)
      <3> HIDE DEF j
      <3>1. /\ j.todo = Tail(o.todo) /\ j.missed = (o.missed \/ answer # store[a][Head(o.todo)])
            /\ j.found = IF answer = Nothing THEN o.found
                         ELSE Append(o.found, [id |-> Head(o.todo), content |-> answer])
        BY <2>3 DEF read, left, rest
      <3>2. ReadSoFar(j) /\ j.todo \in Seq(Ids) /\ j.found \in Seq(Found)
        BY <1>0, <1>1, <1>4, <2>3, <3>1, ReadOne DEF o
      <3>3. QED
        BY <2>3, <3>2
    <2>5. j \in Job
      BY <1>1, <2>2, <2>4 DEF Job, Found
    <2> HIDE DEF j
    <2>6. JobSound(j, Held, Everywhere)
      BY <1>0, <1>1, <2>3, <2>4 DEF JobSound, WellPosed, o
    <2>7. QED
      BY <1>0, <1>4, <2>1, <2>5, <2>6, QuietStep
  <1>5. ASSUME ~Fails(c)
        PROVE  \E a \in Adapters :
                 /\ UNCHANGED <<store, searchCache, orphans, dirty>>
                 /\ \/ job' = [job EXCEPT ![c].asked = a]
                    \/ \E answer \in {store[a][i], Nothing} :
                          job' = [job EXCEPT ![c] =
                            [o EXCEPT !.todo = Tail(@), !.asked = 0,
                               !.found = IF answer = Nothing THEN o.found
                                         ELSE Append(o.found, [id |-> i, content |-> answer]),
                               !.missed = (o.missed \/ answer # store[a][i])]]
    <2>1. PICK a \in Adapters :
             /\ UNCHANGED <<store, searchCache, orphans, dirty>>
             /\ \/ /\ store[a][i] # Nothing
                   /\ job' = [job EXCEPT ![c].todo = Tail(@), ![c].asked = 0,
                                ![c].found = Append(@, [id |-> i, content |-> store[a][i]])]
                \/ job' = [job EXCEPT ![c].asked = a]
                \/ job' = [job EXCEPT ![c].todo = Tail(@), ![c].asked = 0,
                                       ![c].missed = @ \/ store[a][i] # Nothing]
      BY <1>5 DEF ContextRead
    <2>2. ASSUME store[a][i] # Nothing,
                 job' = [job EXCEPT ![c].todo = Tail(@), ![c].asked = 0,
                           ![c].found = Append(@, [id |-> i, content |-> store[a][i]])]
          PROVE  LET answer == store[a][i] IN
                 job' = [job EXCEPT ![c] =
                   [o EXCEPT !.todo = Tail(@), !.asked = 0,
                      !.found = IF answer = Nothing THEN o.found
                                ELSE Append(o.found, [id |-> i, content |-> answer]),
                      !.missed = (o.missed \/ answer # store[a][i])]]
      <3>1. o.missed \in BOOLEAN
        BY <1>1 DEF Job
      <3>2. [o EXCEPT !.todo = Tail(@), !.asked = 0,
                      !.found = Append(o.found, [id |-> i, content |-> store[a][i]]),
                      !.missed = o.missed]
            = [o EXCEPT !.todo = Tail(@), !.asked = 0,
                        !.found = Append(o.found, [id |-> i, content |-> store[a][i]])]
        BY <1>1 DEF Job
      <3>3. (o.missed \/ store[a][i] # store[a][i]) = o.missed
        BY <3>1
      <3>4. job' = [job EXCEPT ![c] =
                      [o EXCEPT !.todo = Tail(@), !.asked = 0,
                         !.found = Append(o.found, [id |-> i, content |-> store[a][i]])]]
        BY <2>2
      <3>5. QED
        BY <2>2, <3>2, <3>3, <3>4
    <2>3. ASSUME job' = [job EXCEPT ![c].todo = Tail(@), ![c].asked = 0,
                                    ![c].missed = @ \/ store[a][i] # Nothing]
          PROVE  job' = [job EXCEPT ![c] =
                   [o EXCEPT !.todo = Tail(@), !.asked = 0, !.found = o.found,
                             !.missed = (o.missed \/ Nothing # store[a][i])]]
      <3>1. [o EXCEPT !.todo = Tail(@), !.asked = 0, !.found = o.found,
                      !.missed = (o.missed \/ Nothing # store[a][i])]
            = [o EXCEPT !.todo = Tail(@), !.asked = 0,
                        !.missed = (o.missed \/ store[a][i] # Nothing)]
        BY <1>1 DEF Job
      <3>2. QED
        BY <2>3, <3>1
    <2>4. QED
      BY <2>1, <2>2, <2>3
  <1>6. QED
    <2>1. CASE ~Fails(c)
      BY <1>3, <1>4, <1>5, <2>1
    <2>2. QED
      BY <1>2, <2>1

(* A search ends with results that tell what they must, and they are cached.*)
LEMMA FinishSearchStep ==
  ASSUME SearchIInv, NEW c \in Users, job[c].phase \in {"reading", "reranking"},
         NEW results \in Seq(Answer), Told(job[c], results), FinishSearch(c, results)
  PROVE  SearchIInv'
  <1> DEFINE o == job[c]
             entry == [key |-> CacheKey(o.query, o.options), options |-> o.options,
                       results |-> results, clean |-> o.seen = o.kept /\ ~o.missed]
             j == Answered(o, results)
  <1>1. /\ o \in Job /\ WellPosed(o) /\ CacheShape(searchCache)
        /\ dirty \in BOOLEAN /\ orphans \subseteq Adapters \X Ids \X (Contents \cup {Nothing})
        /\ Held \subseteq o.seen /\ o.kept \subseteq Everywhere
    BY JobFacts DEF JobSound
  <1>2. o.kind = "search" /\ o.query \in Queries /\ o.options \in Settings /\ ~Loose(job[c])
    BY <1>1 DEF WellPosed, Loose
  <1>3. /\ job' = [job EXCEPT ![c] = j] /\ store' = store /\ orphans' = orphans
        /\ dirty' = dirty
        /\ searchCache' = IF ~EnableCaching THEN searchCache ELSE CachedWith(entry)
    BY DEF FinishSearch
  <1>4. j \in Job /\ JobSound(j, Held, Everywhere)
    BY <1>2, AnsweredResult
  <1>5. entry \in Entry
    <2>1. CacheKey(o.query, o.options) \in Queries \X (Nat \ {0}) \X Int \X BOOLEAN
      BY <1>2 DEF CacheKey, Settings
    <2>2. QED
      BY <1>2, <2>1 DEF Entry
  <1>6. EntryFresh(entry, Held, Everywhere)
    <2>1. /\ entry.key[1] = o.query /\ entry.options = o.options /\ entry.results = results
          /\ entry.clean = (o.seen = o.kept /\ ~o.missed)
      BY DEF CacheKey
    <2>2. SearchTypeOK
      BY DEF SearchIInv
    <2>3. /\ Held \subseteq Ids \X Contents /\ Everywhere \subseteq Held
          /\ \A x, y \in Everywhere : x[1] = y[1] => x = y
      BY <2>2, HeldType
    <2> HIDE DEF entry, o
    <2>4. ASSUME o.seen = o.kept, ~o.missed
          PROVE  Held = Everywhere /\ Answers(o.query, o.options, Held, results)
      <3>1. o.seen = Held /\ o.kept = Held /\ Held = Everywhere
        BY <1>1, <2>3, <2>4
      <3>2. Told(o, results)
        BY DEF o
      <3>3. QED
        BY <1>2, <2>3, <2>4, <3>1, <3>2, ToldAnswers
    <2>5. QED
      BY <2>1, <2>4 DEF EntryFresh
  <1> HIDE DEF entry, j
  <1>7. CASE ~EnableCaching
    <2>1. searchCache' = searchCache
      BY <1>3, <1>7
    <2>2. QED
      BY <1>2, <1>3, <1>4, <2>1, QuietStep
  <1>8. CASE EnableCaching
    <2>1. searchCache' = CachedWith(entry)
      BY <1>3, <1>8
    <2>2. /\ CacheShape(searchCache')
          /\ \A i \in 1..Len(searchCache') :
                \/ EntryFresh(searchCache'[i], Held, Everywhere)
                \/ \E k \in 1..Len(searchCache) : searchCache'[i] = searchCache[k]
      BY <1>1, <1>5, <1>6, <2>1, CachedWithResult
    <2>3. orphans' \subseteq Adapters \X Ids \X (Contents \cup {Nothing}) /\ dirty' \in BOOLEAN
      BY <1>1, <1>3
    <2>4. (dirty => dirty') /\ (Loose(job[c]) => dirty' \/ Loose(j))
      BY <1>2, <1>3
    <2>5. QED
      BY <1>3, <1>4, <2>2, <2>3, <2>4, JobStep
  <1>9. QED
    BY <1>7, <1>8

(* What a search that has read everything may answer.                       *)
LEMMA ContextsReadTells ==
  ASSUME SearchIInv, NEW c \in Users, ContextsRead(c)
  PROVE  \/ Fails(c)
         \/ \E results \in Seq(Answer) :
               /\ Told(job[c], results)
               /\ \/ FinishSearch(c, results)
                  \/ /\ \/ results = <<>> /\ job' = [job EXCEPT ![c] = Answered(job[c], <<>>)]
                        \/ job' = [job EXCEPT ![c].phase = "reranking", ![c].found = <<>>,
                                              ![c].results = results]
                     /\ UNCHANGED <<store, searchCache, orphans, dirty>>
  <1> DEFINE o == job[c]
             filtered == Keep(o.found, {x \in ToSet(o.found) :
                                          x.content \in Passes[o.options.filter]})
             results == Ranked(o.query, o.options, filtered)
  <1>1. o.kind = "search" /\ o.phase = "reading" /\ o.todo = <<>>
    BY DEF ContextsRead, Searching
  <1>2. /\ o \in Job /\ o.query \in Queries /\ o.options \in Settings /\ ReadSoFar(o)
    BY <1>1, JobFacts DEF JobSound
  <1>3. o.found \in Seq(Found) /\ o.kept \subseteq Ids \X Contents
    BY <1>2 DEF Job, Found
  <1>4. ToSet(o.todo) = {}
    BY <1>1, EmptyList
  <1>5. /\ filtered \in Seq(Found) /\ results \in Seq(Answer) /\ Told(o, results)
        /\ filtered = <<>> => Told(o, <<>>)
    <2> HIDE DEF o
    <2>1. /\ \A i, k \in 1..Len(o.found) : o.found[i].id = o.found[k].id => i = k
          /\ \A i \in 1..Len(o.found) : <<o.found[i].id, o.found[i].content>> \in o.seen
          /\ \A x \in o.kept : \/ o.missed
                               \/ \E i \in 1..Len(o.found) :
                                     o.found[i] = [id |-> x[1], content |-> x[2]]
      BY <1>2, <1>4 DEF ReadSoFar
    <2>2. QED
      BY <1>2, <1>3, <2>1, RankedTells
  <1>6. \/ /\ filtered = <<>>
           /\ job' = [job EXCEPT ![c] = Answered(job[c], <<>>)]
           /\ UNCHANGED <<store, searchCache, orphans, dirty>>
        \/ Fails(c)
        \/ /\ job' = [job EXCEPT ![c].phase = "reranking", ![c].found = <<>>,
                                 ![c].results = results]
           /\ UNCHANGED <<store, searchCache, orphans, dirty>>
        \/ FinishSearch(c, results)
    BY DEF ContextsRead, Conclude
  <1> HIDE DEF filtered, results
  <1>7. <<>> \in Seq(Answer)
    OBVIOUS
  <1>8. QED
    BY <1>5, <1>6, <1>7

LEMMA ContextsReadStep ==
  ASSUME SearchIInv, NEW c \in Users, ContextsRead(c)
  PROVE  SearchIInv'
  <1> DEFINE o == job[c]
  <1>1. o.kind = "search" /\ o.phase = "reading" /\ ~Loose(job[c])
    BY DEF ContextsRead, Searching, Loose
  <1>2. /\ o \in Job /\ WellPosed(o) /\ o.query \in Queries /\ o.options \in Settings
        /\ Held \subseteq o.seen /\ o.kept \subseteq Everywhere
    BY <1>1, JobFacts DEF JobSound
  <1>3. CASE Fails(c)
    BY <1>1, <1>3, FailsStep
  <1>4. ASSUME NEW results \in Seq(Answer), Told(o, results), FinishSearch(c, results)
        PROVE  SearchIInv'
    BY <1>1, <1>4, FinishSearchStep
  <1>5. ASSUME job' = [job EXCEPT ![c] = Answered(job[c], <<>>)],
               UNCHANGED <<store, searchCache, orphans, dirty>>
        PROVE  SearchIInv'
    <2>1. Answered(job[c], <<>>) \in Job /\ JobSound(Answered(job[c], <<>>), Held, Everywhere)
      BY <1>2, AnsweredResult, EmptyList
    <2>2. QED
      BY <1>1, <1>5, <2>1, QuietStep
  <1>6. ASSUME NEW results \in Seq(Answer), Told(o, results),
               job' = [job EXCEPT ![c].phase = "reranking", ![c].found = <<>>,
                                  ![c].results = results],
               UNCHANGED <<store, searchCache, orphans, dirty>>
        PROVE  SearchIInv'
    <2> DEFINE j == [o EXCEPT !.phase = "reranking", !.found = <<>>, !.results = results]
    <2>1. job' = [job EXCEPT ![c] = j]
      BY <1>6
    <2>2. <<>> \in Seq([id : Ids, content : Contents]) /\ "reranking" \in JobPhases
      BY DEF JobPhases
    <2> HIDE DEF o
    <2>3. /\ j \in Job /\ j.kind = o.kind /\ j.phase = "reranking" /\ j.query = o.query
          /\ j.options = o.options /\ j.seen = o.seen /\ j.kept = o.kept
          /\ j.missed = o.missed /\ j.results = results
      BY <1>2, <1>6, <2>2 DEF Job
    <2> HIDE DEF j
    <2>4. Told(j, j.results)
      <3>1. \A x : Wanted(j, x) <=> Wanted(o, x)
        BY <2>3 DEF Wanted
      <3>2. QED
        BY <1>6, <2>3, <3>1 DEF Told
    <2>5. JobSound(j, Held, Everywhere)
      BY <1>1, <1>2, <2>3, <2>4 DEF JobSound, WellPosed
    <2>6. QED
      BY <1>1, <1>6, <2>1, <2>3, <2>5, QuietStep
  <1>7. QED
    BY <1>3, <1>4, <1>5, <1>6, ContextsReadTells

LEMMA RerankedStep ==
  ASSUME SearchIInv, NEW c \in Users, Reranked(c)
  PROVE  SearchIInv' /\ \E results \in Seq(Answer) :
                           Told(job[c], results) /\ FinishSearch(c, results)
  <1> DEFINE r == RerankResults(job[c].results)
  <1>1. job[c].phase = "reranking" /\ FinishSearch(c, r)
    BY DEF Reranked, Searching
  <1>2. Told(job[c], job[c].results)
    BY <1>1, JobFacts DEF JobSound
  <1>3. job[c].results \in Seq(Answer)
    BY JobFacts DEF Job
  <1>4. r \in Seq(Answer) /\ Told(job[c], r)
    BY <1>2, <1>3, RerankTells
  <1> HIDE DEF r
  <1>5. QED
    BY <1>1, <1>4, FinishSearchStep

(* The changes.  A job that changes contexts and is not being read by.      *)
LEMMA ChangeSound ==
  ASSUME NEW j \in Job, j.kind \in {"add", "remove", "clear"},
         j.phase \in {"embedding", "listing", "writing"}, j.found = <<>>,
         j.kind = "remove" => j.content = Nothing,
         \/ j.id \in Ids /\ (j.kind = "clear" \/ j.todo = <<>>)
         \/ j.kind = "clear" /\ j.phase # "writing",
         NEW some, NEW all
  PROVE  JobSound(j, some, all)
  BY DEF JobSound, WellPosed

(* A call of the storage manager starts for a job that changes contexts.    *)
LEMMA WritingResult ==
  ASSUME NEW j \in Job, j.kind \in {"add", "remove", "clear"}, j.found = <<>>,
         j.kind = "remove" => j.content = Nothing, j.kind = "clear" \/ j.todo = <<>>,
         NEW i \in Ids, NEW ts \in SUBSET Adapters, NEW some, NEW all
  PROVE  LET w == Writing(j, i, ts)
         IN  /\ w \in Job /\ JobSound(w, some, all)
             /\ w.kind = j.kind /\ w.phase = "writing" /\ w.found = j.found
             /\ w.id = i /\ w.content = j.content /\ w.took = 0
  <1> DEFINE w == Writing(j, i, ts)
  <1>1. /\ w \in Job /\ w.kind = j.kind /\ w.phase = "writing" /\ w.id = i
        /\ w.content = j.content /\ w.found = j.found /\ w.todo = j.todo /\ w.took = 0
    BY DEF Writing, Job, JobPhases
  <1> HIDE DEF w
  <1>2. JobSound(w, some, all)
    BY <1>1, ChangeSound
  <1>3. QED
    BY <1>1, <1>2 DEF w

(* A caller that was idle, or whose job changed nothing yet, goes on with a *)
(* job that changes contexts.                                               *)
LEMMA AddContextStep ==
  ASSUME SearchIInv, NEW c \in Users, NEW i \in Ids, NEW content \in Contents,
         AddContext(c, i, content)
  PROVE  SearchIInv'
  <1> DEFINE new == [NoJob EXCEPT !.kind = "add", !.id = i, !.content = content]
             j == [new EXCEPT !.phase = "embedding"]
  <1>1. /\ store' = store /\ searchCache' = searchCache /\ orphans' = orphans /\ dirty' = dirty
        /\ ~Loose(job[c])
    BY DEF AddContext, Idle, Loose
  <1>2. /\ new.kind = "add" /\ new.found = <<>> /\ new.todo = <<>>
        /\ j.kind = "add" /\ j.phase = "embedding" /\ j.id = i
        /\ j.found = <<>> /\ j.todo = <<>>
    BY DEF NoJob
  <1>3. new \in Job /\ j \in Job
    <2>1. [NoJob EXCEPT !.kind = "add"] \in Job
      BY JobTypes DEF Job, JobKinds
    <2>2. ASSUME NEW x \in Job PROVE [x EXCEPT !.id = i, !.content = content] \in Job
      BY <2>2 DEF Job
    <2>3. new \in Job
      BY <2>1, <2>2
    <2> HIDE DEF new
    <2>4. j \in Job
      BY <2>3 DEF Job, JobPhases
    <2>5. QED
      BY <2>3, <2>4
  <1>4. \/ job' = [job EXCEPT ![c] = j]
        \/ \E ts \in SUBSET Adapters : job' = [job EXCEPT ![c] = Writing(new, i, ts)]
    BY DEF AddContext
  <1> HIDE DEF new, j
  <1>5. JobSound(j, Held, Everywhere)
    BY <1>2, <1>3, ChangeSound
  <1>6. CASE job' = [job EXCEPT ![c] = j]
    BY <1>1, <1>3, <1>5, <1>6, QuietStep
  <1>7. ASSUME NEW ts \in SUBSET Adapters, job' = [job EXCEPT ![c] = Writing(new, i, ts)]
        PROVE  SearchIInv'
    <2>1. Writing(new, i, ts) \in Job /\ JobSound(Writing(new, i, ts), Held, Everywhere)
      BY <1>2, <1>3, WritingResult
    <2>2. QED
      BY <1>1, <1>7, <2>1, QuietStep
  <1>8. QED
    BY <1>4, <1>6, <1>7

LEMMA RemoveContextStep ==
  ASSUME SearchIInv, NEW c \in Users, NEW i \in Ids, RemoveContext(c, i)
  PROVE  SearchIInv'
  <1> DEFINE j == [NoJob EXCEPT !.kind = "remove"]
  <1>1. /\ store' = store /\ searchCache' = searchCache /\ orphans' = orphans /\ dirty' = dirty
        /\ ~Loose(job[c])
    BY DEF RemoveContext, Idle, Loose
  <1>2. PICK ts \in SUBSET Adapters : job' = [job EXCEPT ![c] = Writing(j, i, ts)]
    BY DEF RemoveContext
  <1>3. j.kind = "remove" /\ j.content = Nothing /\ j.found = <<>> /\ j.todo = <<>>
    BY DEF NoJob
  <1>4. j \in Job
    BY JobTypes DEF Job, JobKinds
  <1> HIDE DEF j
  <1>5. Writing(j, i, ts) \in Job /\ JobSound(Writing(j, i, ts), Held, Everywhere)
    BY <1>3, <1>4, WritingResult
  <1>6. QED
    BY <1>1, <1>2, <1>5, QuietStep

LEMMA ClearContextsStep ==
  ASSUME SearchIInv, NEW c \in Users, ClearContexts(c)
  PROVE  SearchIInv'
  <1> DEFINE j == [NoJob EXCEPT !.kind = "clear", !.phase = "listing"]
  <1>1. /\ job' = [job EXCEPT ![c] = j]
        /\ store' = store /\ searchCache' = searchCache /\ orphans' = orphans /\ dirty' = dirty
        /\ ~Loose(job[c])
    BY DEF ClearContexts, Idle, Loose
  <1>2. j.kind = "clear" /\ j.phase = "listing" /\ j.found = <<>>
    BY DEF NoJob
  <1>3. j \in Job
    <2>1. [NoJob EXCEPT !.kind = "clear"] \in Job
      BY JobTypes DEF Job, JobKinds
    <2>2. ASSUME NEW x \in Job PROVE [x EXCEPT !.phase = "listing"] \in Job
      BY <2>2 DEF Job, JobPhases
    <2>3. QED
      BY <2>1, <2>2
  <1> HIDE DEF j
  <1>4. JobSound(j, Held, Everywhere)
    BY <1>2, <1>3, ChangeSound
  <1>5. QED
    BY <1>1, <1>3, <1>4, QuietStep

LEMMA ContentEmbeddedStep ==
  ASSUME SearchIInv, NEW c \in Users, ContentEmbedded(c)
  PROVE  SearchIInv'
  <1>0. job[c].kind = "add" /\ job[c].phase = "embedding" /\ ~Loose(job[c])
    BY DEF ContentEmbedded, Loose
  <1>1. CASE Fails(c)
    BY <1>0, <1>1, FailsStep
  <1>2. ASSUME NEW ts \in SUBSET Adapters,
               job' = [job EXCEPT ![c] = Writing(job[c], job[c].id, ts)],
               UNCHANGED <<store, searchCache, orphans, dirty>>
        PROVE  SearchIInv'
    <2>1. /\ job[c] \in Job /\ job[c].id \in Ids
          /\ job[c].found = <<>> /\ job[c].todo = <<>>
      BY <1>0, JobFacts DEF JobSound, WellPosed
    <2>2. /\ Writing(job[c], job[c].id, ts) \in Job
          /\ JobSound(Writing(job[c], job[c].id, ts), Held, Everywhere)
      BY <1>0, <2>1, WritingResult
    <2>3. QED
      BY <1>0, <1>2, <2>2, QuietStep
  <1>3. QED
    BY <1>1, <1>2 DEF ContentEmbedded

(* The cache is emptied when a call ends.                                   *)
LEMMA EmptyCacheStep ==
  ASSUME SearchIInv, NEW c \in Users, job' = [job EXCEPT ![c] = NoJob], EmptyCache,
         store' = store, orphans' = orphans
  PROVE  SearchIInv'
  <1>1. CacheShape(<<>>)
    BY SearchAssumption DEF CacheShape
  <1>2. searchCache' = <<>> /\ dirty' = FALSE
    BY DEF EmptyCache
  <1>3. orphans' \subseteq Adapters \X Ids \X (Contents \cup {Nothing})
    BY JobFacts
  <1>4. QED
    BY <1>1, <1>2, <1>3, JobStep, JobTypes

LEMMA ClearListedStep ==
  ASSUME SearchIInv, NEW c \in Users, ClearListed(c)
  PROVE  SearchIInv'
  <1>0. job[c].kind = "clear" /\ job[c].phase = "listing" /\ ~Loose(job[c])
    BY DEF ClearListed, Loose
  <1>1. CASE Fails(c)
    BY <1>0, <1>1, FailsStep
  <1>2. CASE /\ EmptyCache /\ job' = [job EXCEPT ![c] = NoJob]
             /\ UNCHANGED <<store, orphans>>
    BY <1>2, EmptyCacheStep
  <1>3. ASSUME NEW a \in Adapters, NEW ts \in SUBSET Adapters, NEW todo,
               todo = Keep(IdOrder, StoredIds(a)), todo # <<>>,
               job' = [job EXCEPT ![c] = [Writing(job[c], Head(todo), ts) EXCEPT !.todo = todo]],
               UNCHANGED <<store, searchCache, orphans, dirty>>
        PROVE  SearchIInv'
    <2> DEFINE w == Writing(job[c], Head(todo), ts)
               j == [w EXCEPT !.todo = todo]
    <2>1. todo \in Seq(Ids) /\ Head(todo) \in Ids
      <3>1. todo \in Seq(Ids)
        BY <1>3, TodoResult
      <3>2. QED
        BY <1>3, <3>1
    <2>2. job[c] \in Job /\ job[c].found = <<>>
      BY <1>0, JobFacts DEF JobSound, WellPosed
    <2>3. /\ w \in Job /\ w.kind = "clear" /\ w.phase = "writing" /\ w.id \in Ids
          /\ w.found = <<>>
      BY <1>0, <2>1, <2>2, WritingResult
    <2> HIDE DEF w
    <2>4. /\ j \in Job /\ j.kind = "clear" /\ j.phase = "writing" /\ j.found = <<>>
          /\ j.id \in Ids
      BY <2>1, <2>3 DEF Job
    <2> HIDE DEF j
    <2>5. JobSound(j, Held, Everywhere)
      BY <2>4, ChangeSound
    <2>6. QED
      BY <1>0, <1>3, <2>4, <2>5, QuietStep DEF j, w
  <1>4. QED
    BY <1>1, <1>2, <1>3 DEF ClearListed

LEMMA ExecutesStep ==
  ASSUME SearchIInv, NEW c \in Users, NEW a \in Adapters, Executes(c, a)
  PROVE  SearchIInv'
  <1> DEFINE counts == job[c].kind = "add" \/ store[a][job[c].id] # Nothing
             took == IF counts THEN job[c].took + 1 ELSE job[c].took
             rest == job[c].targets \ {a}
             j == [job[c] EXCEPT !.targets = rest, !.took = took]
             jobs == [job EXCEPT ![c] = j]
  <1>0. /\ job[c].phase = "writing" /\ Put(a, job[c].id, job[c].content, jobs)
        /\ searchCache' = searchCache /\ orphans' = orphans /\ dirty' = dirty
    BY DEF Executes, Pending
  <1>1. /\ job[c] \in Job /\ job[c].id \in Ids /\ job[c].kind \in {"add", "remove", "clear"}
        /\ WellPosed(job[c]) /\ dirty \in BOOLEAN
        /\ orphans \subseteq Adapters \X Ids \X (Contents \cup {Nothing})
    BY <1>0, JobFacts DEF JobSound, WellPosed
  <1>2. /\ job[c].took \in Nat /\ rest \in SUBSET Adapters
        /\ job[c].content \in Contents \cup {Nothing}
    BY <1>1 DEF Job
  <1>3. took \in Nat /\ (counts => took > 0) /\ (~counts => took = job[c].took)
    BY <1>2
  <1> HIDE DEF counts, took, rest
  <1>4. /\ j \in Job /\ j.kind = job[c].kind /\ j.phase = "writing" /\ j.id = job[c].id
        /\ j.content = job[c].content /\ j.todo = job[c].todo /\ j.took = took
    BY <1>0, <1>1, <1>2, <1>3 DEF Job
  <1> HIDE DEF j
  <1>5. JobSound(j, Held, Everywhere)
    BY <1>1, <1>4 DEF JobSound, WellPosed
  <1>6. /\ jobs \in [Users -> Job] /\ jobs[c] = j
        /\ \A u \in Users : u # c => jobs[u] = job[u]
    BY <1>4 DEF SearchIInv, SearchTypeOK
  <1>7. \A u \in Users : JobSound(jobs[u], Held, Everywhere)
    BY <1>5, <1>6 DEF SearchIInv
  <1> HIDE DEF jobs
  <1>8. \/ Loose(jobs[c])
        \/ /\ job[c].content = store[a][job[c].id]
           /\ \A u \in Users : Loose(job[u]) => Loose(jobs[u])
    <2>1. CASE counts \/ job[c].kind = "clear"
      BY <1>1, <1>3, <1>4, <1>6, <2>1 DEF Loose
    <2>2. CASE ~counts /\ job[c].kind = "remove"
      <3>1. job[c].content = store[a][job[c].id]
        BY <1>1, <2>2 DEF WellPosed, counts
      <3>2. Loose(job[c]) => Loose(jobs[c])
        BY <1>3, <1>4, <1>6, <2>2 DEF Loose
      <3>3. QED
        BY <1>6, <3>1, <3>2
    <2>3. QED
      BY <1>1, <2>1, <2>2 DEF counts
  <1>9. QED
    BY <1>0, <1>1, <1>2, <1>6, <1>7, <1>8, PutStep

LEMMA AbandonsStep ==
  ASSUME SearchIInv, NEW c \in Users, NEW a \in Adapters, Abandons(c, a)
  PROVE  SearchIInv'
  <1>1. /\ job[c].phase = "writing" /\ store' = store /\ searchCache' = searchCache
        /\ job' = job /\ dirty' = dirty
        /\ orphans' = orphans \cup {<<a, job[c].id, job[c].content>>}
    BY DEF Abandons, Pending
  <1>2. /\ job[c] \in Job /\ job[c].id \in Ids /\ JobSound(job[c], Held, Everywhere)
        /\ orphans \subseteq Adapters \X Ids \X (Contents \cup {Nothing})
        /\ CacheShape(searchCache) /\ dirty \in BOOLEAN
    BY <1>1, JobFacts DEF JobSound, WellPosed
  <1>3. job[c].content \in Contents \cup {Nothing}
    BY <1>2 DEF Job
  <1>4. orphans' \subseteq Adapters \X Ids \X (Contents \cup {Nothing})
    BY <1>1, <1>2, <1>3
  <1>5. job' = [job EXCEPT ![c] = job[c]]
    BY <1>1 DEF SearchIInv, SearchTypeOK
  <1>6. \A i \in 1..Len(searchCache') :
           \E k \in 1..Len(searchCache) : searchCache'[i] = searchCache[k]
    BY <1>1
  <1>7. CacheShape(searchCache') /\ dirty' \in BOOLEAN
    BY <1>1, <1>2
  <1>8. QED
    BY <1>1, <1>2, <1>4, <1>5, <1>6, <1>7, JobStep

LEMMA GivesUpStep ==
  ASSUME SearchIInv, NEW c \in Users, NEW a \in Adapters, GivesUp(c, a)
  PROVE  SearchIInv'
  <1> DEFINE rest == job[c].targets \ {a}
             j == [job[c] EXCEPT !.targets = rest]
  <1>1. /\ job[c].phase = "writing" /\ job' = [job EXCEPT ![c] = j]
        /\ store' = store /\ searchCache' = searchCache /\ orphans' = orphans /\ dirty' = dirty
    BY DEF GivesUp, Pending
  <1>2. job[c] \in Job /\ WellPosed(job[c]) /\ rest \in SUBSET Adapters
    BY JobFacts DEF JobSound, Job
  <1> HIDE DEF rest
  <1>3. /\ j \in Job /\ j.kind = job[c].kind /\ j.phase = "writing" /\ j.id = job[c].id
        /\ j.content = job[c].content /\ j.todo = job[c].todo /\ j.took = job[c].took
    BY <1>1, <1>2 DEF Job
  <1> HIDE DEF j
  <1>4. JobSound(j, Held, Everywhere) /\ (Loose(job[c]) => Loose(j))
    BY <1>1, <1>2, <1>3 DEF JobSound, WellPosed, Loose
  <1>5. QED
    BY <1>1, <1>3, <1>4, QuietStep

LEMMA OrphanAppliedStep ==
  ASSUME SearchIInv, OrphanApplied
  PROVE  SearchIInv'
  <1>1. PICK w \in orphans : /\ Put(w[1], w[2], w[3], job) /\ orphans' = orphans \ {w}
                             /\ dirty' = TRUE /\ searchCache' = searchCache
    BY DEF OrphanApplied
  <1>2. /\ orphans \subseteq Adapters \X Ids \X (Contents \cup {Nothing})
        /\ job \in [Users -> Job] /\ \A u \in Users : JobSound(job[u], Held, Everywhere)
    BY DEF SearchIInv, SearchTypeOK
  <1>3. w[1] \in Adapters /\ w[2] \in Ids /\ w[3] \in Contents \cup {Nothing}
    BY <1>2
  <1>4. orphans' \subseteq Adapters \X Ids \X (Contents \cup {Nothing}) /\ dirty' \in BOOLEAN
    BY <1>1, <1>2
  <1>5. QED
    BY <1>1, <1>2, <1>3, <1>4, PutStep

LEMMA NextClearedStep ==
  ASSUME SearchIInv, NEW c \in Users, job[c].phase = "writing", Len(job[c].todo) > 1,
         NextCleared(c), store' = store, orphans' = orphans
  PROVE  SearchIInv'
  <1> DEFINE o == job[c]
             rest == Tail(o.todo)
  <1>1. searchCache' = searchCache /\ dirty' = dirty
    BY DEF NextCleared
  <1>2. PICK ts \in SUBSET Adapters :
           job' = [job EXCEPT ![c] = [Writing(o, Head(rest), ts) EXCEPT !.todo = rest]]
    BY DEF NextCleared
  <1>3. o \in Job /\ WellPosed(o) /\ o.kind = "clear"
    <2>1. Len(<<>>) = 0
      OBVIOUS
    <2>2. QED
      BY <2>1, JobFacts DEF JobSound, WellPosed
  <1>4. o.todo \in Seq(Ids) /\ rest \in Seq(Ids) /\ Head(rest) \in Ids
    <2>1. o.todo \in Seq(Ids)
      BY <1>3 DEF Job
    <2>2. QED
      BY <2>1
  <1> HIDE DEF o, rest
  <1> DEFINE w == Writing(o, Head(rest), ts)
             j == [w EXCEPT !.todo = rest]
  <1>5. w \in Job /\ w.kind = "clear" /\ w.phase = "writing" /\ w.id = Head(rest)
    BY <1>3, <1>4 DEF Writing, Job, JobPhases
  <1> HIDE DEF w
  <1>6. j \in Job /\ j.kind = "clear" /\ j.phase = "writing" /\ j.id \in Ids
    BY <1>4, <1>5 DEF Job
  <1> HIDE DEF j
  <1>7. JobSound(j, Held, Everywhere) /\ Loose(j)
    BY <1>6 DEF JobSound, WellPosed, Loose
  <1>8. QED
    BY <1>1, <1>2, <1>6, <1>7, QuietStep DEF j, w

LEMMA CallEndsStep ==
  ASSUME SearchIInv, NEW c \in Users, CallEnds(c)
  PROVE  SearchIInv'
  <1>0. job[c].phase = "writing" /\ store' = store /\ orphans' = orphans
    BY DEF CallEnds
  <1>1. CASE Len(job[c].todo) > 1 /\ NextCleared(c)
    BY <1>0, <1>1, NextClearedStep
  <1>2. CASE job' = [job EXCEPT ![c] = NoJob] /\ EmptyCache
    BY <1>0, <1>2, EmptyCacheStep
  <1>3. CASE /\ job' = [job EXCEPT ![c] = NoJob] /\ ~Reported(c)
             /\ dirty' = (dirty \/ job[c].took > 0) /\ searchCache' = searchCache
    <2>1. /\ job[c] \in Job /\ dirty \in BOOLEAN /\ CacheShape(searchCache)
          /\ orphans \subseteq Adapters \X Ids \X (Contents \cup {Nothing})
      BY JobFacts
    <2>2. job[c].took \in Nat
      BY <2>1 DEF Job
    <2>3. /\ dirty' \in BOOLEAN /\ CacheShape(searchCache')
          /\ orphans' \subseteq Adapters \X Ids \X (Contents \cup {Nothing})
      BY <1>0, <1>3, <2>1, <2>2
    <2>4. (dirty => dirty') /\ (Loose(job[c]) => dirty')
      BY <1>3 DEF Loose, Reported
    <2>5. \A i \in 1..Len(searchCache') :
             \E k \in 1..Len(searchCache) : searchCache'[i] = searchCache[k]
      BY <1>3
    <2>6. NoJob \in Job /\ JobSound(NoJob, Held, Everywhere)
      BY JobTypes
    <2>7. QED
      BY <1>0, <1>3, <2>3, <2>4, <2>5, <2>6, JobStep
  <1>4. QED
    BY <1>1, <1>2, <1>3 DEF CallEnds

LEMMA ClearSearchCacheStep ==
  ASSUME SearchIInv, ClearSearchCache
  PROVE  SearchIInv'
  <1>1. /\ searchCache' = <<>> /\ dirty' = FALSE
        /\ store' = store /\ job' = job /\ orphans' = orphans
    BY DEF ClearSearchCache, EmptyCache
  <1>2. <<>> \in Seq(Entry) /\ Len(<<>>) = 0 /\ 1..0 = {}
    OBVIOUS
  <1>3. SearchTypeOK'
    <2>1. CacheShape(searchCache')
      BY <1>1, SearchAssumption DEF CacheShape
    <2>2. QED
      BY <1>1, <2>1 DEF SearchIInv, SearchTypeOK, CacheShape
  <1>4. Held' = Held /\ Everywhere' = Everywhere
    BY <1>1, StoreStays
  <1>5. (\A u \in Users : JobSound(job[u], Held, Everywhere))'
    BY <1>1, <1>4 DEF SearchIInv, Users
  <1>6. CacheFresh'
    BY <1>1, <1>2 DEF CacheFresh
  <1>7. QED
    BY <1>3, <1>5, <1>6 DEF SearchIInv

LEMMA SearchInitIInv == SearchInit => SearchIInv
  <1> SUFFICES ASSUME SearchInit PROVE SearchIInv
    OBVIOUS
  <1>1. <<>> \in Seq(Entry) /\ Len(<<>>) = 0 /\ 1..0 = {}
    OBVIOUS
  <1>2. SearchTypeOK
    <2>1. CacheShape(searchCache)
      BY SearchAssumption DEF SearchInit, CacheShape
    <2>2. job \in [Users -> Job]
      BY JobTypes DEF SearchInit
    <2>3. store \in [Adapters -> [Ids -> Contents \cup {Nothing}]]
      BY DEF SearchInit
    <2>4. QED
      BY <2>1, <2>2, <2>3 DEF SearchInit, SearchTypeOK, CacheShape
  <1>3. \A u \in Users : JobSound(job[u], Held, Everywhere)
    BY JobTypes DEF SearchInit
  <1>4. CacheFresh
    BY <1>1 DEF SearchInit, CacheFresh
  <1>5. QED
    BY <1>2, <1>3, <1>4 DEF SearchIInv

LEMMA SearchStep == SearchIInv /\ [SearchNext]_searchVars => SearchIInv'
  <1> SUFFICES ASSUME SearchIInv, [SearchNext]_searchVars PROVE SearchIInv'
    OBVIOUS
  <1>1. ASSUME NEW c \in Searchers, NEW q \in Queries, NEW o \in Options, StartSearch(c, q, o)
        PROVE  SearchIInv'
    BY <1>1, StartSearchStep DEF Users
  <1>2. ASSUME NEW c \in Searchers,
               QueryEmbedded(c) \/ KeysListed(c) \/ ContextRead(c)
                  \/ ContextsRead(c) \/ Reranked(c)
        PROVE  SearchIInv'
    <2>1. c \in Users
      BY DEF Users
    <2>2. QED
      BY <1>2, <2>1, QueryEmbeddedStep, KeysListedStep, ContextReadStep, ContextsReadStep,
         RerankedStep
  <1>3. ASSUME NEW c \in Changers, NEW x \in Inputs, AddContext(c, x[1], x[2])
        PROVE  SearchIInv'
    <2>1. c \in Users /\ x[1] \in Ids /\ x[2] \in Contents
      BY SearchAssumption DEF Users
    <2>2. QED
      BY <1>3, <2>1, AddContextStep
  <1>4. ASSUME NEW c \in Changers, NEW i \in Ids, RemoveContext(c, i)
        PROVE  SearchIInv'
    BY <1>4, RemoveContextStep DEF Users
  <1>5. ASSUME NEW c \in Changers, ClearContexts(c) \/ ContentEmbedded(c) \/ ClearListed(c)
        PROVE  SearchIInv'
    BY <1>5, ClearContextsStep, ContentEmbeddedStep, ClearListedStep DEF Users
  <1>6. ASSUME NEW c \in Changers,
               \/ \E a \in Adapters : Executes(c, a) \/ Abandons(c, a) \/ GivesUp(c, a)
               \/ CallEnds(c)
        PROVE  SearchIInv'
    BY <1>6, ExecutesStep, AbandonsStep, GivesUpStep, CallEndsStep DEF Users
  <1>7. CASE OrphanApplied \/ ClearSearchCache
    BY <1>7, OrphanAppliedStep, ClearSearchCacheStep
  <1>8. CASE UNCHANGED searchVars
    <2>1. /\ store' = store /\ searchCache' = searchCache /\ job' = job
          /\ orphans' = orphans /\ dirty' = dirty
      BY <1>8 DEF searchVars
    <2>2. SearchTypeOK' /\ Held' = Held /\ Everywhere' = Everywhere
      BY <2>1, StoreStays DEF SearchIInv, SearchTypeOK, Adapters
    <2>3. (\A u \in Users : JobSound(job[u], Held, Everywhere))'
      BY <2>1, <2>2 DEF SearchIInv
    <2>4. Unsettled' = Unsettled
      BY <2>1 DEF Unsettled
    <2>5. CacheFresh'
      BY <2>1, <2>2, <2>4 DEF SearchIInv, CacheFresh
    <2>6. QED
      BY <2>2, <2>3, <2>5 DEF SearchIInv
  <1>9. QED
    BY <1>1, <1>2, <1>3, <1>4, <1>5, <1>6, <1>7, <1>8 DEF SearchNext

LEMMA SearchKeepsIInv == SearchSpec => []SearchIInv
  BY SearchInitIInv, SearchStep, PTL DEF SearchSpec

(* The cache of results is typed, within its limit and without two entries  *)
(* of a key; and when no change is under way and none took effect since it  *)
(* was last emptied whose call did not empty it, an entry of a search that  *)
(* found the adapters alike and undisturbed is the answer that what they    *)
(* hold now would give.                                                     *)
THEOREM CacheStaysFresh == SearchSpec => []CacheOK
  <1>1. SearchIInv => CacheOK
    BY DEF SearchIInv, CacheOK
  <1>2. QED
    BY <1>1, SearchKeepsIInv, PTL

-----------------------------------------------------------------------------
(* The answers.                                                             *)
LEMMA ToldAnswering ==
  ASSUME SearchIInv, NEW c \in Users, job[c].phase \in {"reading", "reranking"},
         Told(job[c], job'[c].results)
  PROVE  AnswerOfItsTime(c)
  <1> DEFINE o == job[c]
             results == job'[c].results
             S(x) == Score[o.query][x]
  <1>1. o \in Job /\ o.query \in Queries /\ o.options \in Settings
    BY JobFacts DEF JobSound, WellPosed
  <1>2. o.kept \subseteq Ids \X Contents /\ o.seen \subseteq Ids \X Contents
    BY <1>1 DEF Job
  <1>3. o.options.threshold \in Int /\ \A x \in Contents : S(x) \in Int
    BY <1>1, SearchAssumption DEF Settings
  <1>4. Told(o, results)
    OBVIOUS
  <1> HIDE DEF o, results
  <1>5. \A i \in 1..Len(results) : results[i].content \in Contents
    BY <1>2, <1>4 DEF Told
  <1>6. ASSUME NEW x \in o.kept, ~o.missed, ~\E i \in 1..Len(results) : results[i].id = x[1],
               Wanted(o, x[2])
        PROVE  /\ Len(results) = o.options.topK
               /\ \A i \in 1..Len(results) : S(results[i].content) >= S(x[2])
    <2>1. x[2] \in Contents
      BY <1>2
    <2>2. /\ Len(results) = o.options.topK
          /\ \A i \in 1..Len(results) : AtLeast(o.query, results[i].content, x[2])
      BY <1>4, <1>6 DEF Told
    <2>3. QED
      BY <1>3, <1>5, <2>1, <2>2 DEF AtLeast
  <1>7. \A x \in o.kept : Wanted(o, x[2]) \/ x[2] \notin Passes[o.options.filter]
                                          \/ S(x[2]) < o.options.threshold
    <2> SUFFICES ASSUME NEW x \in o.kept
                 PROVE  Wanted(o, x[2]) \/ x[2] \notin Passes[o.options.filter]
                                        \/ S(x[2]) < o.options.threshold
      OBVIOUS
    <2>1. S(x[2]) \in Int
      BY <1>2, <1>3
    <2>2. QED
      BY <1>3, <2>1 DEF Wanted
  <1>8. /\ Len(results) <= o.options.topK
        /\ \A i, j \in 1..Len(results) : results[i].id = results[j].id => i = j
        /\ \A i \in 1..Len(results) : /\ <<results[i].id, results[i].content>> \in o.seen
                                      /\ results[i].content \in Passes[o.options.filter]
                                      /\ S(results[i].content) >= o.options.threshold
    BY <1>4 DEF Told, Wanted
  <1>9. QED
    BY <1>6, <1>7, <1>8 DEF AnswerOfItsTime, o, results

LEMMA AnswersStep ==
  ASSUME SearchIInv, [SearchNext]_searchVars, NEW c \in Searchers
  PROVE  AnswerOfItsTime(c)
  <1> SUFFICES ASSUME job[c].phase \in {"reading", "reranking"}, job'[c].phase = "done"
               PROVE  AnswerOfItsTime(c)
    BY DEF AnswerOfItsTime
  <1>0. c \in Users /\ c \notin Changers /\ job \in [Users -> Job] /\ NoJob.phase # "done"
    BY SearchAssumption DEF Users, SearchIInv, SearchTypeOK, NoJob
  <1>1. ASSUME NEW u \in Users, u # c, NEW j, job' = [job EXCEPT ![u] = j] PROVE FALSE
    BY <1>0, <1>1
  <1>2. job' # job
    OBVIOUS
  <1>3. ASSUME NEW a, NEW i, NEW content, NEW jobs, jobs[c] \in Job,
               jobs[c].phase = job[c].phase, Put(a, i, content, jobs)
        PROVE  FALSE
    <2>1. job'[c].phase = jobs[c].phase
      BY <1>0, <1>3 DEF Put, Job
    <2>2. QED
      BY <1>3, <2>1
  <1>4. ASSUME NEW results \in Seq(Answer), Told(job[c], results),
               job' = [job EXCEPT ![c] = Answered(job[c], results)]
        PROVE  AnswerOfItsTime(c)
    <2>1. job'[c].results = results
      BY <1>0, <1>4 DEF Answered, NoJob
    <2>2. QED
      BY <1>0, <1>4, <2>1, ToldAnswering
  <1>5. ASSUME NEW results \in Seq(Answer), Told(job[c], results), FinishSearch(c, results)
        PROVE  AnswerOfItsTime(c)
    BY <1>4, <1>5 DEF FinishSearch
  <1>6. CASE ContextsRead(c)
    <2>1. ~Fails(c)
      BY <1>0 DEF Fails
    <2>2. ASSUME NEW results, job' = [job EXCEPT ![c].phase = "reranking", ![c].found = <<>>,
                                                 ![c].results = results]
          PROVE  FALSE
      <3>1. job'[c] = [job[c] EXCEPT !.phase = "reranking", !.found = <<>>,
                                     !.results = results]
        BY <1>0, <2>2
      <3>2. job'[c].phase = "reranking"
        BY <1>0, <3>1 DEF Job
      <3>3. QED
        BY <3>2
    <2>3. PICK results \in Seq(Answer) :
             /\ Told(job[c], results)
             /\ \/ FinishSearch(c, results)
                \/ results = <<>> /\ job' = [job EXCEPT ![c] = Answered(job[c], <<>>)]
      BY <1>0, <1>6, <2>1, <2>2, ContextsReadTells
    <2>4. QED
      BY <1>4, <1>5, <2>3
  <1>7. CASE Reranked(c)
    BY <1>0, <1>5, <1>7, RerankedStep
  <1>8. ASSUME NEW u \in Searchers,
               \/ \E q \in Queries, o \in Options : StartSearch(u, q, o)
               \/ QueryEmbedded(u) \/ KeysListed(u) \/ ContextRead(u)
        PROVE  FALSE
    <2>1. u \in Users
      BY DEF Users
    <2>2. CASE u # c
      <3>1. \E j : job' = [job EXCEPT ![u] = j]
        BY <1>8 DEF StartSearch, QueryEmbedded, KeysListed, ContextRead, Fails
      <3>2. QED
        BY <1>1, <2>1, <2>2, <3>1
    <2>3. CASE u = c
      <3>1. ContextRead(c)
        BY <1>8, <2>3 DEF StartSearch, Idle, QueryEmbedded, KeysListed, Searching
      <3>2. ~Fails(c)
        BY <1>0 DEF Fails
      <3>3. job[c].phase = "reading" /\ job[c] \in Job
        BY <1>0, <3>1 DEF ContextRead, Searching
      <3>4. PICK a \in Adapters, i \in {Head(job[c].todo)} :
               \/ job' = [job EXCEPT ![c].todo = Tail(@), ![c].asked = 0,
                            ![c].found = Append(@, [id |-> i, content |-> store[a][i]])]
               \/ job' = [job EXCEPT ![c].asked = a]
               \/ job' = [job EXCEPT ![c].todo = Tail(@), ![c].asked = 0,
                                      ![c].missed = @ \/ store[a][i] # Nothing]
        BY <3>1, <3>2 DEF ContextRead
      <3>5. CASE job' = [job EXCEPT ![c].todo = Tail(@), ![c].asked = 0,
                           ![c].found = Append(@, [id |-> i, content |-> store[a][i]])]
        BY <1>0, <3>3, <3>5 DEF Job
      <3>6. CASE job' = [job EXCEPT ![c].asked = a]
        BY <1>0, <3>3, <3>6 DEF Job
      <3>7. CASE job' = [job EXCEPT ![c].todo = Tail(@), ![c].asked = 0,
                                    ![c].missed = @ \/ store[a][i] # Nothing]
        BY <1>0, <3>3, <3>7 DEF Job
      <3>8. QED
        BY <3>4, <3>5, <3>6, <3>7
    <2>4. QED
      BY <2>2, <2>3
  <1>9. ASSUME NEW u \in Searchers, u # c, ContextsRead(u) \/ Reranked(u) PROVE FALSE
    <2>1. \E j : job' = [job EXCEPT ![u] = j]
      BY <1>9 DEF ContextsRead, Conclude, Reranked, FinishSearch, Fails
    <2>2. QED
      BY <1>1, <1>9, <2>1 DEF Users
  <1>10. ASSUME NEW u \in Changers,
                \/ \E x \in Inputs : AddContext(u, x[1], x[2])
                \/ \E i \in Ids : RemoveContext(u, i)
                \/ ClearContexts(u) \/ ContentEmbedded(u) \/ ClearListed(u)
                \/ \E a \in Adapters : GivesUp(u, a)
                \/ CallEnds(u)
         PROVE  FALSE
    <2>1. \E j : job' = [job EXCEPT ![u] = j]
      BY <1>10 DEF AddContext, RemoveContext, ClearContexts, ContentEmbedded, ClearListed,
         GivesUp, CallEnds, NextCleared, Fails
    <2>2. QED
      BY <1>0, <1>1, <1>10, <2>1 DEF Users
  <1>11. ASSUME NEW u \in Changers, NEW a \in Adapters, Executes(u, a) PROVE FALSE
    <2> DEFINE jobs == [job EXCEPT ![u].targets = @ \ {a},
                                   ![u].took = IF \/ job[u].kind = "add"
                                                  \/ store[a][job[u].id] # Nothing
                                               THEN @ + 1 ELSE @]
    <2>1. Put(a, job[u].id, job[u].content, jobs) /\ u \in Users /\ u # c
      BY <1>0, <1>11 DEF Executes, Users
    <2>2. jobs[c] = job[c] /\ job[c] \in Job
      BY <1>0, <2>1
    <2> HIDE DEF jobs
    <2>3. QED
      BY <1>3, <2>1, <2>2
  <1>12. ~OrphanApplied
    BY <1>0, <1>3 DEF OrphanApplied
  <1>13. /\ ~ClearSearchCache /\ ~UNCHANGED searchVars
         /\ \A u \in Changers, a \in Adapters : ~Abandons(u, a)
    BY <1>2 DEF ClearSearchCache, Abandons, searchVars
  <1>14. QED
    BY <1>6, <1>7, <1>8, <1>9, <1>10, <1>11, <1>12, <1>13 DEF SearchNext

(* A search that read the store answers from contexts that an adapter held  *)
(* while it ran: each once, none that the filter or the threshold rules     *)
(* out, and it leaves out one that all adapters held all the time, and that *)
(* the last one asked did not fail to give, only for as many no worse ones. *)
THEOREM AnswersAreOfTheirTime == SearchSpec => AnswersFromItsTime
  <1>1. SearchIInv /\ [SearchNext]_searchVars
           => [\A c \in Searchers : AnswerOfItsTime(c)]_searchVars
    BY AnswersStep
  <1>2. QED
    BY <1>1, SearchKeepsIInv, PTL DEF SearchSpec, AnswersFromItsTime
===============================================================================
