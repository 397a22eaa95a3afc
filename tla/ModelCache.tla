------------------------------ MODULE ModelCache ------------------------------
(***************************************************************************)
(* The global model cache of the TransformersAdapter: one table for every  *)
(* adapter of the process, filled by loads that callers share, emptied by  *)
(* disposeAllModels, which awaits the disposal of one pipeline after the   *)
(* other while loads and embeddings go on.                                 *)
(*                                                                         *)
(* A record is a ModelInfo object.  Callers hold on to it across awaits,   *)
(* so it outlives its place in the table.  Records are numbered in the     *)
(* order of their creation, which is the order the table is walked in.     *)
(* What the library does with a pipeline is external.                      *)
(***************************************************************************)
EXTENDS Integers, FiniteSets

CONSTANTS
    Callers,        \* requests that need a model
    Disposers,      \* calls of disposeAllModels, which may overlap
    Models,
    InExtension,    \* chrome.runtime is there: models come from the bundle
    Bundled,        \* models that have a path in the bundle
    MaxRecords      \* BOUND: ModelInfo objects created

ASSUME ModelCacheAssumption ==
    /\ Models # {} /\ Bundled \subseteq Models /\ InExtension \in BOOLEAN
    /\ MaxRecords \in Nat

Records == 1..MaxRecords

VARIABLES
    created,        \* number of records created
    modelOf,        \* the model a record was created for
    cached,         \* globalModelCache: the records in the table
    pipeline,       \* a record's pipeline
    loading,        \* isLoading, with loadPromise set
    at, rec,        \* where a caller is, and the record it holds
    disposing, pos, \* disposals under way, and the record each visited last
    overtaken,      \* history: records a disposal passed before they had a pipeline
    patched         \* the fetch interceptor is installed

recordVars == <<created, modelOf, cached, pipeline, loading, patched>>
disposalVars == <<disposing, pos, overtaken>>
modelVars == <<recordVars, at, rec, disposalVars>>

ModelTypeOK ==
    /\ created   \in 0..MaxRecords
    /\ modelOf   \in [Records -> Models]
    /\ cached    \subseteq 1..created
    /\ pipeline  \in [Records -> {"none", "live", "disposed"}]
    /\ loading   \in [Records -> BOOLEAN]
    /\ at        \in [Callers -> {"idle", "starting", "joined", "using", "failed"}]
    /\ rec       \in [Callers -> 0..created]
    /\ disposing \subseteq Disposers
    /\ pos       \in [Disposers -> 0..created]
    /\ overtaken \subseteq 1..created
    /\ patched   \in BOOLEAN

ModelInit ==
    /\ created   = 0
    /\ modelOf   = [r \in Records |-> CHOOSE m \in Models : TRUE]
    /\ cached    = {}
    /\ pipeline  = [r \in Records |-> "none"]
    /\ loading   = [r \in Records |-> FALSE]
    /\ at        = [c \in Callers |-> "idle"]
    /\ rec       = [c \in Callers |-> 0]
    /\ disposing = {} /\ pos = [d \in Disposers |-> 0] /\ overtaken = {}
    /\ patched   = FALSE

Waits(c, r) == at[c] \in {"starting", "joined"} /\ rec[c] = r

-----------------------------------------------------------------------------
(* getOrLoadModel up to its first await. *)

Hold(c, phase, r) ==
    /\ at'  = [at EXCEPT ![c] = phase]
    /\ rec' = [rec EXCEPT ![c] = r]

(* isLoading and loadPromise are set, and loadModel runs to its first await. *)
StartLoad(c, r) ==
    /\ loading' = [loading EXCEPT ![r] = TRUE]
    /\ patched' = TRUE
    /\ Hold(c, "starting", r)

AskRecord(c, r) ==
    /\ \/ /\ pipeline[r] # "none"
          /\ Hold(c, "using", r)
          /\ UNCHANGED <<loading, patched>>
       \/ /\ pipeline[r] = "none" /\ loading[r]
          /\ Hold(c, "joined", r)
          /\ UNCHANGED <<loading, patched>>
       \/ /\ pipeline[r] = "none" /\ ~loading[r]
          /\ StartLoad(c, r)
    /\ UNCHANGED <<created, modelOf, cached, pipeline, disposalVars>>

AskNew(c, m) ==
    /\ \A r \in cached : modelOf[r] # m
    /\ created < MaxRecords
    /\ created' = created + 1
    /\ modelOf' = [modelOf EXCEPT ![created + 1] = m]
    /\ cached'  = cached \cup {created + 1}
    /\ StartLoad(c, created + 1)
    /\ UNCHANGED <<pipeline, disposalVars>>

Ask(c, m) ==
    /\ at[c] \in {"idle", "failed"}
    /\ \/ \E r \in cached : modelOf[r] = m /\ AskRecord(c, r)
       \/ AskNew(c, m)

(* The load settles: the caller that started it and those that joined go on. *)
Settle(r, phase) ==
    /\ loading' = [loading EXCEPT ![r] = FALSE]
    /\ at' = [c \in Callers |-> IF Waits(c, r) THEN phase ELSE at[c]]
    /\ UNCHANGED <<created, modelOf, cached, patched, rec, disposalVars>>

(* In an extension only models with a local path are loaded, elsewhere any *)
(* model may come from the network.                                        *)
CanLoad(m) == InExtension => m \in Bundled

LoadSucceeds(r) ==
    /\ loading[r] /\ CanLoad(modelOf[r])
    /\ pipeline' = [pipeline EXCEPT ![r] = "live"]
    /\ Settle(r, "using")

LoadFails(r) ==
    /\ loading[r]
    /\ Settle(r, "failed")
    /\ UNCHANGED pipeline

(* The pipeline answers or throws; either ends the request to the adapter. *)
Use(c, phase) ==
    /\ at[c] = "using"
    /\ Hold(c, phase, 0)
    /\ UNCHANGED <<recordVars, disposalVars>>

-----------------------------------------------------------------------------
(* disposeAllModels: from one awaited disposal to the next.  Records       *)
(* without a pipeline are passed without waiting.                          *)

WithPipeline(p) == {r \in cached : r > p /\ pipeline[r] # "none"}

Leaves(d) ==
    /\ disposing' = disposing \ {d}
    /\ pos' = [pos EXCEPT ![d] = 0]

(* Mutant: the table is emptied before the pipelines are disposed. *)
VisitAfterClear(d, p) ==
    /\ cached' = {}
    /\ Leaves(d)
    /\ overtaken' = overtaken \cup {r \in cached : r > p /\ pipeline[r] = "none"}
    /\ UNCHANGED pipeline

Visit(d, p) ==
    \/ /\ WithPipeline(p) = {}
       /\ cached' = {}
       /\ Leaves(d)
       /\ overtaken' = overtaken \cup {r \in cached : r > p}
       /\ UNCHANGED pipeline
    \/ \E r \in WithPipeline(p) :
       /\ \A s \in WithPipeline(p) : r <= s
       /\ pipeline' = [pipeline EXCEPT ![r] = "disposed"]
       /\ disposing' = disposing \cup {d}
       /\ pos' = [pos EXCEPT ![d] = r]
       /\ overtaken' = overtaken \cup {s \in cached : p < s /\ s < r}
       /\ UNCHANGED cached

DisposeAllModels(d) ==
    /\ d \notin disposing
    /\ created < MaxRecords    \* BOUND: a record is left for later requests
    /\ Visit(d, 0)
    /\ UNCHANGED <<created, modelOf, loading, patched, at, rec>>

PipelineDisposed(d) ==
    /\ d \in disposing
    /\ Visit(d, pos[d])
    /\ UNCHANGED <<created, modelOf, loading, patched, at, rec>>

Settles == \E r \in Records : LoadSucceeds(r) \/ LoadFails(r)

ModelNext ==
    \/ \E c \in Callers, m \in Models : Ask(c, m)
    \/ Settles
    \/ \E c \in Callers : Use(c, "idle") \/ Use(c, "failed")
    \/ \E d \in Disposers : DisposeAllModels(d) \/ PipelineDisposed(d)

ModelSpec == ModelInit /\ [][ModelNext]_modelVars

-----------------------------------------------------------------------------
(* A record is loading exactly while one caller has a load of it under     *)
(* way: loads are shared, a failed one leaves the record ready for the     *)
(* next, and nobody waits for a load that nobody started (getOrLoadModel). *)
LoadsAreShared ==
    \A r \in Records :
        /\ Cardinality({c \in Callers : at[c] = "starting" /\ rec[c] = r}) =
              IF loading[r] THEN 1 ELSE 0
        /\ loading[r] \/ \A c \in Callers : ~Waits(c, r)

(* A pipeline that is disposed is handed out only as long as a disposal of *)
(* all models is under way (disposeAllModels clears the table last).       *)
DisposedLeaveTheTable ==
    \A r \in cached : pipeline[r] = "disposed" => disposing # {}

(* A pipeline that is neither in the table nor disposed, and so can be     *)
(* reached by nobody who could dispose it, was still being loaded when a   *)
(* disposal passed its record.                                             *)
OnlyOvertakenLost ==
    \A r \in Records \ cached : pipeline[r] = "live" => r \in overtaken

(* Callers share the models and their disposal: one load of a record at a  *)
(* time, no disposed pipeline left in the table, and no live one outside   *)
(* it that a disposal did not overtake (transformers-adapter.ts).          *)
ModelsShared == LoadsAreShared /\ DisposedLeaveTheTable /\ OnlyOvertakenLost
===============================================================================
