-------------------------- MODULE EmbeddingGenerator --------------------------
(***************************************************************************)
(* The EmbeddingGenerator over the shared model cache: single and batch    *)
(* requests, a cache keyed by a hash of the text, an adapter created on    *)
(* first use, retries, statistics, clearCache and dispose.                 *)
(*                                                                         *)
(* The embedding of a text is represented by the text, so an answer tells  *)
(* whose embedding it is.  Merged is the one result the adapter makes of a *)
(* pipeline answer that is no array.  Adapters have no state of their own; *)
(* whether there is one is all that is kept.  Timestamps of cache entries  *)
(* are represented by the order of the insertions.                         *)
(***************************************************************************)
EXTENDS ModelCache, Sequences, Lists

CONSTANTS
    Texts, None, Merged,
    Keys, KeyOf,        \* the cache key of each text: 32 bits of hash
    Model,              \* config.model
    MaxRetries,         \* config.maxRetries
    BatchSize,          \* config.batchSize
    CacheResults,       \* config.cacheResults
    CacheLimit,         \* entries kept before eviction: 1000
    EvictionShare,      \* one in so many entries is evicted: 5
    TensorBatches,      \* the pipeline answers a batch with one tensor
    Requests,           \* BOUND: the lists of texts asked for
    MaxCreations,       \* BOUND: adapters created
    MaxClosings         \* BOUND: dispose calls that overlap

ASSUME GeneratorAssumption ==
    /\ IsFiniteSet(Callers)
    /\ None \notin Texts /\ Merged \notin Texts /\ None # Merged
    /\ KeyOf \in [Texts -> Keys]
    /\ Model \in Models
    /\ MaxRetries \in Nat \ {0} /\ BatchSize \in Nat \ {0}
    /\ CacheLimit \in Nat \ {0} /\ EvictionShare \in Nat \ {0, 1}
    /\ CacheResults \in BOOLEAN /\ TensorBatches \in BOOLEAN
    /\ Requests \subseteq Seq(Texts) \ {<<>>}
    /\ MaxCreations \in Nat /\ MaxClosings \in Nat

VARIABLES
    adapter,            \* this.adapter is set
    promise, creation,  \* adapterPromise (0: null), and what became of each creation
    cache, age,         \* the entries, and their keys from the oldest to the newest
    requests, hits,     \* stats.totalRequests, stats.cacheHits
    call,               \* what each caller is doing
    merged,             \* history: several texts were answered with one result
    closing,            \* dispose calls that await the adapter's dispose
    blank, overlap      \* history: nothing began since dispose ended; something was under way then

statsVars == <<requests, hits, merged>>
adapterVars == <<adapter, promise, creation>>
cacheVars == <<cache, age>>
lifeVars == <<closing, blank, overlap>>
genVars == <<adapterVars, cacheVars, statsVars, call, lifeVars>>
embVars == <<modelVars, genVars>>

NoCall == [kind |-> "none", texts |-> <<>>, open |-> <<>>, answers |-> <<>>, got |-> <<>>,
           attempt |-> 0, slice |-> 0, phase |-> "idle", on |-> 0]

Phases == {"idle", "adapter", "ready", "embedding", "delay", "done", "failed"}
UnderWay(c) == call[c].phase \notin {"idle", "done", "failed"}

GenTypeOK ==
    /\ adapter \in BOOLEAN
    /\ promise \in 0..MaxCreations
    /\ creation \in [1..MaxCreations -> {"none", "pending", "over"}]
    /\ cache \in [Keys -> Texts \cup {None, Merged}]
    /\ age \in Seq(Keys)
    /\ {k \in Keys : cache[k] # None} = ToSet(age) /\ IsInjective(age)
    /\ requests \in Nat /\ hits \in Nat
    /\ \A c \in Callers :
          /\ call[c].kind \in {"none", "single", "batch", "preload"}
          /\ call[c].phase \in Phases
          /\ call[c].attempt \in 0..MaxRetries
          /\ call[c].on \in 0..MaxCreations
    /\ merged \in BOOLEAN
    /\ closing \in 0..MaxClosings /\ blank \in BOOLEAN /\ overlap \in BOOLEAN

GenInit ==
    /\ adapter = FALSE /\ promise = 0
    /\ creation = [i \in 1..MaxCreations |-> "none"]
    /\ cache = [k \in Keys |-> None] /\ age = <<>>
    /\ requests = 0 /\ hits = 0 /\ merged = FALSE
    /\ call = [c \in Callers |-> NoCall]
    /\ closing = 0 /\ blank = FALSE /\ overlap = FALSE

-----------------------------------------------------------------------------
(* The cache.  A table is a record of the entries and the order of age.    *)

Cached(t) == IF CacheResults THEN cache[KeyOf[t]] ELSE None

(* Mutant: an entry that is stored again is counted as a new one. *)
SetCachedTwice(table, t, embedding) ==
    LET k       == KeyOf[t]
        entries == [table.entries EXCEPT ![k] = embedding]
        order   == Append(table.order, k)
        toRemove == IF Len(order) > CacheLimit THEN Len(order) \div EvictionShare ELSE 0
    IN [entries |-> [j \in Keys |-> IF \E i \in 1..toRemove : order[i] = j THEN None
                                    ELSE entries[j]],
        order |-> SubSeq(order, toRemove + 1, Len(order))]

SetCached(table, t, embedding) ==
    LET k       == KeyOf[t]
        entries == [table.entries EXCEPT ![k] = embedding]
        order   == Append(Keep(table.order, Keys \ {k}), k)
        toRemove == IF Len(order) > CacheLimit THEN Len(order) \div EvictionShare ELSE 0
        kept    == SubSeq(order, toRemove + 1, Len(order))
    IN [entries |-> [j \in Keys |-> IF j \in ToSet(kept) THEN entries[j] ELSE None],
        order |-> kept]

(* setCachedEmbedding for texts[i] and embeddings[i], in order. *)
CacheAll(texts, embeddings) ==
    LET stored == FoldLeft(LAMBDA table, i : SetCached(table, texts[i], embeddings[i]),
                           [entries |-> cache, order |-> age],
                           [i \in 1..Len(embeddings) |-> i])
    IN IF CacheResults
       THEN cache' = stored.entries /\ age' = stored.order
       ELSE UNCHANGED cacheVars

-----------------------------------------------------------------------------
(* getAdapter: the fields of a call that goes on or waits for a creation.  *)

PendingCreations == {i \in 1..MaxCreations : creation[i] = "pending"}

GetAdapter(c, started) ==
    \/ /\ adapter
       /\ call' = [call EXCEPT ![c] = [started EXCEPT !.phase = "ready"]]
       /\ UNCHANGED adapterVars
    \/ /\ ~adapter /\ promise # 0
       /\ call' = [call EXCEPT ![c] = [started EXCEPT !.phase = "adapter", !.on = promise]]
       /\ UNCHANGED adapterVars
    \/ /\ ~adapter /\ promise = 0
       /\ \E i \in 1..MaxCreations :
             /\ creation[i] = "none" /\ \A j \in 1..i - 1 : creation[j] # "none"
             /\ creation' = [creation EXCEPT ![i] = "pending"]
             /\ promise' = i
             /\ call' = [call EXCEPT ![c] = [started EXCEPT !.phase = "adapter", !.on = i]]
       /\ UNCHANGED adapter

(* Mutant: the waiting callers are forgotten when the creation fails. *)
CreationFailsSilently(i) ==
    /\ creation[i] = "pending"
    /\ creation' = [creation EXCEPT ![i] = "over"]
    /\ promise' = 0
    /\ UNCHANGED <<modelVars, adapter, cacheVars, statsVars, lifeVars, call>>

CreationFails(i) ==
    /\ creation[i] = "pending"
    /\ creation' = [creation EXCEPT ![i] = "over"]
    /\ promise' = 0
    /\ call' = [c \in Callers |->
                  IF call[c].phase = "adapter" /\ call[c].on = i
                  THEN [call[c] EXCEPT !.phase = "failed"] ELSE call[c]]
    /\ UNCHANGED <<modelVars, adapter, cacheVars, statsVars, lifeVars>>

AdapterCreated(i) ==
    /\ creation[i] = "pending"
    /\ creation' = [creation EXCEPT ![i] = "over"]
    /\ adapter' = TRUE /\ promise' = 0
    /\ call' = [c \in Callers |->
                  IF call[c].phase = "adapter" /\ call[c].on = i
                  THEN [call[c] EXCEPT !.phase = "ready"] ELSE call[c]]
    /\ UNCHANGED <<modelVars, cacheVars, statsVars, lifeVars>>

-----------------------------------------------------------------------------
(* The requests, up to their first await. *)

Begins(c) == call[c].phase = "idle" /\ blank' = FALSE /\ UNCHANGED <<closing, overlap>>

GenerateEmbedding(c, t) ==
    /\ Begins(c)
    /\ requests' = requests + 1
    /\ LET started == [NoCall EXCEPT !.kind = "single", !.texts = <<t>>, !.open = <<1>>]
       IN IF Cached(t) # None
          THEN /\ hits' = hits + 1
               /\ call' = [call EXCEPT ![c] = [started EXCEPT !.open = <<>>,
                              !.answers = <<Cached(t)>>, !.phase = "done"]]
               /\ UNCHANGED adapterVars
          ELSE GetAdapter(c, started) /\ UNCHANGED hits
    /\ UNCHANGED <<modelVars, cacheVars, merged>>

HitsOf(texts, open) == Len(texts) - Len(open)

GenerateBatch(c, texts) ==
    LET places  == [i \in 1..Len(texts) |-> i]
        open    == Keep(places, {i \in DOMAIN texts : Cached(texts[i]) = None})
        started == [NoCall EXCEPT !.kind = "batch", !.texts = texts, !.open = open,
                       !.answers = [i \in 1..Len(texts) |-> Cached(texts[i])]]
    IN
    /\ Begins(c)
    /\ hits' = hits + HitsOf(texts, open)
    /\ IF open = <<>>
       THEN /\ call' = [call EXCEPT ![c] = [started EXCEPT !.phase = "done"]]
            /\ requests' = requests + Len(texts)
            /\ UNCHANGED adapterVars
       ELSE GetAdapter(c, started) /\ UNCHANGED requests
    /\ UNCHANGED <<modelVars, cacheVars, merged>>

PreloadModel(c) ==
    /\ Begins(c)
    /\ GetAdapter(c, [NoCall EXCEPT !.kind = "preload"])
    /\ UNCHANGED <<modelVars, cacheVars, statsVars>>

-----------------------------------------------------------------------------
(* An attempt: the adapter asks for the model, then for the embeddings.    *)

Attempt(c) ==
    /\ call[c].phase = "ready"
    /\ Ask(c, Model)
    /\ call' = [call EXCEPT ![c].phase = "embedding"]
    /\ UNCHANGED <<adapterVars, cacheVars, statsVars, lifeVars>>

Preloaded(c) ==
    /\ call[c].kind = "preload" /\ call[c].phase = "embedding"
    /\ Use(c, "idle")
    /\ call' = [call EXCEPT ![c].phase = "done"]
    /\ UNCHANGED <<adapterVars, cacheVars, statsVars, lifeVars>>

(* What the adapter makes of the pipeline's answer for some texts. *)
AdapterResults(texts) ==
    IF TensorBatches /\ Len(texts) > 1 THEN <<Merged>> ELSE texts

Embedded(c) ==
    /\ call[c].kind = "single" /\ call[c].phase = "embedding"
    /\ Use(c, "idle")
    /\ call' = [call EXCEPT ![c].phase = "done", ![c].answers = call[c].texts]
    /\ CacheAll(call[c].texts, call[c].texts)
    /\ UNCHANGED <<adapterVars, statsVars, lifeVars>>

(* Mutant: the results are placed from the front, over the cached ones. *)
PlacedFromFront(answers, open, results) ==
    [i \in 1..Len(answers) |-> IF i \in 1..Len(results) THEN results[i] ELSE answers[i]]

(* results[uncachedIndices[i]] = batchResults[i] *)
Placed(answers, open, results) ==
    [i \in 1..Len(answers) |->
        IF \E j \in 1..Len(results) : open[j] = i
        THEN results[CHOOSE j \in 1..Len(results) : open[j] = i]
        ELSE answers[i]]

(* One slice of BatchSize texts is answered; after the last one the        *)
(* results are placed, cached and counted.                                 *)
SliceEmbedded(c) ==
    LET open   == call[c].open
        texts  == [i \in 1..Len(open) |-> call[c].texts[open[i]]]
        from   == call[c].slice * BatchSize
        slice  == SubSeq(texts, from + 1, IF from + BatchSize < Len(texts)
                                          THEN from + BatchSize ELSE Len(texts))
        got    == call[c].got \o AdapterResults(slice)
    IN
    /\ call[c].kind = "batch" /\ call[c].phase = "embedding"
    /\ Use(c, "idle")
    /\ merged' = (merged \/ AdapterResults(slice) # slice)
    /\ IF from + BatchSize < Len(texts)
       THEN /\ call' = [call EXCEPT ![c].got = got, ![c].slice = @ + 1,
                                    ![c].phase = "ready", ![c].attempt = 0]
            /\ UNCHANGED <<cacheVars, requests>>
       ELSE /\ call' = [call EXCEPT ![c].answers = Placed(@, open, got), ![c].got = <<>>,
                                    ![c].phase = "done"]
            /\ CacheAll(texts, got)
            /\ requests' = requests + Len(call[c].texts)
    /\ UNCHANGED <<adapterVars, hits, lifeVars>>

(* RetryableOperation.execute: single requests retry every error, batches  *)
(* those the default policy knows, of which only timeouts reach it.        *)
Retries(c, timeout) ==
    /\ call[c].kind = "single" \/ (call[c].kind = "batch" /\ timeout)
    /\ call[c].attempt + 1 < MaxRetries

AttemptFails(c, timeout) ==
    /\ call[c].phase = "embedding"
    /\ \/ call[c].kind # "preload" /\ Use(c, "idle")
       \/ /\ at[c] = "failed"
          /\ Hold(c, "idle", 0)
          /\ UNCHANGED <<recordVars, disposalVars>>
    /\ call' = [call EXCEPT
                  ![c].attempt = IF Retries(c, timeout) THEN @ + 1 ELSE @,
                  ![c].phase = IF Retries(c, timeout) THEN "delay" ELSE "failed"]
    /\ UNCHANGED <<adapterVars, cacheVars, statsVars, lifeVars>>

DelayEnds(c) ==
    /\ call[c].phase = "delay"
    /\ call' = [call EXCEPT ![c].phase = "ready"]
    /\ UNCHANGED <<modelVars, adapterVars, cacheVars, statsVars, lifeVars>>

-----------------------------------------------------------------------------
ClearCache ==
    /\ cache' = [k \in Keys |-> None] /\ age' = <<>>
    /\ UNCHANGED <<modelVars, adapterVars, statsVars, call, lifeVars>>

(* Mutant: dispose leaves the cache alone. *)
DisposedKeepsCache ==
    /\ UNCHANGED cacheVars
    /\ adapter' = FALSE /\ promise' = 0
    /\ blank' = TRUE
    /\ overlap' = (PendingCreations # {} \/ \E c \in Callers : UnderWay(c))

Disposed ==
    /\ cache' = [k \in Keys |-> None] /\ age' = <<>>
    /\ adapter' = FALSE /\ promise' = 0
    /\ blank' = TRUE
    /\ overlap' = (PendingCreations # {} \/ \E c \in Callers : UnderWay(c))

Dispose ==
    /\ IF adapter
       THEN /\ closing < MaxClosings
            /\ closing' = closing + 1
            /\ UNCHANGED <<adapterVars, cacheVars, blank, overlap>>
       ELSE Disposed /\ UNCHANGED <<creation, closing>>
    /\ UNCHANGED <<modelVars, statsVars, call>>

AdapterDisposed ==
    /\ closing > 0 /\ closing' = closing - 1
    /\ Disposed
    /\ UNCHANGED <<modelVars, creation, statsVars, call>>

Progress(c) ==
    \/ Attempt(c) \/ Preloaded(c) \/ Embedded(c) \/ SliceEmbedded(c) \/ DelayEnds(c)
    \/ \E timeout \in BOOLEAN : AttemptFails(c, timeout)

CreationEnds == \E i \in 1..MaxCreations : AdapterCreated(i) \/ CreationFails(i)

GenNext ==
    \/ \E c \in Callers, texts \in Requests :
          GenerateBatch(c, texts) \/ GenerateEmbedding(c, Head(texts))
    \/ \E c \in Callers : PreloadModel(c) \/ Progress(c)
    \/ CreationEnds
    \/ ClearCache \/ Dispose \/ AdapterDisposed
    \/ Settles /\ UNCHANGED genVars
    \/ \E d \in Disposers : DisposeAllModels(d) /\ UNCHANGED genVars
    \/ \E d \in Disposers : PipelineDisposed(d) /\ UNCHANGED genVars

EmbInit == ModelInit /\ GenInit
EmbSpec == EmbInit /\ [][GenNext]_embVars

-----------------------------------------------------------------------------
(* The variables of the generator and of the models under it keep their    *)
(* types.  The order of the cache's entries fits them: it lists each once  *)
(* and nothing else, whatever is stored again, evicted or cleared          *)
(* (setCachedEmbedding, clearCache, dispose).                              *)
EmbTypeOK == ModelTypeOK /\ GenTypeOK

(* A finished request has one answer for each of its texts, at its place:  *)
(* the embedding of that text where the adapter was asked for it, and of   *)
(* it or one with the same cache key where the cache had one, whatever     *)
(* was evicted, sliced, retried or asked concurrently (generateEmbedding,  *)
(* generateBatchEmbeddings).                                               *)
AnswersMatchTexts ==
    \A c \in Callers :
        call[c].phase = "done" /\ call[c].kind # "preload" =>
            /\ Len(call[c].answers) = Len(call[c].texts)
            /\ \A i \in 1..Len(call[c].texts) :
                  /\ call[c].answers[i] \in Texts
                  /\ KeyOf[call[c].answers[i]] = KeyOf[call[c].texts[i]]
                  /\ i \in ToSet(call[c].open) => call[c].answers[i] = call[c].texts[i]

(* Every text asked for is a hit or was sent to the adapter, so the hit    *)
(* rate is at most 1 - once no batch is under way or has failed: the hits  *)
(* of a batch are counted when it starts, its requests when it ends.       *)
StatsAddUp ==
    (\A c \in Callers : call[c].kind = "batch" => call[c].phase = "done") =>
        requests - hits = Total([c \in Callers |-> Len(call[c].open)], Callers)

(* After dispose the generator stays without adapter and entries until it  *)
(* is used again, unless a request or a creation was under way when        *)
(* dispose ended: those finish on the disposed generator.                  *)
DisposedStaysBlank ==
    blank /\ ~overlap => ~adapter /\ cache = [k \in Keys |-> None]

(* Who waits, waits for something that is under way: a creation that is    *)
(* pending, a load that is running or a pipeline that is working.  No      *)
(* failure, dispose or disposal of the models leaves a request behind      *)
(* (getAdapter, getOrLoadModel).                                           *)
NobodyForgotten ==
    \A c \in Callers :
        /\ call[c].phase = "adapter" => call[c].on \in PendingCreations
        /\ call[c].phase = "embedding" => at[c] # "idle"
        /\ at[c] \in {"starting", "joined"} => loading[rec[c]]

(* A batch puts cached and new embeddings together: answers stay with      *)
(* their texts, as long as no slice of several texts was answered with one *)
(* tensor, and hits and requests add up in any case                        *)
(* (generateBatchEmbeddings).                                              *)
BatchesAddUp == (~merged => AnswersMatchTexts) /\ StatsAddUp
===============================================================================
