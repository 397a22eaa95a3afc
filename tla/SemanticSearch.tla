---------------------------- MODULE SemanticSearch ----------------------------
(***************************************************************************)
(* SemanticSearch over the storage manager: searches read the contexts     *)
(* one by one and cache what they found, while contexts are added,         *)
(* removed and cleared and the cache is emptied.                           *)
(*                                                                         *)
(* The storage manager is the one of storage-manager.ts over several       *)
(* adapters: a write is sent to those that are usable when it starts, each *)
(* executes it, abandons attempts that may be executed later, or gives up, *)
(* and nothing brings the adapters back together.  Which adapters are      *)
(* usable is AdapterHealth's subject and any set here.  Scores and rerank  *)
(* factors are percentages.                                                *)
(***************************************************************************)
EXTENDS Ranking

CONSTANTS
    Ids, IdOrder,       \* contexts, and the order storage lists them in
    Contents, Nothing,
    Misfits,            \* contents whose embedding has another dimension
    Queries,
    Score,              \* similarity of a content to a query
    Stamp,              \* metadata.timestamp of a content, 0 without one
    LengthFactor,       \* rerank factor of a content's length: 110, 100 or 90
    AgeFactor,          \* rerank factor of its age: 105 or 100
    Options,            \* BOUND: the options given to search
    Inputs,             \* BOUND: the contexts added, pairs of id and content
    Passes,             \* for each filter, the contents it lets through
    DefaultTopK, MaxResults, DefaultThreshold, FullScore,
    EnableCaching, MaxCached,
    Searchers, Changers,    \* callers that search, and callers that change contexts
    NumAdapters, WriteQuorum,
    MaxOrphans          \* BOUND: abandoned writes still to come

ASSUME SearchAssumption ==
    /\ IdOrder \in Seq(Ids) /\ ToSet(IdOrder) = Ids /\ IsInjective(IdOrder)
    /\ Nothing \notin Contents /\ Misfits \subseteq Contents
    /\ Score \in [Queries -> [Contents -> -FullScore..FullScore]]
    /\ Stamp \in [Contents -> Nat]
    /\ LengthFactor \in [Contents -> {90, 100, 110}]
    /\ AgeFactor \in [Contents -> {100, 105}]
    /\ DefaultTopK \in Nat \ {0} /\ MaxResults \in Nat \ {0}
    /\ DefaultThreshold \in Int /\ FullScore \in Nat
    /\ Passes \in [DOMAIN Passes -> SUBSET Contents]
    /\ Options \subseteq [topK : Nat, maxResults : Nat, threshold : Int,
                          filter : DOMAIN Passes, rerank : BOOLEAN]
    /\ Inputs \subseteq Ids \X Contents
    /\ EnableCaching \in BOOLEAN /\ MaxCached \in Nat \ {0}
    /\ Searchers \cap Changers = {}
    /\ NumAdapters \in Nat \ {0} /\ WriteQuorum \in Nat
    /\ MaxOrphans \in Nat

VARIABLES
    store,          \* what each adapter holds for each context
    searchCache,    \* entries from the oldest to the newest
    job,            \* what each caller is doing
    orphans,        \* abandoned writes that an adapter may still execute
    dirty           \* history: a change took effect whose call did not empty the cache

searchVars == <<store, searchCache, job, orphans, dirty>>

Users == Searchers \cup Changers

NoJob == [kind |-> "none", phase |-> "idle", query |-> Nothing, options |-> Nothing,
          id |-> Nothing, content |-> Nothing, todo |-> <<>>, found |-> <<>>, results |-> <<>>,
          targets |-> {}, took |-> 0, asked |-> 0,
          seen |-> {}, kept |-> {}, missed |-> FALSE]   \* history of a search

JobKinds    == {"none", "search", "add", "remove", "clear"}
JobPhases   == {"idle", "embedding", "listing", "reading", "reranking", "writing", "done"}
Idle(c)  == job[c].phase \in {"idle", "done"}

Adapters     == 1..NumAdapters
StoredIds(a) == {i \in Ids : store[a][i] # Nothing}
Held         == {x \in Ids \X Contents : \E a \in Adapters : store[a][x[1]] = x[2]}
Everywhere   == {x \in Ids \X Contents : \A a \in Adapters : store[a][x[1]] = x[2]}

SearchInit ==
    /\ store = [a \in Adapters |-> [i \in Ids |-> Nothing]]
    /\ searchCache = <<>>
    /\ job = [c \in Users |-> NoJob]
    /\ orphans = {} /\ dirty = FALSE

-----------------------------------------------------------------------------
(* Options, ranking and reranking. *)

Or(a, b) == IF a = 0 THEN b ELSE a     \* a || b on numbers

Resolve(options) ==
    [topK |-> Lesser(Or(Or(options.maxResults, options.topK), DefaultTopK), MaxResults),
     threshold |-> Or(options.threshold, DefaultThreshold),
     filter |-> options.filter,
     rerank |-> options.rerank]

Raw(query, contexts) ==
    [i \in 1..Len(contexts) |->
        [id |-> contexts[i].id, content |-> contexts[i].content,
         score |-> Score[query][contexts[i].content], stamp |-> Stamp[contexts[i].content]]]

(* rankRawResults and mapRankedToResults. *)
Ranked(query, resolved, contexts) ==
    LET ranked == RankBySimilarity(Raw(query, contexts), "metadata",
                                   resolved.threshold, resolved.topK)
    IN [i \in 1..Len(ranked) |-> [id |-> ranked[i].id, content |-> ranked[i].content,
                                  score |-> ranked[i].score * 10000, rank |-> i]]

RerankScore(r) ==
    Lesser((r.score \div 10000) * LengthFactor[r.content] * AgeFactor[r.content],
           FullScore * 10000)

RerankResults(results) ==
    StableSort([i \in 1..Len(results) |-> [results[i] EXCEPT !.score = RerankScore(results[i])]],
               LAMBDA a, b : a.score > b.score)

-----------------------------------------------------------------------------
(* The cache.  The filter is a function, and JSON drops functions.         *)

CacheKey(query, resolved) == <<query, resolved.topK, resolved.threshold, resolved.rerank>>

EntriesOf(key) == {i \in 1..Len(searchCache) : searchCache[i].key = key}

(* cacheResults: an entry keeps its place when it is set again. *)
CachedWith(entry) ==
    LET same  == EntriesOf(entry.key)
        table == IF same = {} THEN Append(searchCache, entry)
                 ELSE [i \in 1..Len(searchCache) |-> IF i \in same THEN entry ELSE searchCache[i]]
    IN IF Len(table) > MaxCached THEN Tail(table) ELSE table

Answered(asked, results) ==
    [NoJob EXCEPT !.kind = "search", !.phase = "done", !.query = asked.query,
                  !.options = asked.options, !.results = results]

FinishSearch(c, results) ==
    /\ job' = [job EXCEPT ![c] = Answered(job[c], results)]
    /\ searchCache' = IF ~EnableCaching THEN searchCache
                      ELSE CachedWith([key |-> CacheKey(job[c].query, job[c].options),
                                       options |-> job[c].options, results |-> results,
                                       clean |-> job[c].seen = job[c].kept /\ ~job[c].missed])
    /\ UNCHANGED <<store, orphans, dirty>>

(* The call throws. *)
Fails(c) ==
    /\ job' = [job EXCEPT ![c] = NoJob]
    /\ UNCHANGED <<store, searchCache, orphans, dirty>>

-----------------------------------------------------------------------------
(* search.  A signal may have aborted whenever the code looks at it.       *)

StartSearch(c, query, options) ==
    LET resolved == Resolve(options)
        asked    == [NoJob EXCEPT !.kind = "search", !.query = query, !.options = resolved]
        hits     == EntriesOf(CacheKey(query, resolved))
        GoOn     == job' = [job EXCEPT ![c] = [asked EXCEPT !.phase = "embedding"]]
    IN
    /\ Idle(c)
    /\ \/ /\ EnableCaching
          /\ \E i \in hits :
                \/ /\ job' = [job EXCEPT ![c] = Answered(asked, searchCache[i].results)]
                   /\ UNCHANGED searchCache
                \/ /\ searchCache' = RemoveAt(searchCache, i)    \* expired
                   /\ GoOn
       \/ /\ ~EnableCaching \/ hits = {}
          /\ GoOn
          /\ UNCHANGED searchCache
    /\ UNCHANGED <<store, orphans, dirty>>

Searching(c, phase) == job[c].kind = "search" /\ job[c].phase = phase

(* The query is embedded, after retries, or it is not, or the search was   *)
(* aborted meanwhile.                                                      *)
QueryEmbedded(c) ==
    /\ Searching(c, "embedding")
    /\ \/ Fails(c)
       \/ /\ job' = [job EXCEPT ![c].phase = "listing"]
          /\ UNCHANGED <<store, searchCache, orphans, dirty>>

(* storageManager.keys throws, or lists what the first usable adapter has. *)
KeysListed(c) ==
    /\ Searching(c, "listing")
    /\ \/ Fails(c)
       \/ /\ \E a \in Adapters :
                job' = [job EXCEPT ![c] =
                          IF StoredIds(a) = {} THEN Answered(@, <<>>)
                          ELSE [@ EXCEPT !.phase = "reading", !.seen = Held, !.kept = Everywhere,
                                         !.todo = Keep(IdOrder, StoredIds(a))]]
          /\ UNCHANGED <<store, searchCache, orphans, dirty>>

(* What is done with the contexts once they are read. *)
Conclude(c, contexts) ==
    LET resolved == job[c].options
        filtered == Keep(contexts, {x \in ToSet(contexts) : x.content \in Passes[resolved.filter]})
        results  == Ranked(job[c].query, resolved, filtered)
    IN \/ /\ filtered = <<>>
          /\ job' = [job EXCEPT ![c] = Answered(job[c], <<>>)]
          /\ UNCHANGED <<store, searchCache, orphans, dirty>>
       \/ /\ filtered # <<>>
          /\ \/ Fails(c)
             \/ /\ \A i \in 1..Len(filtered) : filtered[i].content \notin Misfits
                /\ IF resolved.rerank /\ Len(results) > 1
                   THEN /\ job' = [job EXCEPT ![c].phase = "reranking", ![c].found = <<>>,
                                              ![c].results = results]
                        /\ UNCHANGED <<store, searchCache, orphans, dirty>>
                   ELSE FinishSearch(c, results)

(* storageManager.get asks the usable adapters one after the other, until  *)
(* one answers with a value.  One without the context, or whose attempts   *)
(* all fail, is passed over; after the last one the answer is null, and    *)
(* the context left out.  Without a usable adapter the search throws.      *)
ContextRead(c) ==
    /\ Searching(c, "reading") /\ job[c].todo # <<>>
    /\ \/ job[c].asked = 0 /\ Fails(c)
       \/ /\ \E a \in Adapters :
                LET id == Head(job[c].todo) IN
                /\ a > job[c].asked
                /\ \/ /\ store[a][id] # Nothing
                      /\ job' = [job EXCEPT ![c].todo = Tail(@), ![c].asked = 0,
                                   ![c].found = Append(@, [id |-> id, content |-> store[a][id]])]
                   \/ /\ a < NumAdapters
                      /\ job' = [job EXCEPT ![c].asked = a]
                   \/ job' = [job EXCEPT ![c].todo = Tail(@), ![c].asked = 0,
                                          ![c].missed = @ \/ store[a][id] # Nothing]
          /\ UNCHANGED <<store, searchCache, orphans, dirty>>

ContextsRead(c) ==
    /\ Searching(c, "reading") /\ job[c].todo = <<>>
    /\ Conclude(c, job[c].found)

Reranked(c) ==
    /\ Searching(c, "reranking")
    /\ FinishSearch(c, RerankResults(job[c].results))

-----------------------------------------------------------------------------
(* Changes of the contexts.  A call of the storage manager starts with the *)
(* adapters that are usable then; a set throws when they are too few.      *)

Writing(j, i, ts) == [j EXCEPT !.phase = "writing", !.id = i, !.targets = ts, !.took = 0]

Enough(ts) == Cardinality(ts) >= WriteQuorum

(* The context has an embedding or needs one. *)
AddContext(c, i, content) ==
    LET new == [NoJob EXCEPT !.kind = "add", !.id = i, !.content = content] IN
    /\ Idle(c)
    /\ \/ job' = [job EXCEPT ![c] = [new EXCEPT !.phase = "embedding"]]
       \/ \E ts \in SUBSET Adapters :
             Enough(ts) /\ job' = [job EXCEPT ![c] = Writing(new, i, ts)]
    /\ UNCHANGED <<store, searchCache, orphans, dirty>>

ContentEmbedded(c) ==
    /\ job[c].kind = "add" /\ job[c].phase = "embedding"
    /\ \/ Fails(c)
       \/ /\ \E ts \in SUBSET Adapters :
                Enough(ts) /\ job' = [job EXCEPT ![c] = Writing(@, @.id, ts)]
          /\ UNCHANGED <<store, searchCache, orphans, dirty>>

RemoveContext(c, i) ==
    /\ Idle(c)
    /\ \E ts \in SUBSET Adapters :
          job' = [job EXCEPT ![c] = Writing([NoJob EXCEPT !.kind = "remove"], i, ts)]
    /\ UNCHANGED <<store, searchCache, orphans, dirty>>

ClearContexts(c) ==
    /\ Idle(c)
    /\ job' = [job EXCEPT ![c] = [NoJob EXCEPT !.kind = "clear", !.phase = "listing"]]
    /\ UNCHANGED <<store, searchCache, orphans, dirty>>

EmptyCache == searchCache' = <<>> /\ dirty' = FALSE

ClearListed(c) ==
    /\ job[c].kind = "clear" /\ job[c].phase = "listing"
    /\ \/ Fails(c)
       \/ \E a \in Adapters, ts \in SUBSET Adapters :
             LET todo == Keep(IdOrder, StoredIds(a)) IN
             \/ /\ todo = <<>>
                /\ EmptyCache
                /\ job' = [job EXCEPT ![c] = NoJob]
                /\ UNCHANGED <<store, orphans>>
             \/ /\ todo # <<>>
                /\ job' = [job EXCEPT ![c] = [Writing(@, Head(todo), ts) EXCEPT !.todo = todo]]
                /\ UNCHANGED <<store, searchCache, orphans, dirty>>

-----------------------------------------------------------------------------
(* set and delete at one adapter.  A request that is executed changes what *)
(* the adapter holds under the searches that are reading.                  *)
Put(a, i, content, jobs) ==
    /\ store' = [store EXCEPT ![a][i] = content]
    /\ job' = [c \in Users |->
                 IF jobs[c].phase \in {"reading", "reranking"}
                 THEN [jobs[c] EXCEPT !.seen = @ \cup Held', !.kept = @ \cap Everywhere']
                 ELSE jobs[c]]

Pending(c, a) == job[c].phase = "writing" /\ a \in job[c].targets

(* An attempt succeeds: a set counts for the quorum, a delete when it      *)
(* deleted something.                                                      *)
Executes(c, a) ==
    LET counts == job[c].kind = "add" \/ store[a][job[c].id] # Nothing IN
    /\ Pending(c, a)
    /\ Put(a, job[c].id, job[c].content,
           [job EXCEPT ![c].targets = @ \ {a},
                       ![c].took = IF counts THEN @ + 1 ELSE @])
    /\ UNCHANGED <<searchCache, orphans, dirty>>

(* An attempt times out.  There may be another one; the adapter may        *)
(* execute what was abandoned, whatever becomes of the call.               *)
Abandons(c, a) ==
    /\ Pending(c, a)
    /\ orphans' = orphans \cup {<<a, job[c].id, job[c].content>>}
    /\ Cardinality(orphans') <= MaxOrphans
    /\ UNCHANGED <<store, searchCache, job, dirty>>

GivesUp(c, a) ==
    /\ Pending(c, a)
    /\ job' = [job EXCEPT ![c].targets = @ \ {a}]
    /\ UNCHANGED <<store, searchCache, orphans, dirty>>

OrphanApplied ==
    \E w \in orphans :
        /\ Put(w[1], w[2], w[3], job)
        /\ orphans' = orphans \ {w} /\ dirty' = TRUE
        /\ UNCHANGED searchCache

-----------------------------------------------------------------------------
(* All targets are done.  A set throws without its quorum, a delete tells  *)
(* whether an adapter has deleted something, and clearContexts does not    *)
(* look at what it tells.                                                  *)
Reported(c) ==
    /\ job[c].kind = "add" => job[c].took >= WriteQuorum
    /\ job[c].kind = "remove" => job[c].took > 0

NextCleared(c) ==
    /\ \E ts \in SUBSET Adapters :
          LET rest == Tail(job[c].todo) IN
          job' = [job EXCEPT ![c] = [Writing(@, Head(rest), ts) EXCEPT !.todo = rest]]
    /\ UNCHANGED <<searchCache, dirty>>

(* Mutant: the cache is emptied when contexts are added only. *)
CallEndsAdded(c) ==
    /\ job[c].phase = "writing" /\ job[c].targets = {}
    /\ \/ Len(job[c].todo) > 1 /\ NextCleared(c)
       \/ /\ Len(job[c].todo) <= 1
          /\ job' = [job EXCEPT ![c] = NoJob]
          /\ IF job[c].kind = "add" THEN EmptyCache ELSE UNCHANGED <<searchCache, dirty>>
    /\ UNCHANGED <<store, orphans>>

(* The cache is emptied when a context was added or removed and after the  *)
(* last one that is cleared; not when the call throws or reports nothing   *)
(* removed.                                                                *)
CallEnds(c) ==
    /\ job[c].phase = "writing" /\ job[c].targets = {}
    /\ \/ Len(job[c].todo) > 1 /\ NextCleared(c)
       \/ /\ Len(job[c].todo) <= 1
          /\ job' = [job EXCEPT ![c] = NoJob]
          /\ \/ Reported(c) /\ EmptyCache
             \/ /\ ~Reported(c)
                /\ dirty' = (dirty \/ job[c].took > 0)
                /\ UNCHANGED searchCache
    /\ UNCHANGED <<store, orphans>>

ClearSearchCache ==
    /\ EmptyCache
    /\ UNCHANGED <<store, job, orphans>>

SearchNext ==
    \/ \E c \in Searchers :
          \/ \E q \in Queries, o \in Options : StartSearch(c, q, o)
          \/ QueryEmbedded(c) \/ KeysListed(c) \/ ContextRead(c) \/ ContextsRead(c) \/ Reranked(c)
    \/ \E c \in Changers :
          \/ \E x \in Inputs : AddContext(c, x[1], x[2])
          \/ \E i \in Ids : RemoveContext(c, i)
          \/ ClearContexts(c)
          \/ ContentEmbedded(c) \/ ClearListed(c)
          \/ \E a \in Adapters : Executes(c, a) \/ Abandons(c, a) \/ GivesUp(c, a)
          \/ CallEnds(c)
    \/ OrphanApplied \/ ClearSearchCache

SearchSpec == SearchInit /\ [][SearchNext]_searchVars

-----------------------------------------------------------------------------
Settings == [topK : Nat \ {0}, threshold : Int, filter : DOMAIN Passes, rerank : BOOLEAN]
Answer   == [id : Ids, content : Contents, score : Int, rank : Nat]
Entry    == [key : Queries \X (Nat \ {0}) \X Int \X BOOLEAN, options : Settings,
             results : Seq(Answer), clean : BOOLEAN]
Job == [kind : JobKinds, phase : JobPhases,
        query : Queries \cup {Nothing}, options : Settings \cup {Nothing},
        id : Ids \cup {Nothing}, content : Contents \cup {Nothing},
        todo : Seq(Ids), found : Seq([id : Ids, content : Contents]), results : Seq(Answer),
        targets : SUBSET Adapters, took : Nat, asked : Nat,
        seen : SUBSET (Ids \X Contents), kept : SUBSET (Ids \X Contents), missed : BOOLEAN]

SearchTypeOK ==
    /\ store \in [Adapters -> [Ids -> Contents \cup {Nothing}]]
    /\ searchCache \in Seq(Entry) /\ Len(searchCache) <= MaxCached
    /\ \A i, j \in 1..Len(searchCache) : searchCache[i].key = searchCache[j].key => i = j
    /\ job \in [Users -> Job]
    /\ orphans \subseteq Adapters \X Ids \X (Contents \cup {Nothing})
    /\ dirty \in BOOLEAN

(* What an undisturbed search answers, of the set of stored contexts:      *)
(* whether some results are an admissible answer.                          *)
Answers(query, resolved, contents, results) ==
    LET fit   == {x \in contents : x[2] \in Passes[resolved.filter]
                                   /\ Score[query][x[2]] >= resolved.threshold}
        found == {<<results[i].id, results[i].content>> : i \in 1..Len(results)}
    IN /\ found \subseteq fit
       /\ Cardinality(found) = Len(results)
       /\ Len(results) = Lesser(resolved.topK, Cardinality(fit))
       /\ \A x \in found, y \in fit \ found :
             \/ Score[query][x[2]] > Score[query][y[2]]
             \/ Score[query][x[2]] = Score[query][y[2]] /\ Stamp[x[2]] >= Stamp[y[2]]

(* A change that took effect at an adapter and whose call has not ended.   *)
Unsettled == \E c \in Users :
    /\ job[c].kind \in {"add", "remove", "clear"} /\ job[c].phase = "writing"
    /\ job[c].took > 0 \/ job[c].kind = "clear"

(* As long as nothing is being changed, and no change took effect since    *)
(* the cache was last emptied whose call did not empty it, an entry of a   *)
(* search that found all adapters alike, unchanged and readable answers    *)
(* from the contexts the adapters hold now (addContext, removeContext,     *)
(* clearContexts empty the cache; cacheResults).                           *)
CacheFresh ==
    ~dirty /\ ~Unsettled =>
        \A i \in 1..Len(searchCache) :
            LET e == searchCache[i]
            IN e.clean => /\ Held = Everywhere
                          /\ Answers(e.key[1], e.options, Held, e.results)

(* What a search that read the store and now ends has to answer.           *)
AnswerOfItsTime(c) ==
    job[c].phase \in {"reading", "reranking"} /\ job'[c].phase = "done" =>
        LET resolved == job[c].options
            results  == job'[c].results
            Worth(x) == Score[job[c].query][x]
        IN /\ Len(results) <= resolved.topK
           /\ \A i, j \in 1..Len(results) : results[i].id = results[j].id => i = j
           /\ \A i \in 1..Len(results) :
                 /\ <<results[i].id, results[i].content>> \in job[c].seen
                 /\ results[i].content \in Passes[resolved.filter]
                 /\ Worth(results[i].content) >= resolved.threshold
           /\ \A x \in job[c].kept :
                 \/ job[c].missed
                 \/ \E i \in 1..Len(results) : results[i].id = x[1]
                 \/ x[2] \notin Passes[resolved.filter] \/ Worth(x[2]) < resolved.threshold
                 \/ /\ Len(results) = resolved.topK
                    /\ \A i \in 1..Len(results) : Worth(results[i].content) >= Worth(x[2])

(* A search that read the store answers with contexts that some adapter    *)
(* held while it ran, each once, none below the threshold, and leaves out  *)
(* one that all adapters held all the time only for as many better ones or *)
(* because the last adapter asked for it failed (getStoredContexts over    *)
(* StorageManager.keys and get, rankRawResults).                           *)
AnswersFromItsTime == [][\A c \in Searchers : AnswerOfItsTime(c)]_searchVars

(* A cached answer respects the filter of the search that gets it          *)
(* (getCacheKey: "Keyed on the resolved options").                         *)
FilterRespected ==
    \A c \in Users :
        job[c].kind = "search" /\ job[c].phase = "done" =>
            \A i \in 1..Len(job[c].results) :
                job[c].results[i].content \in Passes[job[c].options.filter]

(* The cache of results holds at most one entry of a key, within its       *)
(* limit, and undisturbed entries answer from the present contexts.        *)
CacheOK == SearchTypeOK /\ CacheFresh
===============================================================================
