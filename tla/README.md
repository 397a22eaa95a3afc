# AtomicMemory SDK: specifications, model checking and proofs

TLA+ modules for the AtomicMemory TypeScript SDK (`@atomicmemory/sdk`), with the TLC
configurations that check them and the theorems TLAPS proves about them. Paths below are
relative to `src/src/`, the SDK's `src` directory.

Contents: [the system](#the-system) · [modules](#modules) · [abstractions](#abstractions-and-their-limits) ·
[runs](#runs) · [fairness](#fairness) · [proofs](#what-is-proved) ·
[divergences](#where-code-and-documentation-differ) · [not modelled](#not-modelled) · [plan](#plan)

## The system

The SDK runs in one JavaScript event loop. Nothing is preempted; everything that is hard
happens at an `await`: while one function waits, timers, other calls and the callbacks of
abandoned requests run and change the state it has already read.

```
MemoryClient ── MemoryService ── providers (AtomicMemory, Mem0, Hindsight) ── HTTP
                                                                            
SemanticSearch ── EmbeddingGenerator ── TransformersAdapter (models)
      │
StorageManager ── RetryEngine ── StorageAdapter (memory, IndexedDB, the application's)
      │                                ▲
ResilienceManager ─┬ HealthTracker ────┤  (periodic checks)
                   ├ CircuitBreaker    │
                   └ RepairManager ────┘  (periodic repairs)
EventEmitter: every part reports through it
```

### kv-cache: replicated key-value storage (the core)

| Component | State | Operations | What is hard | What makes it correct |
|---|---|---|---|---|
| `HealthTracker` | one health record per adapter: `isHealthy`, run of failures, counts, breaker flag | `recordSuccess`, `recordFailure`, periodic check, deep check | reports of old operations and stale checks arrive in any order; checks overlap | the flag agrees with the run of failures and the breaker; an available adapter gets back into use |
| `CircuitBreaker` | none of its own: fields of the health record | open, close | closing needs an operation on an adapter that gets none | it opens only with enough history; only an operation closes it |
| `ResilienceManager` | none of its own | reports, `getHealthyAdapters`, `canSatisfyWriteQuorum` | decisions are taken on a snapshot and used after awaits | a positive write decision rests on sound adapters |
| `StorageManager` + `RetryEngine` | per call: the snapshot of adapters, attempts, delays; the adapters' stores | `set`, `get`, `delete`, `keys`, `batch`, abort signals | partial failure, retries, a timeout that abandons a request without cancelling it, late writes, overlapping calls | success means a quorum executed the write; reads return what was written; every call ends; late effects come only from abandoned requests |
| `RepairManager` | queue of failed operations, attempts, interval | record with eviction, background run, cleanup, shutdown | runs overlap each other, evictions and cleanups and hold the same objects; no timeout | nothing disappears without an event; attempts are bounded; the queue drains |
| `MemoryStorageAdapter` | a map, the sum of sizes, a cleanup interval | `get`, `has`, `set`, `delete`, `keys`, `clear`, `batch`, `getStats`, `close` | `batch` and `clear(prefix)` await between their operations; expiry; close under way | it is a map; sizes are accounted; the quota holds; expired items go |
| `IndexedDBStorageAdapter` | an open database | the same interface in transactions | a batch that throws half way; concurrent `initialize` | a batch happens as a whole |
| validation, utilities | none | string and size checks | – | – |

### Events, embeddings, search, memory

| Component | State | Operations | What is hard | What makes it correct |
|---|---|---|---|---|
| `EventEmitter` (`core/events.ts`) | arrays of listeners by event type | `on`, `once`, `off`, `removeAllListeners`, `emit` | `emit` walks the live array and awaits listeners | order by priority; removed listeners are not called; nobody is missed |
| `EmbeddingGenerator` | lazy adapter, cache, statistics | single and batch requests, `preloadModel`, `clearCache`, `dispose` | late cache insertions, `dispose` during creation, 32-bit hash keys | answers stay with their texts; the counts add up; nobody waits for nothing |
| `TransformersAdapter` | global table of models, loads in progress | load, embed, `dispose`, `disposeAllModels` | shared loads, disposal during a load | one load per model; only what a disposal overtook is lost |
| `WasmSemanticProcessor`, feature flags, cache safety | contexts, flags with a breaker, the patched `fetch` | initialise, add, search; record errors; install and uninstall | concurrent initialisation; nested interceptors | not modelled |
| `SemanticSearch` | result cache over contexts in several adapters | `search`, `addContext`, `removeContext`, `clearContexts`, `clearCache` | results cached after awaits; contexts read one by one; writes that fail late | undisturbed entries answer from the present contexts; answers are of their own time |
| ranking, similarity | none | pure functions | ties, zero vectors, thresholds, limits | they agree with their definitions |
| `MemoryClient`, `MemoryService` | provider instances, `initialized` | `initialize`, `ingest`, `search`, `package`, `get`, `list`, `delete` | overlapping `initialize` that replaces instances; split ingests that fail half way | ready means initialised; an ingest is whole or a prefix |
| providers (AtomicMemory and its handle, Mem0, Hindsight) | none (HTTP) | the memory calls; lifecycle, audit, lessons, config, agents of the handle | late and lost requests, backends that ignore filters, paging, deferred inference, garbled answers | labels and threads are true; pages cover the list; what resolves was done; nothing destructive unasked |
| HTTP client, meta-fact filter | none; `lastIndex` of `g` patterns | requests; filtering | statuses against texts; state in a regular expression | errors are of the hierarchy; no meta-fact in the results |
| storage API client | none (HTTP) | artifacts | lost answers, newer servers, deletions in the background | an outcome is as the server has it |
| utilities, configuration, benchmarks, scripts | – | – | – | – |

`PROJECT.json` lists every component with its status, and under `hazards` the most serious of the
difficulties above at their lines, with the properties that would catch each one going wrong or the
reason why none does yet.

## Modules

| Module | Models | Notes |
|---|---|---|
| `AdapterHealth` | the health record and what `HealthTracker`, `CircuitBreaker` and `ResilienceManager` do to it | operators only; no variables |
| `Lists` | what a removal or a sort leaves of a list, and the sum of numbers | operators only; under the modules whose code filters or sorts arrays, or adds sizes up |
| `ResilienceManager` | the records as operations and checks drive them | `EXTENDS AdapterHealth` |
| `StorageManager` | calls, retries, timeouts, aborts, several adapters, one key | `EXTENDS AdapterHealth` |
| `RepairManager` | the repair queue and its background runs | `EXTENDS AdapterHealth` |
| `KeyValueStore` | abstract: what the `StorageAdapter` interface promises | implemented by `MemoryStorage` |
| `MemoryStorage` | the memory adapter | refinement mapping `KV` at the end of the module |
| `EventEmitter` | listeners and emissions of one event type | |
| `ModelCache` | the global table of models of `TransformersAdapter` | |
| `EmbeddingGenerator` | the generator, its cache, retries and statistics | `EXTENDS ModelCache`: the callers of one are those of the other |
| `Ranking` | similarity and ranking | operators only |
| `SemanticSearch` | searches, changes of contexts, the result cache | `EXTENDS Ranking` |
| `HttpClient` | what the HTTP client of the providers makes of an answer | operators only |
| `MemoryScopes` | what each provider forwards, checks and echoes of a scope | operators only; `EXTENDS HttpClient` |
| `MetaFacts` | the meta-fact filter | operators only |
| `MemoryCalls` | memory calls of the four providers against a backend | composes the three above |
| `MemoryClient` | initialization and the processing pipeline above the providers | |
| `AdminRoutes` | the other categories of the AtomicMemory handle | `EXTENDS HttpClient` |
| `ArtifactStorage` | the client of the storage API against a server | |
| `MC*` | instances for TLC | |
| `ListsProofs` | lemmas about `Lists`, folds and sequences | cited by the modules below |
| `AdapterHealthProofs`, `ResilienceManagerProofs`, `StorageManagerProofs`, `RepairManagerProofs`, `MemoryStorageProofs` | proofs about the modules of those names | |
| `EmbeddingProofs` | proofs about `ModelCache`, `EmbeddingGenerator`, `EventEmitter`, `Ranking`, `SemanticSearch` | a part and an invariant for each |
| `RemoteProofs` | proofs about `MemoryClient`, `AdminRoutes`, `ArtifactStorage`, `MetaFacts`, `MemoryCalls` | a part and an invariant for each |

### How state and actions correspond to the code

A step runs from one `await` to the next; whatever the code does in between without giving up the
event loop is one action, all its calls included.

* **AdapterHealth.** A record has the fields of `AdapterHealthStatus` that some decision reads.
  `TrackSuccess`/`TrackFailure` are `HealthTracker.recordSuccess`/`recordFailure`; `RecordSuccess`/
  `RecordFailure` are the methods of `ResilienceManager`, tracker first, then breaker. A passed check
  (`CheckPassed`) resets the record *and* counts a success, and tells the tracker only.
* **ResilienceManager.** `Dispatch` is an operation that takes its snapshot; it reports later by
  `OperationSucceeds`, `OperationFails` or, when the code does not report it, `OperationUnreported`.
  A shallow check has no `await` and is one step over all adapters; a deep check reads `isAvailable()`
  in `StartDeepCheck` and uses the answer in `FinishDeepCheck`. `early` is history, read by no guard but
  the one that keeps it: of the operations in flight, those sent before the breaker last opened.
* **StorageManager.** `Start` is everything up to the first `await` of `set`, `get`, `delete`, `keys`
  or `batch`: early returns, the snapshot `targets`, the first requests. `step[c][a]` is the place of
  `executeWithRetry` for call `c` and target `a`. `AttemptTimesOut` is `withTimeout` rejecting; a write
  goes to `orphans` and `OrphanExecutes` lets the store execute it at any later moment, or never. A
  `batch` that an adapter rejects may have executed the operations before the one that failed
  (`AttemptRejected`, see `MemoryStorage`); other rejected operations have no effect.
  `get` moves along its targets (`NextForGet`); the others send to all at once. `Finish` is what
  follows `Promise.allSettled`. A value is the call that wrote it, so a store and a read tell where
  their value came from. `applied` and `overlap` are history.
* **RepairManager.** `StartRun`, `ContinueRun` and `RequestAnswered` are the stretches of
  `performBackgroundRepair` between awaits; several runs are under way at a time, each with its own
  list `todo` of operations. `Tick` passes time. `failed`, `attempts`, `rest` are fields of the shared
  `FailedOperation` objects; `dropped`, `repairedOn` and `alone` are history.
* **MemoryStorage.** Methods that never wait are one action each (`Get` covers `has` too). `Batch`
  and `Clear` start a job, `ResumeBatch` and `ResumeClear` execute one operation of it. `TimePasses`
  makes an item's time be over; lookups, the interval and `getStats` remove it.
* **EventEmitter.** `arrays` holds the listener arrays as objects, `current` the one the map refers
  to: an emission keeps walking an array the map has dropped. `Emit`, `Return` and `Throw` call the
  next listener of the live array or finish, which removes the spent `once` listeners.

* **ModelCache.** A record is a `ModelInfo` object, which callers hold across awaits and which
  outlives its place in the table. `Ask` is `getOrLoadModel` up to its await, joining a load that is
  under way; `Visit` and `PipelineDisposed` are the loop of `disposeAllModels`, of which several calls
  may be under way, each at its own place (`pos`).
* **EmbeddingGenerator.** `GenerateEmbedding` and `GenerateBatch` run to the first await; `GetAdapter`
  creates the adapter or waits for the creation under way. An embedding is represented by its text, so
  an answer tells whose it is; `KeyOf` is the hash. `SliceEmbedded` is a slice of `processBatches`,
  `AttemptFails` and `DelayEnds` are `RetryableOperation`. `age` is the order of insertion, which is
  what the eviction compares.
* **Ranking.** The algorithms themselves, with `Array.prototype.sort` as `Lists.StableSort`: each
  element goes to the place that has as many before it as are ahead of it in the order.
* **SemanticSearch.** `StartSearch` looks into the cache; `QueryEmbedded`, `KeysListed`,
  `ContextRead` and `Reranked` are the stretches between awaits, the last of them ending in
  `FinishSearch`. Below it is the storage manager over several adapters: `KeysListed` asks the first
  one that is usable, `ContextRead` one after the other until one has a value, and a write goes to
  those usable when it starts (`targets`). Each target executes it (`Executes`), leaves an attempt
  behind that it may still execute (`Abandons`, `OrphanApplied`: also of a call that succeeds in the
  end), or gives up; `CallEnds` is what the caller does with the outcome (`Reported`). Which adapters
  are usable, and how often an attempt is repeated, is any choice here; both are the subjects of
  `AdapterHealth` and `StorageManager`. `dirty`, `seen`, `kept`, `missed`, `clean` are history.
* **HttpClient, MemoryScopes, MetaFacts** are the pure parts of the providers: which status ends in
  which error, which fields of a scope a route sends and checks, which contents a filter drops.
* **MemoryCalls.** `Begin` is a call up to its request (checks, `Refuse`, `Send`); the backend
  serves or rejects it (`Serve`, `Reject`, and `ServeLate`, `LoseLate` for requests nobody waits for
  any more); `Receive` reads the answer (`Fetched`, `Mapped`, `Result`), `TimeOut` is the abort signal.
  `setup` chooses the provider, its options and how the backend behaves: `ignores` names filters it
  does not apply, `projects` says whether it returns the thread of a memory, `queues` makes it a mem0
  2.0 that answers an add before it carries it out (`Queue` instead of `Serve`: the request joins the
  late ones, which may run in any order or be lost). `Follow` asks for the next page.
* **MemoryClient.** `NextAwait` runs the loop of `MemoryService.initialize` to the next provider that
  has something to await; instances are pairs of the initialization that made them and their name, so
  that two initializations can be told apart. `ServiceInitialized` sets `ready` in a step of its own,
  as the client goes on after the service has resolved. `ProviderAnswers` goes on to the next part of
  an ingest; a pipeline may leave no part at all (`parts` 0), and the ingest then resolves empty.
* **AdminRoutes.** `LifecycleBody` and the like build the request of each method, in which an absent
  field is `None`; `Carry` is what the core does with it, `To...` what the handle makes of the answer.
* **ArtifactStorage.** `UseBegin` checks the input, `UseServe` is a request with its answer (an error
  of the server or a proxy included), `UseFails` a connection that fails before or after the server has
  acted; `Reconciles` is what the server finishes later.

Every definition's source lines are in `PROJECT.json` under `map`.

## Abstractions and their limits

* **Adapters are of distinct classes.** `getAdapterId` (`kv-cache/adapter-utils.ts:13`) keys health
  records by class name; two adapters of one class share a record. The models give each its own.
* **Counters saturate at `MaxCount`.** The program counts operations without limit. In the models a
  record's history stops growing at `MaxCount` operations (the failure rate is then frozen) and a run
  of failures is counted up to it. `MaxCount` is at least every threshold, so no comparison is cut
  off; what is lost is a failure rate that falls over a long time.
* **One key** in `StorageManager`: keys do not interact in the code. All adapters support `batch`.
* **`readQuorum`** is evaluated for an event only, so it is not in the models.
* **Times.** Delays and timeouts are possible at any moment; only repair ages and intervals are
  counted, in ticks. The total duration of retries may be spent whenever a delay ends.
* **Sizes, priorities and keys** are small sets; a rejected key or value is one in `BadKeys`,
  `BadValues` or `Unfit`. The deep check's test key is accepted only by adapters in `OwnKeyRules`.
* **The backends, the core and the storage server are external**: modelled from what the clients ask
  of them and read in their answers, and marked so in the map. A 500 has no effect; a page of a backend
  is never shorter than the limit unless the list ends; an id is named only after it was learnt. The
  wording of an error is kept only as far as it may quote `HTTP 404` (`Quotes404`); no setup of
  `MCRemote` has such a backend (see divergence 13).
* **One user** in `MemoryCalls`; limits are at least 1; patterns of the meta-fact filter are anchored
  like the built-in ones.
* **A mem0 2.0 that queues** (`mem0-provider.ts:17`, "Known limitation") is one setup of `MCRemote`.
  What is sent first is then not what runs first, the ids it answers with are of events and name no
  memory, and an extraction may overtake its input; for this setup `IngestMeansStored` and the second
  half of `ExtractedOnce` claim nothing, while every other property of the calls is checked on it.
* **Vectors are of integers**, a cosine is the fraction that orders like it; rounding is left out.
  `Compatible` leaves out the check for finite components of `validateVectors`
  (`similarity-calculator.ts:278`), which no integer fails: with `NaN` or an infinity the plain metrics
  throw and the batch ones compute, and `AlgorithmsAgree` does not speak of that.
  Scores and rerank factors in `SemanticSearch` are percentages.
* **The 32-bit hash** of the generator is a function `KeyOf` under which two texts coincide.
* **The transformers library** answers a batch with a list of vectors or with one tensor; the second
  (`TensorBatches`) is what the library and the mock of `transformers-adapter.ts:549` do. `MCEmbedding`
  has behaviours of both kinds, `MCTensorBatch` shows what the second leads to.
* **Error events** of a throwing listener are emissions of another event type and left out.

## Runs

| Run | Instance | What it shows |
|---|---|---|
| `MCAdapters` | 2 adapters, thresholds 2; shallow checks with 2 overlapping operations each, or deep checks with one (`MCResilience`); or one adapter from within: 2 keys, 2 sizes, quota 3, 2 callers of batches and clears (`MCMemory`); fair | `RecordsOK`, `WriteDecisionSound`, `OnlyStragglersClose`, `AdapterHeals`, `QuotaKept`, `ClosedHoldsNothing`, `ImplementsStore`, `ExpiredGoes` |
| `MCBreakerStuck` | 1 adapter, fair | **violation** of `BreakerRecovers`, an open breaker stays open |
| `MCDeepCheckFails` | 1 adapter, deep checks | **violation** of `UnhealthyForAReason`, deep checks mark an adapter unhealthy that was always available and on which no operation failed |
| `MCStorage` | 3 adapters, quorum 2; one call with 2 attempts, aborts and a flaky adapter, or 2 overlapping calls over 2 adapters, or 2 successive ones with 2 attempts | `ReadsWereWritten`, `SuccessMeansQuorum`, `ReplicasAgree`, `LateWritesAreOrphans`, `CallsEnd` |
| `MCRepair` | 2 operations that both of 2 adapters missed; 2 overlapping runs, queue of 1, random eviction, or over lists of 2; or single runs with an operation unfit for one adapter | `NothingLost`, `AttemptsBounded`, `SpacedAlone`, `EverythingLeaves` |
| `MCMemoryBatch` | `MCMemory` with one caller and a key the validator rejects | **violation** of `FailedBatchDidNothing`, a failed batch has done half its work |
| `MCEmbedding` | 2 callers; 2 models in 3 records under 2 overlapping disposals, or a generator over 3 texts (2 of one hash), cache of 1, slices of 2, 2 attempts, 2 creations, 2 overlapping disposals, with either kind of pipeline, or 3 listeners and 2 emissions | `EmbTypeOK`, `ModelsShared`, `BatchesAddUp`, `DisposedStaysBlank`, `NobodyForgotten`, `ListenersOK`, `UndisturbedReachesAll`, `OffIsFinal` |
| `MCTensorBatch` | the same with a pipeline that answers a slice with one tensor | **violation** of `AnswersMatchTexts`, a batch is not answered with the embedding of each text |
| `MCSearch` | 2 contexts, 3 contents (1 of another dimension), a searcher, a changer, 2 adapters with a quorum of 1, 1 late write, cache of 1; the contents are of one dimension, or there is one context; or any example of vectors up to dimension 2 over -1..2 and of up to 3 results | `CacheOK`, `AnswersFromItsTime`, `AlgorithmsAgree` |
| `MCSearchFilter` | the same with two options that differ in the filter | **violation** of `FilterRespected`, a search is answered from another filter's entry |
| `MCRemote` | a reader and a writer of each provider in 10 configurations, 3 memories, 2 ingests, 1 late request; or 2 initializations over 3 providers with 2 calls; or 2 callers of the handle's other categories; or 2 callers of the storage API with 2 artifacts | `ErrorsAreProviderErrors`, `ScopesKept`, `IngestMeansStored`, `ExtractedOnce`, `DeleteMeansGone`, `WalkComplete`, `NoMetaFactInResults`, `ReadyMeansInitialized`, `IngestsAreWhole`, `ChangesAreAsked`, `ReportsAreTrue`, `AnswersAreTrue` |
| `MCMetaFacts` | the AtomicMemory provider with its filter on | **violation** of `MetaFactsNeverReachCaller`, a meta-fact is in the text of a package |

Several runs hold behaviours of more than one kind. A variable `focus` (in `MCSearch`, `example`)
says which, and never changes once it is chosen: components that share no state are checked side by
side without their product, and one component in instances whose bounds differ (`INSTANCE ... WITH`).

Why these bounds are enough to be interesting:

* `MCResilience` lets a breaker open (`MaxCount` 4 is above `MinimumOperations` 2) while a second
  operation that was sent earlier is still to report: the straggler of `OnlyStragglersClose`.
* Two calls are what any two-party race of `StorageManager` needs; a call of each kind meets each
  other because a call may be of any kind. Three adapters and a quorum of two are the smallest
  instance where a quorum is neither all nor one. Retries and overlap are separate behaviours:
  together they are beyond 20 million states and add no new kind of step. In the behaviours with two
  calls an earlier failure has taken the third adapter out of use.
* In `MCRepair` two runs and a queue of one let an operation be evicted, repaired by a run that still
  holds it, put back and cleaned up by the other run. Single runs have the partial repairs and the
  unfit operations that need two adapters.
* `MCMemory` has batches that repeat a key, that need room an earlier operation gives, and that give
  room; quota 3 with sizes 1 and 2 makes batches fail after they passed their check.
* `MCEmbedding` has listeners of equal and of higher priority, which is what makes an insertion move
  what an emission has walked over; a third record of a model, created while a disposal walks; a cache
  of one, so that the two texts of one hash evict the third and answer for each other; a batch of
  three texts, which is two slices with a cached text between them.
* `MCSearch` has two contexts whose order reranking turns round, and a changer that can remove what
  the searcher has listed and not read. Two adapters with a quorum of one are the smallest instance
  in which a write succeeds and the adapters differ: the searcher lists the keys of the one and finds
  the contexts of the other. The behaviours with a content of another dimension have one context
  only, which keeps the run short. All pairs of vectors of dimension 0, 1 and 2 meet, zero
  vectors, opposite ones and different dimensions among them, and all orders of three results with
  ties in score and timestamp.
* `MCRemote`'s writer makes ingests, verbatim and extracting, and deletions; its reader everything
  else, with pages of one so that a list of three has two cursors. Backends that
  ignore the thread filter, and one that does not return the thread, are among them. Two initializations overlap in every way over a default provider that comes last and a
  name that has no factory; one of the artifact callers puts and deletes while the other reads.

`CHECK_DEADLOCK FALSE` is used for `MCEmbedding`, `MCRemote` and `MCMetaFacts` only: there every
listener may have come and gone, and every caller may have been answered.

Each property is also checked to be breakable: `PROJECT.json` lists under `mutants` a changed
definition (the operators commented `Mutant:` in the modules) that violates it in its run.

### What the main properties say

* `SuccessMeansQuorum` relates a call's result to the adapters whose stores really executed it,
  through retries and abandoned requests; counting a settled request instead of a successful one, or
  letting the timer resolve, breaks it.
* `ReplicasAgree` is the strongest agreement the code gives: as long as no two calls that change
  stores have been under way together (`overlap` is `FALSE`), adapters that took *every* write at the
  *first* attempt agree once none is under way. A retry is enough to lose it (the abandoned first
  attempt may execute last), and so is overlap.
* `AttemptsBounded` is the limit that holds, `maxAttempts` plus one for each other run under way:
  the limit is compared before awaits and the attempt counted after them. The focus `batches` reaches it:
  a run still has the second operation of its list to try when another run, which lists it too, counts
  an attempt of it. A run that no other one has
  overlapped (`alone`) tries only what has rested for an interval (`SpacedAlone`).
* `UndisturbedReachesAll` carries its proviso because the code needs it: see the divergences.
* `ModelsShared` says which pipelines a disposal of all models leaks: those that were still loading
  when it passed their record, and no others.
* `BatchesAddUp`: each answer of a batch is the embedding of the text at its place, whatever was
  cached, sliced or retried meanwhile; only an answer from the cache may be that of another text with
  the same hash, which is what a key of 32 bits allows. It is promised until a slice of several texts
  is answered with one tensor (`merged`): from then on answers are missing, and the cache holds
  embeddings under the keys of other texts (`MCTensorBatch`). Requests minus hits is what was sent to
  the adapter in any case.
* `DisposedStaysBlank`: a generator that was disposed while nothing was under way holds nothing. The
  proviso is the hazard: a creation or request that outlives `dispose` fills it again.
* `CacheOK` is about entries of searches that no change disturbed and that found the adapters alike
  (`clean`); a search that overlaps a change may leave an entry that is stale until the next change.
  It holds while no change took effect whose call did not empty the cache (`dirty`): a failed add that
  one adapter took, a removal that reports nothing, an abandoned write that comes late.
* `AnswersFromItsTime` says what a search promises in any case: contexts that *some* adapter held
  while it ran, and everything worth it that *all* adapters held all the time, unless the last adapter
  asked failed. With adapters that differ it promises no more, and the code does not either: a
  context that was removed is answered as long as an adapter that the removal missed is asked
  (divergence 7).
* `ScopesKept`: an AtomicMemory caller is told a thread or agent only where it is true of the stored
  memory, and a search for a thread never delivers another one's, even from a backend that ignores the
  filter; of the other providers that is true with a backend that honours it.
* `IngestMeansStored`, `DeleteMeansGone`, `ExtractedOnce` and `WalkComplete` relate what a caller is
  told to the memories of the backend, over late and lost requests, deferred inference and pages. The
  promise of `IngestMeansStored` is not made of a mem0 2.0 that queues its adds: a caller who is told
  there that an ingest resolved knows only that it was accepted.
* `IngestsAreWhole`: what a split ingest has stored is a prefix of its parts at one provider instance,
  and everything when it resolves, also when `initialize()` replaces the instances in between.
* `ChangesAreAsked`: the defaults that make `consolidate` and `decay` destructive are opposite
  (`execute` and `dryRun`), and neither may slip; of two deletions of one lesson one resolves.
* `ReportsAreTrue`: what a call of the handle resolves with is what the core did, and a rejection with an
  error of the core means that it did nothing; one with another, as of an answer that cannot be parsed, may
  hide a change.
* `AnswersAreTrue`: a typed error of the storage client tells what the server found, and only a lost,
  garbled or newer answer leaves it open whether the server has changed something.

## Fairness

* Health checks and repairs come from `setInterval`, which keeps firing: weak fairness of
  `PerformHealthCheck`, `Tick` and the runs.
* Operations of `StorageManager` end because `withTimeout` ends every attempt and attempts are
  bounded: weak fairness of `Progress(c)`. The fate of an abandoned request is not promised and has
  no fairness.
* `Dispatch` is fair: an application that keeps using the store. Without operations no adapter heals
  or breaks by them, and `AdapterHeals` does not depend on it.
* Deep checks run under no timeout and have no fairness; `MCDeepCheckFails` needs none.
* A repair request runs under no timeout either. `EverythingLeaves` assumes that adapters answer; with an
  adapter that never does, a run waits for ever and its operations stay.
* The cleanup interval of the memory adapter is fair while it is set.

## What is proved

TLAPS proves the following for **every** value of the constants (numbers of adapters, calls,
attempts, thresholds, quorums, keys, values, sizes), from the assumptions named in the modules.

| Theorem | Statement |
|---|---|
| `ResilienceManagerProofs.TypeCorrect`, `RecordsConsistent`, `WriteDecisionIsSound` | `Spec => []TypeOK`, `[]RecordsOK`, `[]WriteDecisionSound` |
| `ResilienceManagerProofs.StragglersOnly` | `Spec => OnlyStragglersClose` |
| `StorageManagerProofs.TypeCorrect`, `RecordsConsistent`, `QuorumWrites` | `Spec => []TypeOK`, `[]RecordsOK`, `[]SuccessMeansQuorum` |
| `StorageManagerProofs.ReadsAreWrites`, `LateWrites` | `Spec => []ReadsWereWritten`, `Spec => LateWritesAreOrphans` |
| `StorageManagerProofs.ReplicasAreEqual` | `Spec => []ReplicasAgree` |
| `RepairManagerProofs.NothingIsLost`, `AttemptsAreBounded`, `AttemptsAreSpaced` | `Spec => []NothingLost`, `[]AttemptsBounded`, `Spec => SpacedAlone` |
| `MemoryStorageProofs.ClosedIsEmpty`, `QuotaHolds` | `MemorySpec => []ClosedHoldsNothing`, `[]QuotaKept` |
| `MemoryStorageProofs.Refinement` | `MemorySpec => ImplementsStore` |
| `EmbeddingProofs.CallersShareModels`, `GeneratorsShareModels` | `ModelSpec => []ModelsShared`, and the same for `EmbSpec` |
| `EmbeddingProofs.EmbeddingTypes`, `EmitterTypes` | `EmbSpec => []EmbTypeOK`, `Spec => []TypeOK` |
| `EmbeddingProofs.NobodyIsForgotten`, `DisposedGeneratorStaysBlank` | `EmbSpec => []NobodyForgotten`, `[]DisposedStaysBlank` |
| `EmbeddingProofs.AnswersBelongToTexts` | `EmbSpec => []BatchesAddUp` |
| `EmbeddingProofs.ListenersStaySorted`, `EmissionsReachAll` | `Spec => []ListenersOK`, `[]UndisturbedReachesAll` |
| `EmbeddingProofs.RemovedStaySilent` | `Spec => OffIsFinal` |
| `EmbeddingProofs.CacheStaysFresh`, `AnswersAreOfTheirTime` | `SearchSpec => []CacheOK`, `SearchSpec => AnswersFromItsTime` |
| `EmbeddingProofs.RankingKeepsPromise`, `NearestAlwaysFirst` | `RankedAsPromised` of all results and options, `NearestFirst` of all vectors and limits |
| `EmbeddingProofs.MetricsAlwaysAgree`, `BatchesAlwaysAgree` | `MetricsAgree` and `BatchAgrees` of all vectors of integers |
| `RemoteProofs.CallsTypes`, `ProvidersWrapErrors` | `CallsSpec => []CallsTypeOK`, `[]ErrorsAreProviderErrors` |
| `RemoteProofs.ClientTypes`, `AdminTypes`, `ArtifactTypes` | `ClientSpec => []ClientTypeOK`, `AdminSpec => []AdminTypeOK`, `ArtifactSpec => []ArtifactTypeOK` |
| `RemoteProofs.IngestsWhole`, `ReadyClientsAreInitialized` | `ClientSpec => []IngestsAreWhole`, `[]ReadyMeansInitialized` |
| `RemoteProofs.OnlyWhatIsAsked`, `AnswersTellTheTruth` | `AdminSpec => []ChangesAreAsked`, `[]ReportsAreTrue` |
| `RemoteProofs.OutcomesAreTrue` | `ArtifactSpec => []AnswersAreTrue` |
| `RemoteProofs.ExtractionRunsOnce`, `ResolvedIngestsAreStored` | `CallsSpec => []ExtractedOnce`, `[]IngestMeansStored` (what they say of a queueing mem0 is above) |
| `RemoteProofs.ResolvedDeletesVanish` | `CallsSpec => []DeleteMeansGone`, assuming that no setup quotes `HTTP 404` |
| `RemoteProofs.MemoriesStay` | `CallsSpec => [][Keeps]_callVars` |
| `RemoteProofs.ScopesAreKept`, `NoMetaFacts`, `WalksAreComplete` | `CallsSpec => []ScopesKept`, `[]NoMetaFactInResults`, `[]WalkComplete` |

The types of `ResilienceManager`, `StorageManager`, `EventEmitter`, `MemoryClient`, `AdminRoutes`,
`ArtifactStorage` and `MemoryCalls` are proved for every instance and so not checked again by a run.
They say more than types where the code could break it: that the emitter's table holds no empty array, that
a list keeps to its limit (`CallsTypeOK`), that no ingest stores more parts than there are (`ClientTypeOK`),
and that the artifact client never sends a put or an id that its own checks refuse (`ArtifactTypeOK`).

**Health records.** `AdapterHealthProofs` proves once that each operation on a record keeps its type
and `RecordOK`. `RecordOK` is needed as a whole: that the flag is `FALSE` for a reason
(`HealthFlagMatchesRun`) is kept by closing the breaker only because closing needs a run of length 0,
and `WriteDecisionSound` follows from that same part. `ResilienceManager`'s invariant adds `EarlyOK`:
no operation is sent to an adapter with an open breaker, so all that are in flight there were sent before
it opened. `StragglersOnly` follows: a report that closes the breaker is one of those, and
`UpdateCircuitBreaker` closes nothing after a failure, whose run is not of length 0.

**StorageManager.** `SuccessMeansQuorum` speaks of ended calls and is not inductive: it needs that a
target which answered a `set` without an error has executed it (`OkMeansApplied`), that a call which
has not started has no steps or results (`IdleIsBlank`), and, for the types, that a delay before
another attempt is entered only below `maxAttempts` (`AttemptsBounded`; otherwise `attempt + 1` leaves
its range). At `Finish` the successful targets are a subset of `applied`, and cardinality is monotone.

**Histories.** `ReadsWereWritten` needs the same of the stores (`StoresWritten`: whatever is under an
adapter was written by a call that adapter executed), that abandoned requests are writes or deletes
(`OrphansWrite`) and that requests go to targets (`TargetsOnly`). `LateWritesAreOrphans` is an action
property that holds because an ended call has no attempt under way (`EndedIsQuiet`), except a `get`,
which changes no store.

**Replicas.** `ReplicasAgree` is about the moments between calls. The invariant (`Agreement`) covers
the time in between: there is a value that every adapter holds that took each change at its first
attempt so far, except that one which has executed the change under way holds what that one writes.
An adapter with an abandoned request is not among them (`OrphansSpoil`: it was given up or has begun
another attempt, because a delay comes after an attempt, `DelaysCount`), so late executions do not
reach those that are; and while `overlap` is `FALSE` there is only one change under way
(`OneAtATime`), whose value becomes the common one when it ends.

**Refinement.** Under `KV`, whose mapping makes an expired item no value, every step of
`MemoryStorage` is a `Put`, `Remove`, `Lookup` or `Close` of `KeyValueStore` or a stutter: cleaning up
is invisible, running out of time is a `Remove`. It needs `ClosedHoldsNothing` because a `Put` happens
only while the adapter is open.

**Lists and sums.** Induction over data is out of the prover's reach as a rule that takes a predicate.
`ListsProofs` therefore does it with sets: a set of numbers that holds 0 and with each number the next
is all of them (`AllNumbers`), and likewise a set of parts of a finite set (`AllParts`); each proof by
induction names the *set* of what its claim holds for. `FoldExists` shows that a fold over a finite
set has the value its recursion says, by constructing the function of all partial results; from it
follow what `Keep` leaves of a list and in which order (`KeepPlaces`, `KeepOrdered`), and how `Total`
changes when a member is added, taken or given another number (`TotalDiffer`, `TotalTake`). A sort is
defined without recursion, by the number of elements ahead of each, so that its result can be proved
to be the one stable sorted permutation (`InTurnResult`, `SortResult`) for every comparison that is a
strict weak order. `LeftFoldSteps` turns a fold over a list into the history of its partial results,
one for each length, over which claims about loops are then proved by induction on the length.

**Quota.** `QuotaKept` says that the size accounted is the `Total` over the map's entries and that the
quota bounds it, and is inductive as it stands; the work is in the sums. Each operation changes one
entry, or (`clear`, a cleanup) removes several, and the lemmas give what that does to the total. A batch
that passed its check of the sizes is stopped by the check of each single `set`, so nothing need be known
of batches under way.

**RepairManager.** `NothingLost` (a failed operation is queued, or was told of, or was executed by every
adapter that missed it) is kept with `MissingLeft`, which ties `failedAdapters` to the history of
repairs, and `KnownOnly`: queue and lists hold operations that have failed, each once. `AttemptsBounded`
needs `BudgetKept`: the attempts already made *and* the runs that still have the operation on their list
together keep the limit, which is what a run that starts while others are under way adds to.
`SpacedAlone` adds `Solo` and `Rested`: all that a run without others beside it has on its list has
rested for an interval, because it had when the list was made, the list names an operation once, and
only an attempt ends a rest.

**ModelCache.** The invariant says who loads (`LoadsStarted`: one caller for each record that is
loading), that waiting needs a load (`NobodyWaits`), and `PassedRecords`: every record that is out of
the table, or that the walk of a disposal has passed, is disposed or was overtaken. The walk goes by
the numbers of the records, so that a record created meanwhile is ahead of it.

**EmbeddingGenerator.** It rests on the invariant of the cache, whose steps the generator takes. Of
its own: the entries of the cache are right for their keys and `age` lists them (`TableOK`); each
request's answers so far belong to its texts, with the slice under way in its place (`CallOK`); and the
counts differ by the weights of the requests (`Counted`), a sum over the callers. What is right is told
relative to `merged`: once a slice of several texts was answered with one tensor nothing is claimed of
the entries and answers any more, and what was right before is so no less (`StillOK`). No theorem
assumes a kind of pipeline.

**EventEmitter.** `ArraysOK` keeps every array sorted, the dropped ones included, and `SpentOK` has the
spent `once` listeners out of them. For an emission that nobody disturbed, `ReachOK` counts: every
listener in the part it has walked over was called once and no other, and the listeners registered all
the while are in the array. Insertions and removals behind the walk leave that part alone; one within it
makes the emission disturbed.

**Ranking.** `RankingKeepsPromise` follows from the two lists a ranking goes through: what `Keep`
leaves of the results and what `StableSort` makes of that, each given by the places its elements come
from. `NearestAlwaysFirst` needs that fractions are ordered like the numbers they stand for
(`BelowOrders`). The metrics are loops over the components: `MetricsAlwaysAgree` runs five sums and the
one pass beside each other. That a cosine is within -1 and 1 is the inequality of Cauchy and Schwarz,
proved by induction over the components (`CauchyStep`, `DotResult`). `BatchesAlwaysAgree` assumes that
`Error` is no fraction: it tells an error from a cosine.

**SemanticSearch.** `CacheFresh` speaks of entries, and of the moments when no change is under way; an
entry is made at the end of a search that took many steps. The invariant (`SearchIInv`) therefore says
of every search on its way (`JobSound`) what its reading amounts to: each context it has found was
held by an adapter at some time of the search (`seen`), and each that all adapters held all the time
(`kept`) was found, is still to be read or could not be (`ReadSoFar`); once reranking has begun, the
same of the results (`Told`). `kept` lies within what all adapters hold (`Everywhere`), that within
what any of them holds (`Held`), and that within `seen`, so that the four are one for a search that no
change has disturbed and that found the adapters alike (`clean`): its results are the best of the
contexts held (`ToldAnswers`) and the entry made of them is fresh. Every request that an adapter
executes parts `seen` from `kept` in the searches on their way, unless it changes nothing (`PutStep`),
and the call it belongs to empties the cache when it ends, or leaves `dirty` behind. The same invariant
gives `AnswersFromItsTime`, for disturbed searches too. Both rest on `RankedTells`, which says for any
contexts what the ranking of `Ranking` makes of them, and on `RerankTells`: reranking changes the order
only. The number of adapters (at least one) and the quorum are any.

**MemoryClient.** `IngestsAreWhole` follows from what can be said of one client at a time: its call
has not begun, or is going on (`Goes`: the parts stored so far are the first `part - 1`, at the
instance the call took when it started, and its result holds their ids), or is over (`IsOver`: the same
for some prefix, the whole when it resolved). That the instance is the one of the *call* and not the
provider table's is what makes it stable under `initialize()`. The sequences are written as functions
over `1..n`, which reduces appending a part to a lemma about domains. `ReadyMeansInitialized` needs that
an initialization has awaited every provider before its place (`BootOK`), as long as no other one has
replaced instances in between.

**AdminRoutes.** The three properties are inductive together with one fact (`SentIsAsked`): the
request under way is the one the call asks for. What a request can take away follows from its body
alone (`BodyOfUser` and the lemmas after it). `ReportsAreTrue` compares what the handle resolves
with what `did` says the core has done, route by route (`IsRaw` of the core, `IsResult` of the handle;
`TellsWhatItDid`, `TellsSettings`). The history `did` is of requests that are answered; the
effect of a late request is the core's and attributed to nobody. `AdminAssumption` says what callers of
a typed interface pass: methods there are, a user, numbers for levels and settings.

**ArtifactStorage.** One step serves a request and reads its answer, so the invariant relates the
outcome of each caller's last use to what the server found for it (`ArtifactSent`, `OneError`, `OneKnown`,
`OnePolicy`); the work is in the cases of `Serving` and `ThrowForResponse`, one lemma per kind of
answer. The assumptions are that callers make calls the client has, of artifact ids or of none, and that
`Unset` is no error code.

**MemoryCalls.** `CallsInv` is what every property of the calls rests on: memories are numbered by the
ingests that stored them (`RowsOK`), requests have numbers of their own (`NumbersOK`), and a request for
an ingest is on its way, late, carried out or lost, in one of these ways at a time (`RunsOK`, `LateOK`,
`CallOK`, with `DeferredOK` for the second request of a deferred inference and `OneRow` for verbatim
ones). A queued ingest is answered while its request is late: its `CallOK` asks for no run that is
counted, and `RunsOK` and `LateOK` hold of it as of any late request. `ExtractedOnce` and
`IngestMeansStored` follow. For the others:

* `DeletesInv` relates a delete under way, a late one included, to the memory it names; `MemoriesStay`
  makes its result final, because a stored memory keeps its content and scope and does not come back. The
  assumption that no backend quotes `HTTP 404` is needed: see divergence 13.
* `AnswersInv` says that an answer that can be read tells the truth of memories the filters have let
  through (`Heard`), whatever happened to the store since it was sent, and that results name memories
  under labels that are true (`Honest`). The step from one to the other goes through the pure operators:
  `Mapped` and the labels of `MemoryScopes` for `ScopesKept`; for `NoMetaFactInResults` the filter as a
  fold (`FilterHistory`), in which a pattern without the flag `g` answers from the start of each content.
* `WalkInv` says of an open walk over pages that nothing has disturbed that what was read is the wanted
  list up to the next offset, that this offset is one at which a page starts, also for the provider that
  counts pages, and that the answer on its way continues it. It assumes, as the model's callers do,
  that a first page starts at 0 and that a page has a size (`CallsAssumption`).

**Only model-checked.** Liveness (`AdapterHeals`, `CallsEnd`, `EverythingLeaves`, `ExpiredGoes`) is
beyond the proof system's reach (`ENABLED`, fairness). `AlgorithmsAgree` evaluates the promises of
`Ranking` on examples, which the four theorems prove for all inputs.

## Where code and documentation differ

With a run (`findings` in `PROJECT.json`):

1. The circuit breaker does not recover (`circuit-breaker.ts:8`, `types.ts:220`): `MCBreakerStuck`.
2. `deepCheck`, which is to test an adapter "with actual operation" (`health-tracker.ts:223`), marks the
   SDK's own adapters unhealthy (`isHealthy`, `types.ts:186`) although nothing is wrong with them:
   `MCDeepCheckFails`.
3. A failed batch is not undone (`storage-adapter.ts:169`, `memory-storage.ts:212`): `MCMemoryBatch`.
4. Searches that differ in their filter share a cache entry (`semantic-search.ts:401`, `:405`):
   `MCSearchFilter`.
5. Meta-facts reach the caller in the text of a package (`atomicmemory-provider.ts:90`, `:345`):
   `MCMetaFacts`.
6. A batch of texts that the pipeline answers with one tensor is taken for a single text
   (`transformers-adapter.ts:345`, `:346`): `MCTensorBatch`.

Found violated by TLC on the same models, without a run of their own:

7. "Delete value from all adapters" (`storage-manager.ts:395`) deletes from usable ones and reports
   success when one of them did (`:429`); the others answer with the value afterwards.
8. `requirePrimary` (`kv-cache/types.ts:248`) is checked before the writes only
   (`storage-manager.ts:362`).
9. `maxQueueSize` (`kv-cache/types.ts:268`) is exceeded when a run puts an evicted operation back
   (`repair-manager.ts:266`).
10. `maxAttempts` (`kv-cache/types.ts:266`) is exceeded by overlapping runs (`repair-manager.ts:230`).
11. A `once` listener fires again in overlapping emissions or after it threw (`events.ts:578`).
12. An emission misses a listener, or calls one twice, when the array moves under its walk
    (`events.ts:530`).
13. `deleteIgnore404` (`shared/http-client.ts:161`) takes any error whose text contains `HTTP 404`
    for a deletion; with a backend that quotes such a text `DeleteMeansGone` fails.
14. `initialize()`, "Idempotent" (`memory-client.ts:101`), runs twice when two calls overlap and
    replaces the instances of the first.

Noted while reading, without a model: `readQuorum` (`kv-cache/types.ts:246`) decides nothing
(`storage-manager.ts:219`); `recordFailedOperation` has no caller, so nothing is ever
queued for repair by the SDK itself; `ttl` is in milliseconds (`memory-storage.ts:107`) and described
in seconds (`kv-cache/types.ts:56`); the timeout of health checks (`kv-cache/types.ts:232`) is not
used; `SemanticSearch.clearCache` reports a previous size that is always 0 (`semantic-search.ts:340`),
ranks are not updated by reranking, a threshold of 0 counts as left out; `batchCosineSimilarity` does
not validate dimensions when the query is the zero vector; `get atomicmemory()`, which "never throws",
throws when the provider is configured and not registered (`memory-client.ts:238`), and the status of a
provider is `initialized` while its `initialize()` is awaited (`memory-client.ts:213`); the handle
rejects with plain `Error`s although `memory/errors.ts:5` asks every adapter for the hierarchy; a 404
of the handle's `delete` is swallowed although the comment at `handle-impl.ts:176` says callers need
it; Mem0 and Hindsight label what they list with the scope that was asked for; Mem0's page is
`floor(offset / limit) + 1`, so an offset between pages repeats memories; a queueing mem0's event ids
are listed as created memories (`mem0-provider/mappers.ts:111`); a 404 of the storage
client's `put` or `capabilities` becomes an `ArtifactNotFoundError` with an empty id, and a body that
is no JSON a raw `SyntaxError`.

## Not modelled

* `IndexedDBStorageAdapter`: its transactions are those of the browser's database, which would have
  to be modelled with their automatic commit.
* `WasmSemanticProcessor`, feature flags, cache safety: the browser's caches and a WebAssembly module
  outside the repository carry what matters there.
* Mem0's context provider, a second client of the same service; `reflect`, `history`, `health` and
  capability queries of the providers, which change nothing.
* Headers, paths, encodings, timestamps and the wording of requests and errors; the character and
  size checks of keys and values; floating-point rounding; configuration; logging, measuring and
  debugging; benchmarks and scripts.

`PROJECT.json` gives the reason for each component, and what is left out of those that are modelled in
part.

## Plan

Done: the core of kv-cache with its proofs; events; embeddings (`ModelCache`, `EmbeddingGenerator`);
search (`Ranking`, `SemanticSearch`); the memory layer (`MemoryClient` above, `MemoryCalls` with its
parts, `AdminRoutes`); the storage API client. What is left, in order:

1. **Rest of kv-cache**: `ReplicatedStore`, the composition of `StorageManager`'s stores with
   `RepairManager` (a repair that overwrites a newer value, adapters that share a record, initialise
   and close); abstract specification: a register that returns some value written and not lost by all;
   `IndexedDBStorage` implementing `KeyValueStore` with batches as single steps, and where it does
   not; runs for divergences 8 to 10. Bounds: 2 adapters, 2 calls, 1 repair run.
2. **Browser path**: the breaker of the feature flags, the stack of `fetch` interceptors, the
   processor's concurrent initialization.
3. **Pure algorithms**: chunking with overlap, key validation, against reference definitions.
