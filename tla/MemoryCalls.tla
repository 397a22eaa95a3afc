---------------------------- MODULE MemoryCalls ----------------------------
(***************************************************************************)
(* Calls of a memory provider over HTTP.  A call checks its input, sends   *)
(* one request and reads the answer; the request runs under a timeout that *)
(* rejects the call without telling whether the backend has carried, or    *)
(* will carry, the request out.  The backend is external: it stores rows,  *)
(* each under the scope its ingest sent, and applies the filters it is     *)
(* sent, those in setup.ignores excepted.                                  *)
(***************************************************************************)
EXTENDS MemoryScopes, MetaFacts, FiniteSets, Lists

CONSTANTS
    Setups,         \* configurations: provider, backend and options
    Inputs,         \* per provider, the calls made of it
    Readers,        \* BOUND: callers that read
    Writers,        \* BOUND: callers that ingest and delete
    MaxRows,        \* BOUND: memories ever stored
    MaxIngests,     \* BOUND: ingest requests sent
    MaxLate         \* BOUND: requests whose caller has gone

AskFields == {"op", "scope", "id", "limit", "offset", "verbatim", "visibility", "site",
              "infer", "content"}

(* What a caller of p can ask for: the page of a list has a size, and only *)
(* the handle knows workspaces.                                            *)
IsAsk(p, ask) ==
    /\ DOMAIN ask = AskFields /\ DOMAIN ask.scope = ScopeFields
    /\ ask.op \in Routes[p]
    /\ ask.limit \in Nat \cup {None} /\ (ask.op = "list" => ask.limit \in Nat \ {0})
    /\ p # "handle" => ask.scope.workspace = None /\ ask.scope.agentScope = None
    /\ ask.verbatim \in BOOLEAN /\ ask.infer \in BOOLEAN \cup {None}

ASSUME CallsAssumption ==
    /\ MaxRows \in Nat /\ MaxIngests \in Nat /\ MaxLate \in Nat
    /\ \A s \in Setups :
          /\ s.provider \in Providers
          /\ s.defer \in BOOLEAN /\ s.infer \in BOOLEAN /\ s.queues \in BOOLEAN
          /\ s.filter.enabled \in BOOLEAN
          /\ s.filter.patterns \in Seq(ToSet(s.filter.patterns))
    /\ \A p \in Providers : \A ask \in Inputs[p] : IsAsk(p, ask) /\ ask.offset = 0
    /\ None # "self" /\ None \notin Nat

Callers == Readers \cup Writers

VARIABLES
    setup,      \* the configuration, chosen at the start
    rows,       \* every memory ever stored; its id is its index
    alive,      \* ids of the memories that are there
    call,       \* per caller: its last call
    late,       \* requests nobody waits for that the backend may carry out
    lastIndex,  \* what the patterns of the meta-fact filter remember
    sentIngests,\* ingest requests sent so far
    ran,        \* history: how often an ingest was carried out, by mode
    walk        \* history: per caller, the pages it has read with cursors

callVars == <<setup, rows, alive, call, late, lastIndex, sentIngests, ran, walk>>

provider == setup.provider

(* What an ingest leaves: the facts extracted of its input, or the input. *)
IngestModes == {"facts", "input"}

NoCall == [phase |-> "none"]
NoWalk == [open |-> FALSE, clean |-> TRUE, seen |-> <<>>, wanted |-> <<>>, complete |-> FALSE]
Nothing == [error |-> None, memories |-> <<>>, created |-> <<>>, cursor |-> None, text |-> <<>>]

CallsInit ==
    /\ setup \in Setups
    /\ rows = <<>> /\ alive = {} /\ late = {}
    /\ call = [c \in Callers |-> NoCall]
    /\ lastIndex = [i \in DOMAIN ResolvePatterns(setup.filter) |-> 0]
    /\ sentIngests = 0
    /\ ran = [n \in 1..MaxIngests |-> [mode \in IngestModes |-> 0]]
    /\ walk = [c \in Callers |-> NoWalk]

-----------------------------------------------------------------------------
(* The backend's view of a request: the memories its filters let through.  *)

Applies(filters, row) ==
    /\ \A f \in {"user", "workspace", "namespace", "thread"} \ setup.ignores :
           filters[f] # None => row.scope[f] = filters[f]
    /\ IF provider = "handle" THEN filters.agentScope = "self" => row.scope.agent = filters.agent
                              ELSE filters.agent # None => row.scope.agent = filters.agent

Matching(filters) ==
    Keep([i \in DOMAIN rows |-> i], {i \in alive : Applies(filters, rows[i])})

-----------------------------------------------------------------------------
(* Before the request: what is refused, and what is sent. *)

AssertListOptionsScopeCompat(ask) == ask.op = "list" /\ ask.site => ~Workspace(ask.scope)
AssertScopeAllowsVisibility(ask)  == ask.op = "ingest" /\ ask.visibility => Workspace(ask.scope)

Unsupported(ask) == provider \in {"mem0", "hindsight"} /\ ask.op = "ingest" /\ ask.verbatim

Refusal(ask) ==
    IF provider # "handle" /\ ask.scope.user = None THEN "InvalidScopeError"
    ELSE IF Unsupported(ask) THEN "UnsupportedOperationError"
    ELSE IF /\ provider = "handle"
            /\ ~AssertListOptionsScopeCompat(ask) \/ ~AssertScopeAllowsVisibility(ask)
         THEN "Error" ELSE None

ResolveInferFlag(ask) == IF ask.infer = None THEN setup.infer ELSE ask.infer
ShouldDefer(ask)      == provider = "mem0" /\ setup.defer /\ ResolveInferFlag(ask)

(* Mutant: the first request of a deferred ingest extracts already. *)
ExtractsAtOnce(ask) ==
    IF provider = "mem0" THEN ResolveInferFlag(ask) ELSE ~ask.verbatim

(* Whether the backend runs its extraction on what is ingested. *)
Extracts(ask) ==
    IF provider = "mem0" THEN ResolveInferFlag(ask) /\ ~ShouldDefer(ask) ELSE ~ask.verbatim

Mode(ask) == IF Extracts(ask) THEN "facts" ELSE "input"

(* Mutant: the pages are counted from 0. *)
Mem0PageFromZero(limit, offset) == IF offset > 0 THEN offset \div limit ELSE 1

Mem0Page(limit, offset) == IF offset > 0 THEN offset \div limit + 1 ELSE 1
Skipped(ask) == IF provider = "mem0" THEN (Mem0Page(ask.limit, ask.offset) - 1) * ask.limit
                                     ELSE ask.offset

(* Hindsight is sent no limit with a recall. *)
SentLimit(ask) == IF provider = "hindsight" /\ ask.op # "list" THEN None ELSE ask.limit

Request(ask, n) ==
    [op |-> ask.op, filters |-> Forwarded(provider, ask.op, ask.scope), id |-> ask.id,
     limit |-> SentLimit(ask), skip |-> IF ask.op = "list" THEN Skipped(ask) ELSE 0,
     mode |-> Mode(ask), content |-> ask.content, n |-> n]

InFlight(c) == call[c].phase \in {"sent", "served"}

Done(ask, n, result) == [phase |-> "done", ask |-> ask, n |-> n, result |-> result]

Send(c, ask, n, pages) ==
    /\ call' = [call EXCEPT ![c] = [phase |-> "sent", ask |-> ask, n |-> n,
                                    request |-> Request(ask, n)]]
    /\ sentIngests' = IF n = 0 THEN sentIngests ELSE n
    /\ walk' = [walk EXCEPT ![c] = pages]
    /\ UNCHANGED <<setup, rows, alive, late, lastIndex, ran>>

(* Reading a first page begins an enumeration. *)
FirstPage(ask) ==
    IF ask.op = "list" THEN [NoWalk EXCEPT !.open = TRUE, !.wanted = Matching(Request(ask, 0).filters)]
                       ELSE NoWalk

Begin(c, ask) ==
    /\ ~InFlight(c) /\ Refusal(ask) = None
    /\ ask.op = "ingest" => sentIngests < MaxIngests
    /\ Send(c, ask, IF ask.op = "ingest" THEN sentIngests + 1 ELSE 0, FirstPage(ask))

Refuse(c, ask) ==
    /\ ~InFlight(c) /\ Refusal(ask) # None
    /\ call' = [call EXCEPT ![c] = Done(ask, 0, [Nothing EXCEPT !.error = Refusal(ask)])]
    /\ UNCHANGED <<setup, rows, alive, late, lastIndex, sentIngests, ran, walk>>

(* The caller asks for the page its cursor names. *)
Follow(c) ==
    /\ call[c].phase = "done" /\ call[c].result.cursor # None
    /\ Send(c, [call[c].ask EXCEPT !.offset = call[c].result.cursor], 0, walk[c])

-----------------------------------------------------------------------------
(* The backend *)

Reached(request) == request.id \in alive /\ Applies(request.filters, rows[request.id])

Page(request) ==
    LET all == Matching(request.filters)
        end == IF request.limit = None THEN Len(all) ELSE request.skip + request.limit
    IN  SubSeq(all, request.skip + 1, IF end < Len(all) THEN end ELSE Len(all))

(* What the backend tells of a memory. *)
Raw(i) == [id |-> i,
           thread    |-> IF setup.projects THEN rows[i].scope.thread ELSE None,
           namespace |-> IF setup.projects THEN rows[i].scope.namespace ELSE None]

Body == [memories |-> <<>>, created |-> <<>>, success |-> TRUE, total |-> None]
Ok(body) == [status |-> 200, body |-> body]

(* The answer of a backend that has not done what it was asked. *)
Failure == Ok([Body EXCEPT !.success = FALSE])

(* A memory is stored under the scope that was sent; the namespace of one  *)
(* sent without is the backend's to choose.                                *)
NewRow(request, namespace) ==
    [scope |-> [request.filters EXCEPT !.namespace = namespace],
     content |-> request.content, by |-> request.n]

NamespacesOf(request) ==
    IF provider = "atomicmemory" THEN setup.namespaces ELSE {request.filters.namespace}

PageAnswer(request) ==
    Ok([Body EXCEPT !.memories = [i \in DOMAIN Page(request) |-> Raw(Page(request)[i])],
                    !.total = IF setup.total THEN Len(Matching(request.filters)) ELSE None])

(* What carrying a request out can leave and answer.  Extraction makes as  *)
(* many memories of one input as it finds facts.                           *)
Effect(newRows, newAlive, answer) == [rows |-> newRows, alive |-> newAlive, answer |-> answer]

Stored(request, k, namespace) ==
    LET ids == Len(rows) + 1 .. Len(rows) + k
    IN  Effect(rows \o [i \in 1..k |-> NewRow(request, namespace)], alive \cup ids,
               Ok([Body EXCEPT !.created = [i \in 1..k |-> Len(rows) + i]]))

Effects(request) ==
    CASE request.op = "ingest" ->
             {Stored(request, k, namespace) :
                  k \in {j \in (IF request.mode = "facts" THEN {0, 2} ELSE {1}) :
                            Len(rows) + j <= MaxRows},
                  namespace \in NamespacesOf(request)}
      [] request.op \in {"get", "delete"} /\ ~Reached(request) ->
             {Effect(rows, alive, [status |-> 404, body |-> None])}
      [] request.op = "delete" /\ Reached(request) ->
             {Effect(rows, alive \ {request.id}, Ok(Body))}
      [] request.op = "expand" \/ (request.op = "get" /\ Reached(request)) ->
             {Effect(rows, alive, Ok([Body EXCEPT !.memories =
                 IF Reached(request) THEN <<Raw(request.id)>> ELSE <<>>]))}
      [] OTHER -> {Effect(rows, alive, PageAnswer(request))}

(* Answers without an effect. *)
Errors == {[status |-> 429, body |-> None], [status |-> 500, body |-> None]}
          \cup (IF setup.quotes THEN {[status |-> 500, body |-> Quotes404]} ELSE {})
          \cup (IF provider = "hindsight" THEN {Failure} ELSE {})

(* An effect on the memories disturbs whoever is reading pages of them.    *)
Leaves(effect) ==
    /\ rows' = effect.rows /\ alive' = effect.alive
    /\ walk' = IF effect.alive = alive THEN walk
               ELSE [c \in Callers |-> [walk[c] EXCEPT !.clean = @ /\ ~walk[c].open]]

Counts(request) ==
    ran' = IF request.op = "ingest" THEN [ran EXCEPT ![request.n][request.mode] = @ + 1] ELSE ran

Answer(c, answer) ==
    call' = [call EXCEPT ![c] = [phase |-> "served", ask |-> @.ask, n |-> @.n, answer |-> answer]]

(* Mem0 2.0 adds by default after it has answered, with ids of events.      *)
Queues == provider = "mem0" /\ setup.queues

(* What it answers then; the id names no memory. *)
Queued == Ok([Body EXCEPT !.created = <<None>>])

Serve(c) ==
    /\ call[c].phase = "sent"
    /\ call[c].ask.op = "ingest" => ~Queues
    /\ \E effect \in Effects(call[c].request) :
          /\ Leaves(effect)
          /\ \/ Answer(c, effect.answer)
             \/ effect.answer.status = 200 /\ Answer(c, Ok(Garbled))
    /\ Counts(call[c].request)
    /\ UNCHANGED <<setup, late, lastIndex, sentIngests>>

Reject(c) ==
    /\ call[c].phase = "sent"
    /\ \E answer \in Errors :
          /\ answer.status = 200 => call[c].ask.op = "ingest"
          /\ Answer(c, answer)
    /\ UNCHANGED <<setup, rows, alive, late, lastIndex, sentIngests, ran, walk>>

(* An ingest is accepted: it will be carried out later, or fail unnoticed. *)
Queue(c) ==
    /\ call[c].phase = "sent" /\ call[c].ask.op = "ingest" /\ Queues
    /\ Cardinality(late) < MaxLate
    /\ Answer(c, Queued) \/ Answer(c, Ok(Garbled))
    /\ late' = late \cup {call[c].request}
    /\ UNCHANGED <<setup, rows, alive, lastIndex, sentIngests, ran, walk>>

ServeLate ==
    /\ \E request \in late :
          /\ \E effect \in Effects(request) : Leaves(effect)
          /\ Counts(request)
          /\ late' = late \ {request}
    /\ UNCHANGED <<setup, call, lastIndex, sentIngests>>

LoseLate ==
    /\ \E request \in late : late' = late \ {request}
    /\ UNCHANGED <<setup, rows, alive, call, lastIndex, sentIngests, ran, walk>>

-----------------------------------------------------------------------------
(* Reading the answer *)

Fetched(ask, answer) ==
    CASE ask.op = "delete" -> DeleteIgnore404(answer)
      [] ask.op = "get"    -> FetchJsonOrNull(answer)
      [] OTHER             -> FetchJson(answer)

(* Mutant: errors are passed on as they come. *)
WrapNothing(e) == e

(* Errors of the providers are wrapped, those of the handle are not. *)
WrapError(e) ==
    IF provider = "handle" \/ e \in ProviderErrors THEN e ELSE "MemoryProviderError"

Rejected(e) == [Nothing EXCEPT !.error = WrapError(e)]

(* Mutant: the success flag of an ingest is not looked at. *)
BodyRefusedByScope(ask, body) ==
    \E i \in DOMAIN body.memories :
        Refused(provider, body.memories[i], Echoed(provider, ask.op, ask.scope))

BodyRefused(ask, body) ==
    \/ ask.op = "package" /\ provider = "atomicmemory" /\ ~setup.budget
    \/ ask.op = "ingest" /\ ~body.success
    \/ \E i \in DOMAIN body.memories :
           Refused(provider, body.memories[i], Echoed(provider, ask.op, ask.scope))

HasMore(ask, body) ==
    IF provider = "hindsight" /\ body.total # None
    THEN ask.offset + Len(body.memories) < body.total
    ELSE Len(body.memories) = ask.limit

Cursor(ask, body) ==
    IF ask.op = "list" /\ HasMore(ask, body) THEN ask.offset + Len(body.memories) ELSE None

(* Hindsight returns what it recalled, cut to the limit by the client. *)
Cut(ask, memories) ==
    IF provider = "hindsight" /\ ask.op = "search" /\ ask.limit # None /\ Len(memories) > ask.limit
    THEN SubSeq(memories, 1, ask.limit) ELSE memories

Mapped(ask, raws) ==
    LET scope == Echoed(provider, ask.op, ask.scope)
    IN  [i \in DOMAIN raws |-> [id |-> raws[i].id, label |-> Label(provider, raws[i], scope)]]

ContentsOf(memories) == [i \in DOMAIN memories |-> rows[memories[i].id].content]

(* Mutant: the search at a point in time is forgotten. *)
FilterRecentOnly(ask, memories) ==
    IF provider = "atomicmemory" /\ ask.op \in {"search", "package"}
    THEN FilterMetaFacts(memories, ContentsOf(memories), setup.filter, lastIndex)
    ELSE [kept |-> memories, last |-> lastIndex]

ApplyMetaFactFilter(ask, memories) ==
    IF provider = "atomicmemory" /\ ask.op \in {"search", "package", "asOf"}
    THEN FilterMetaFacts(memories, ContentsOf(memories), setup.filter, lastIndex)
    ELSE [kept |-> memories, last |-> lastIndex]

(* The text of a package: AtomicMemory's is the backend's, Hindsight's is  *)
(* made of the results.                                                    *)
Text(ask, raws) == IF ask.op = "package" THEN [i \in DOMAIN raws |-> raws[i].id] ELSE <<>>

(* Hindsight does not tell what it has stored. *)
Created(body) == IF provider = "hindsight" THEN <<>> ELSE body.created

Read(ask, body) ==
    [error |-> None,
     memories |-> ApplyMetaFactFilter(ask, Cut(ask, Mapped(ask, body.memories))).kept,
     created |-> Created(body),
     cursor |-> Cursor(ask, body),
     text |-> Text(ask, body.memories)]

Result(ask, answer) ==
    LET fetched == Fetched(ask, answer)
    IN  IF fetched.error # None THEN Rejected(fetched.error)
        ELSE IF ask.op \in {"get", "delete"} /\ fetched.value = None THEN Nothing
        ELSE IF BodyRefused(ask, fetched.value)
             THEN Rejected(IF ask.op = "ingest" THEN "MemoryProviderError" ELSE "Error")
        ELSE Read(ask, fetched.value)

(* The pages of one enumeration, as the caller collects them. *)
WalkAfter(ask, w, result) ==
    IF ask.op # "list" \/ result.error # None THEN NoWalk
    ELSE LET ids == [i \in DOMAIN result.memories |-> result.memories[i].id]
         IN  [w EXCEPT !.seen = @ \o ids, !.open = result.cursor # None,
                       !.complete = result.cursor = None]

Receive(c) ==
    /\ call[c].phase = "served"
    /\ LET ask == call[c].ask
           result == Result(ask, call[c].answer)
       IN  /\ call' = [call EXCEPT ![c] = Done(ask, call[c].n, result)]
           /\ lastIndex' = IF result.error = None /\ call[c].answer.status = 200 /\ ask.op # "delete"
                           THEN ApplyMetaFactFilter(ask, Mapped(ask, call[c].answer.body.memories)).last
                           ELSE lastIndex
           /\ walk' = [walk EXCEPT ![c] = WalkAfter(ask, @, result)]
           /\ late' = IF ask.op = "ingest" /\ ShouldDefer(ask) /\ result.error = None
                      THEN late \cup {[Request(ask, call[c].n) EXCEPT !.mode = "facts"]} ELSE late
    /\ UNCHANGED <<setup, rows, alive, sentIngests, ran>>

(* The timeout fires before the answer is there. *)
TimeOut(c) ==
    /\ InFlight(c)
    /\ call' = [call EXCEPT ![c] = Done(@.ask, @.n, Rejected("Error"))]
    /\ walk' = [walk EXCEPT ![c] = NoWalk]
    /\ \/ late' = late
       \/ /\ call[c].phase = "sent" /\ call[c].ask.op \in {"ingest", "delete"}
          /\ Cardinality(late) < MaxLate
          /\ late' = late \cup {call[c].request}
    /\ UNCHANGED <<setup, rows, alive, lastIndex, sentIngests, ran>>

(* A caller that names a memory has learnt its id from an answer. *)
Asks(c, ask) ==
    /\ c \in Writers <=> ask.op \in {"ingest", "delete"}
    /\ ask.op \in {"get", "expand", "delete"} => ask.id \in DOMAIN rows

CallsNext ==
    \/ \E c \in Callers :
          \/ \E ask \in Inputs[provider] : Asks(c, ask) /\ (Begin(c, ask) \/ Refuse(c, ask))
          \/ Follow(c) \/ Serve(c) \/ Queue(c) \/ Reject(c) \/ Receive(c) \/ TimeOut(c)
    \/ ServeLate \/ LoseLate

CallsSpec == CallsInit /\ [][CallsNext]_callVars

-----------------------------------------------------------------------------
(* Properties *)

Ended(c)    == call[c].phase = "done"
Resolved(c) == Ended(c) /\ call[c].result.error = None
Delivered(c) == IF Resolved(c) THEN ToSet(call[c].result.memories) ELSE {}
ScopeOf(id) == rows[id].scope
ChecksThread == provider \in {"handle", "atomicmemory"}

(* The parts of the state agree: ids name rows, requests were counted when *)
(* they were sent, no answer is longer than its limit, and the filter      *)
(* remembers one index per pattern.                                        *)
CallsTypeOK ==
    /\ setup \in Setups
    /\ alive \subseteq DOMAIN rows /\ Len(rows) <= MaxRows
    /\ \A i \in DOMAIN rows : rows[i].by \in 1..sentIngests
    /\ \A c \in Callers :
          /\ call[c].phase \in {"none", "sent", "served", "done"}
          /\ \A m \in Delivered(c) : m.id \in DOMAIN rows
          /\ Resolved(c) /\ call[c].ask.op \in {"search", "list"} /\ call[c].ask.limit # None =>
                Len(call[c].result.memories) <= call[c].ask.limit
          /\ walk[c].open => ~walk[c].complete
    /\ \A request \in late : request.op \in {"ingest", "delete"}
    /\ lastIndex \in [DOMAIN ResolvePatterns(setup.filter) -> {0, 1}]

(* What a memory of the AtomicMemory provider or handle says of its        *)
(* thread, and of an agent filter applied to it, is true of the stored     *)
(* memory, whatever the backend makes of the filters it is sent            *)
(* (handle-impl.ts, buildMemoryScope; mappers.ts, buildScope).             *)
LabelsAreTrue ==
    ChecksThread => \A c \in Callers : \A m \in Delivered(c) :
        /\ m.label.thread \in {None, ScopeOf(m.id).thread}
        /\ m.label.agentScope = "self" => ScopeOf(m.id).agent = m.label.agent

(* A search or list for a thread never delivers a memory of another one:   *)
(* with the AtomicMemory backend even when it ignores the filter, with the *)
(* others when it honours it (and lists of those are not by thread).       *)
ThreadIsolation ==
    \A c \in Callers : \A m \in Delivered(c) :
        LET ask == call[c].ask
        IN  /\ ask.scope.thread # None
            /\ ask.op \in {"search", "package", "asOf"} \/ (ask.op = "list" /\ ChecksThread)
            /\ ChecksThread \/ "thread" \notin setup.ignores
            => ScopeOf(m.id).thread = ask.scope.thread

(* A caller can rely on the scope it asked for and on the one it is told.  *)
ScopesKept == LabelsAreTrue /\ ThreadIsolation

(* An ingest that resolves was carried out by the backend, a verbatim one  *)
(* as one memory, unless it is Mem0's and queues what it is sent: its      *)
(* promise is to do it later, which nobody asks about again                *)
(* (mem0-provider.ts, known limitation).                                   *)
IngestMeansStored ==
    \A c \in Callers : Resolved(c) /\ call[c].ask.op = "ingest" =>
        /\ ~Queues => \E mode \in IngestModes : ran[call[c].n][mode] > 0
        /\ call[c].ask.verbatim =>
              Cardinality({i \in DOMAIN rows : rows[i].by = call[c].n}) = 1

(* After a delete that resolves, no memory of that id is left in what the  *)
(* request reached (http-client.ts, deleteIgnore404).                      *)
DeleteMeansGone ==
    \A c \in Callers : Resolved(c) /\ call[c].ask.op = "delete" =>
        ~Reached(Request(call[c].ask, 0))

(* Whoever follows the cursors to the end, while no memory comes or goes,  *)
(* has read every memory the list lets through, once and in order.         *)
WalkComplete ==
    \A c \in Callers : walk[c].complete /\ walk[c].clean => walk[c].seen = walk[c].wanted

(* However answers, timeouts, queued and late requests interleave, the     *)
(* extraction of an ingest runs once at most, and a deferred one only      *)
(* after its input has been stored as it is, unless the backend queues     *)
(* both requests (mem0-provider.ts, fireBackgroundInference).              *)
ExtractedOnce ==
    \A n \in 1..MaxIngests :
        /\ ran[n]["facts"] <= 1 /\ ran[n]["input"] <= 1
        /\ provider = "mem0" /\ setup.defer /\ ~Queues /\ ran[n]["facts"] > 0 => ran[n]["input"] > 0

(* A provider rejects with an error of its own hierarchy, whatever went    *)
(* wrong below (provider.ts, wrapError).                                   *)
ErrorsAreProviderErrors ==
    \A c \in Callers : Ended(c) /\ provider # "handle" =>
        call[c].result.error \in ProviderErrors \cup {None}

Meta(id) == \E i \in DOMAIN ResolvePatterns(setup.filter) :
               ResolvePatterns(setup.filter)[i].family \in Families[rows[id].content]
Filtering == provider = "atomicmemory" /\ setup.filter.enabled
Searched(c) == Resolved(c) /\ call[c].ask.op \in {"search", "package", "asOf"}

(* The meta-fact filter keeps meta-facts of the active patterns from the   *)
(* results of every search route, unless a pattern carries the flag g,     *)
(* whose lastIndex one call leaves to the next (meta-fact-filter.ts).      *)
NoMetaFactInResults ==
    Filtering /\ (\A i \in DOMAIN lastIndex : ~ResolvePatterns(setup.filter)[i].global) =>
        \A c \in Callers : Searched(c) => \A m \in Delivered(c) : ~Meta(m.id)

(* "... so meta-facts never reach the caller" (atomicmemory-provider.ts,   *)
(* applyMetaFactFilter): neither among the results nor in the text.        *)
MetaFactsNeverReachCaller ==
    Filtering => \A c \in Callers : Searched(c) =>
        /\ \A m \in Delivered(c) : ~Meta(m.id)
        /\ \A id \in ToSet(call[c].result.text) : ~Meta(id)
============================================================================
