---------------------------- MODULE MemoryClient ----------------------------
(***************************************************************************)
(* MemoryClient and MemoryService: the initialization of the configured    *)
(* providers, and calls that go through the processing pipeline of the     *)
(* default provider.  Initialization awaits each provider in turn, so two  *)
(* of them may overlap; the second replaces the instances of the first.    *)
(* An instance is a pair of the initialize() call that created it and the  *)
(* name of the provider.  The providers themselves are abstract: what      *)
(* their operations do over HTTP is in MemoryCalls.                        *)
(***************************************************************************)
EXTENDS Integers, Sequences, SequencesExt, FiniteSets

CONSTANTS
    Absent,         \* no instance, no result
    Names,          \* the configured providers, in order
    Default,        \* the default provider: the one chosen, or else the first
    Registered,     \* those the registry has a factory for
    Async,          \* those of them whose provider has an initialize()
    Initializers,   \* BOUND: calls of initialize(), each made once
    Clients,        \* BOUND: callers of the operations, one call each
    Pipelines,      \* records [parts, post, pre]: how the pipeline treats an ingest
    Packagers       \* the providers that advertise the extension package

ASSUME ClientAssumption ==
    /\ Names \in Seq(ToSet(Names))
    /\ Registered \subseteq ToSet(Names) /\ Async \subseteq Registered
    /\ \A p \in Pipelines : p.parts \in Nat /\ p.post \in BOOLEAN /\ p.pre \in BOOLEAN

VARIABLES
    ready,      \* MemoryClient.initialized
    providers,  \* MemoryService.providers: per name, an instance
    started,    \* instances that have been initialized
    init,       \* per initialize() call: where it is in its loop
    pipeline,   \* the pipeline of the default provider, chosen at the start
    op,         \* per caller: its call
    kept,       \* per caller, history: the parts its ingest stored, and where
    overlap     \* history: two initialize() calls have overlapped

clientVars == <<ready, providers, started, init, pipeline, op, kept, overlap>>

NoOp    == [phase |-> "none"]

ClientInit ==
    /\ ready = FALSE /\ started = {} /\ overlap = FALSE
    /\ providers = [n \in ToSet(Names) \cup {Default} |-> Absent]
    /\ init = [i \in Initializers |-> 0]
    /\ pipeline \in Pipelines
    /\ op = [c \in Clients |-> NoOp]
    /\ kept = [c \in Clients |-> <<>>]

-----------------------------------------------------------------------------
(* MemoryService.initialize.  init[i] is 0 before the call, the position   *)
(* whose initialize() it awaits, Finished when its loop is over and        *)
(* MemoryClient has still to hear of it, Initialized when it has resolved  *)
(* and -1 when it has rejected.                                            *)

Finished    == Len(Names) + 1
Initialized == Finished + 1
Underway(i) == init[i] \in 1..Finished
Awaits(i)   == init[i] \in 1..Len(Names)

(* Mutant: initialize() of a provider is called and not awaited. *)
NextAwaitNone(from) == Finished

(* The next position that is awaited. *)
NextAwait(from) ==
    LET waits == {j \in from..Len(Names) : Names[j] \in Async}
    IN  IF waits = {} THEN Finished ELSE CHOOSE j \in waits : \A k \in waits : j <= k

(* One run of the loop from a position to its next await: every provider   *)
(* passed is set in the map before its initialize() is awaited.            *)
RunLoop(i, from) ==
    LET passed == {Names[j] : j \in {k \in from..Len(Names) : k <= NextAwait(from)}}
    IN  /\ providers' = [n \in DOMAIN providers |->
                            IF n \in passed \cap Registered THEN <<i, n>> ELSE providers[n]]
        /\ started' = started \cup {<<i, n>> : n \in (passed \cap Registered) \ Async}
                              \cup (IF from > 1 THEN {<<i, Names[from - 1]>>} ELSE {})
        /\ init' = [init EXCEPT ![i] = NextAwait(from)]

Initialize(i) ==
    /\ init[i] = 0 /\ ~ready
    /\ RunLoop(i, 1)
    /\ overlap' = (overlap \/ \E j \in Initializers : Underway(j))
    /\ UNCHANGED <<ready, pipeline, op, kept>>

InitializeAgain(i) ==
    /\ init[i] = 0 /\ ready
    /\ init' = [init EXCEPT ![i] = Initialized]
    /\ UNCHANGED <<ready, providers, started, pipeline, op, kept, overlap>>

ProviderStarted(i) ==
    /\ Awaits(i)
    /\ RunLoop(i, init[i] + 1)
    /\ UNCHANGED <<ready, pipeline, op, kept, overlap>>

ProviderFails(i) ==
    /\ Awaits(i)
    /\ init' = [init EXCEPT ![i] = -1]
    /\ UNCHANGED <<ready, providers, started, pipeline, op, kept, overlap>>

(* MemoryClient goes on when the service has resolved. *)
ServiceInitialized(i) ==
    /\ init[i] = Finished
    /\ init' = [init EXCEPT ![i] = Initialized] /\ ready' = TRUE
    /\ UNCHANGED <<providers, started, pipeline, op, kept, overlap>>

-----------------------------------------------------------------------------
(* Operations.  A call keeps the instance and the pipeline it found.       *)

Ends(c, outcome, result) ==
    op' = [op EXCEPT ![c] = [phase |-> "ended", kind |-> @.kind, outcome |-> outcome,
                             result |-> result]]

Starts(c, kind) ==
    IF ~ready \/ providers[Default] = Absent \/ (kind = "package" /\ Default \notin Packagers)
    THEN "ended"
    ELSE IF pipeline.pre /\ kind \notin {"package", "delete", "list"} THEN "before"
    ELSE "provider"

Call(c, kind) ==
    /\ op[c] = NoOp
    /\ op' = [op EXCEPT ![c] =
                 IF Starts(c, kind) = "ended"
                 THEN [phase |-> "ended", kind |-> kind, outcome |-> "failed", result |-> <<>>]
                 ELSE [phase |-> Starts(c, kind), kind |-> kind, instance |-> providers[Default],
                       part |-> 1, result |-> <<>>]]
    /\ UNCHANGED <<ready, providers, started, init, pipeline, kept, overlap>>

(* The inputs of the provider that one ingest becomes. *)
IngestParts == IF pipeline.pre THEN pipeline.parts ELSE 1
Parts(c)    == IF op[c].kind = "ingest" THEN IngestParts ELSE 1
AfterProvider(kind) ==
    pipeline.post /\ kind \in {"ingest", "search", "get", "list"}

Preprocessed(c) ==
    /\ op[c].phase = "before"
    /\ \/ Parts(c) > 0 /\ op' = [op EXCEPT ![c].phase = "provider"]
       \/ Parts(c) = 0 /\ Ends(c, "ok", <<>>)
       \/ Ends(c, "failed", <<>>)
    /\ UNCHANGED <<ready, providers, started, init, pipeline, kept, overlap>>

(* Mutant: the result of the last part is returned alone. *)
AdvanceUnmerged(c, result) ==
    IF op[c].part < Parts(c)
    THEN op' = [op EXCEPT ![c].phase = "provider", ![c].part = @ + 1, ![c].result = <<>>]
    ELSE Ends(c, "ok", result)

(* The next part, or the merged results. *)
Advance(c, result) ==
    IF op[c].part < Parts(c)
    THEN op' = [op EXCEPT ![c].phase = "provider", ![c].part = @ + 1, ![c].result = result]
    ELSE Ends(c, "ok", result)

(* assertReady, validateScope and the operation of the provider. *)
ProviderReady(c) == op[c].instance \in started

ProviderAnswers(c) ==
    /\ op[c].phase = "provider" /\ ProviderReady(c)
    /\ LET result == Append(op[c].result, op[c].part)
       IN  IF AfterProvider(op[c].kind)
           THEN op' = [op EXCEPT ![c].phase = "after", ![c].result = result]
           ELSE Advance(c, result)
    /\ kept' = IF op[c].kind = "ingest"
               THEN [kept EXCEPT ![c] = Append(@, <<op[c].part, op[c].instance>>)] ELSE kept
    /\ UNCHANGED <<ready, providers, started, init, pipeline, overlap>>

(* An operation that rejects may have been carried out all the same. *)
ProviderRejects(c) ==
    /\ op[c].phase = "provider"
    /\ Ends(c, "failed", <<>>)
    /\ \/ kept' = kept
       \/ /\ op[c].kind = "ingest" /\ ProviderReady(c)
          /\ kept' = [kept EXCEPT ![c] = Append(@, <<op[c].part, op[c].instance>>)]
    /\ UNCHANGED <<ready, providers, started, init, pipeline, overlap>>

Postprocessed(c) ==
    /\ op[c].phase = "after"
    /\ Advance(c, op[c].result) \/ Ends(c, "failed", <<>>)
    /\ UNCHANGED <<ready, providers, started, init, pipeline, kept, overlap>>

ClientNext ==
    \/ \E i \in Initializers : Initialize(i) \/ InitializeAgain(i) \/ ProviderStarted(i)
                                \/ ProviderFails(i) \/ ServiceInitialized(i)
    \/ \E c \in Clients :
          \/ \E kind \in {"ingest", "search", "get", "delete", "list", "package"} : Call(c, kind)
          \/ Preprocessed(c) \/ ProviderAnswers(c) \/ ProviderRejects(c) \/ Postprocessed(c)

ClientSpec == ClientInit /\ [][ClientNext]_clientVars

-----------------------------------------------------------------------------
(* Properties *)

Instances == Initializers \X Registered

(* Instances are those the factories of the registry made for a call of    *)
(* initialize(), and no ingest stores more than the pipeline made of it    *)
(* (memory-service.ts, initialize and ingest).                             *)
ClientTypeOK ==
    /\ ready \in BOOLEAN /\ overlap \in BOOLEAN
    /\ started \subseteq Instances
    /\ \A n \in DOMAIN providers : providers[n] \in Instances \cup {Absent}
    /\ \A i \in Initializers : init[i] \in -1..Initialized
    /\ \A c \in Clients : op[c].phase \in {"none", "before", "provider", "after", "ended"}
    /\ \A c \in Clients : Len(kept[c]) <= IngestParts

(* When initialize() calls did not overlap, a client that is initialized   *)
(* has an initialized instance of every provider the registry knows        *)
(* ("Must be called before any memory operation", memory-client.ts).       *)
ReadyMeansInitialized ==
    ready /\ ~overlap => \A n \in Registered : providers[n] \in started

(* The parts of one ingest that are stored are a prefix of the parts the   *)
(* pipeline made, in order, whoever rejects on the way.                    *)
StoredIsPrefix ==
    \A c \in Clients : \A k \in DOMAIN kept[c] : kept[c][k][1] = k

(* ... and all of them at one provider instance, also when a second        *)
(* initialize() replaces the instances in between.                         *)
OneInstancePerIngest ==
    \A c \in Clients : \A k \in DOMAIN kept[c] : kept[c][k][2] = kept[c][1][2]

(* An ingest that resolves reports every part it stored, in order, and has *)
(* stored all that the pipeline made (memory-service.ts, ingest).          *)
ReportsAllParts ==
    \A c \in Clients : op[c].phase = "ended" /\ op[c].kind = "ingest" /\ op[c].outcome = "ok" =>
        /\ op[c].result = [k \in DOMAIN kept[c] |-> kept[c][k][1]]
        /\ Len(kept[c]) = IngestParts

(* What a split ingest promises: what is stored is a prefix of the parts,  *)
(* at one instance, and all of them when it resolves.                      *)
IngestsAreWhole == StoredIsPrefix /\ OneInstancePerIngest /\ ReportsAllParts
=============================================================================
