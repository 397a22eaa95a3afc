----------------------------- MODULE AdminRoutes -----------------------------
(***************************************************************************)
(* The categories of the AtomicMemory handle beside the memories           *)
(* themselves: lifecycle, audit, lessons, config and agents.  Every method *)
(* sends one request and maps the answer; the core that carries it out is  *)
(* external.  What a request can do is told by its body: absent fields     *)
(* leave the choice to the core.                                           *)
(***************************************************************************)
EXTENDS HttpClient, FiniteSets

CONSTANTS
    Items,          \* memories, lessons and conflicts of the core
    Kind,           \* item -> "memory", "lesson" or "conflict"
    Owner,          \* item -> user
    Site,           \* item -> the site a memory came from
    Unreported,     \* lessons that are yet to be reported
    Faded,          \* memories decay would archive
    Clustered,      \* memories consolidation would merge
    Deferred,       \* memories with a deferred reconciliation
    Fields,         \* the settings that can change at run time
    Shown,          \* those of them that the health report tells
    Admins,         \* BOUND: callers
    AdminAsks,      \* caller -> the calls it makes
    MaxAdrift       \* BOUND: requests whose caller has gone

(* The categories of the handle and their methods. *)
Lifecycle == {"consolidate", "decay", "cap", "stats", "resetSource", "reconcile",
              "reconcileAll", "reconcileStatus"}
Audit     == {"summary", "recent", "trail"}
Lessons   == {"lessons", "lessonStats", "report", "deleteLesson"}
Settings  == {"health", "updateConfig"}
Agents    == {"setTrust", "getTrust", "conflicts", "resolveConflict", "autoResolve"}
Methods   == Lifecycle \cup Audit \cup Lessons \cup Settings \cup Agents

(* Settings and levels of trust are numbers. *)
ASSUME AdminAssumption ==
    /\ Unreported \subseteq Items
    /\ \A c \in Admins : \A ask \in AdminAsks[c] :
          /\ ask.op \in Methods /\ ask.user # None /\ ask.level \in Nat
          /\ \A f \in Fields : ask.updates[f] \in Nat \cup {None}

Users == {Owner[i] : i \in Items}

VARIABLES
    present,    \* items that are active
    undecided,  \* memories whose reconciliation is still deferred
    config,     \* the value of each setting
    trust,      \* per user, the trust in an agent
    admin,      \* per caller: its call
    adrift,     \* requests nobody waits for that the core may carry out
    did         \* per caller, history: what serving its request changed

coreVars  == <<present, undecided, config, trust>>
adminVars == <<coreVars, admin, adrift, did>>

NoAdmin  == [phase |-> "none"]
NoChange == [gone |-> {}, settled |-> {}, made |-> {}]

AdminInit ==
    /\ present = Items \ Unreported /\ undecided = Deferred
    /\ config = [f \in Fields |-> 1]
    /\ trust = [u \in Users |-> 1]
    /\ admin = [c \in Admins |-> NoAdmin]
    /\ adrift = {}
    /\ did = [c \in Admins |-> NoChange]

Of(kind, user) == {i \in present : Kind[i] = kind /\ Owner[i] = user}

-----------------------------------------------------------------------------
(* Request bodies.  flag is the optional argument of consolidate and decay, *)
(* None when it is left out; so are the updates of a setting and limit.     *)

Blank == [user |-> None, execute |-> None, dryRun |-> None, item |-> None, site |-> None,
          updates |-> [f \in Fields |-> None], level |-> None, limit |-> None]

UserOnly(ask)     == [Blank EXCEPT !.user = ask.user]
Consolidate(ask)  == [UserOnly(ask) EXCEPT !.execute = IF ask.flag = TRUE THEN TRUE ELSE None]

(* Mutant: the flag is coerced, so that leaving it out means FALSE. *)
DecayCoerced(ask) == [UserOnly(ask) EXCEPT !.dryRun = IF ask.flag = TRUE THEN None ELSE FALSE]

Decay(ask)        == [UserOnly(ask) EXCEPT !.dryRun = IF ask.flag = FALSE THEN FALSE ELSE None]
ResetSource(ask)  == [UserOnly(ask) EXCEPT !.site = ask.site]

Reconcile(ask)    == UserOnly(ask)
ReconcileAll      == Blank
Recent(ask)       == [UserOnly(ask) EXCEPT !.limit = ask.limit]
OneItem(ask)      == [UserOnly(ask) EXCEPT !.item = ask.item]

UpdateConfig(ask) == [Blank EXCEPT !.updates = ask.updates]
SetTrust(ask)     == [UserOnly(ask) EXCEPT !.level = ask.level]
ResolveConflict(ask) == [Blank EXCEPT !.item = ask.item]

LifecycleBody(ask) ==
    CASE ask.op = "consolidate"  -> Consolidate(ask)
      [] ask.op = "decay"        -> Decay(ask)
      [] ask.op = "resetSource"  -> ResetSource(ask)
      [] ask.op = "reconcile"    -> Reconcile(ask)
      [] ask.op = "reconcileAll" -> ReconcileAll
      [] OTHER                   -> UserOnly(ask)

AuditBody(ask) ==
    CASE ask.op = "recent" -> Recent(ask)
      [] ask.op = "trail"  -> OneItem(ask)
      [] OTHER             -> UserOnly(ask)

LessonsBody(ask)  == IF ask.op = "deleteLesson" THEN OneItem(ask) ELSE UserOnly(ask)
SettingsBody(ask) == IF ask.op = "updateConfig" THEN UpdateConfig(ask) ELSE Blank

AgentsBody(ask) ==
    CASE ask.op = "setTrust"        -> SetTrust(ask)
      [] ask.op = "resolveConflict" -> ResolveConflict(ask)
      [] OTHER                      -> UserOnly(ask)

AdminBody(ask) ==
    CASE ask.op \in Lifecycle -> LifecycleBody(ask)
      [] ask.op \in Audit     -> AuditBody(ask)
      [] ask.op \in Lessons   -> LessonsBody(ask)
      [] ask.op \in Settings  -> SettingsBody(ask)
      [] ask.op \in Agents    -> AgentsBody(ask)

-----------------------------------------------------------------------------
(* The core: what a request takes away, settles and sets. *)

Changes == {"consolidate", "decay", "resetSource", "reconcile", "reconcileAll", "report",
            "deleteLesson", "updateConfig", "setTrust", "resolveConflict", "autoResolve"}

Gone(op, b) ==
    CASE op = "consolidate" -> IF b.execute = TRUE THEN Of("memory", b.user) \cap Clustered ELSE {}
      [] op = "decay"       -> IF b.dryRun = FALSE THEN Of("memory", b.user) \cap Faded ELSE {}
      [] op = "resetSource" -> {i \in Of("memory", b.user) : Site[i] = b.site}
      [] op = "deleteLesson" -> Of("lesson", b.user) \cap {b.item}
      [] op = "resolveConflict" -> {i \in present : Kind[i] = "conflict"} \cap {b.item}
      [] op = "autoResolve" -> Of("conflict", b.user)
      [] OTHER -> {}

Settled(op, b) ==
    CASE op \in {"reconcile", "reconcileAll"} ->
             {i \in undecided : b.user = None \/ Owner[i] = b.user}
      [] OTHER -> {}

(* A report makes one lesson of the user. *)
Makes(op, b) ==
    IF op = "report" THEN {{i} : i \in {j \in Unreported \ present : Owner[j] = b.user}} ELSE {{}}

Missing(op, b) ==
    \/ op \in {"deleteLesson", "resolveConflict"} /\ b.item \notin Gone(op, b)
    \/ op = "trail" /\ Owner[b.item] # b.user

(* The core's choice of at most limit of the mutations. *)
Newest(S, limit) ==
    IF limit = None \/ Cardinality(S) <= limit THEN S
    ELSE CHOOSE T \in SUBSET S : Cardinality(T) = limit

(* Raw answers carry the fields of the route that was asked. *)
RawAnswer(op, b, made) ==
    CASE op = "consolidate" ->
             IF b.execute = TRUE THEN [shape |-> "execution", consolidated |-> Gone(op, b)]
             ELSE [shape |-> "scan", clusters |-> Of("memory", b.user) \cap Clustered]
      [] op = "decay" -> [candidates |-> Of("memory", b.user) \cap Faded,
                          archived |-> Cardinality(Gone(op, b))]
      [] op = "cap"   -> [active |-> Cardinality(Of("memory", b.user))]
      [] op = "stats" -> [count |-> Cardinality(Of("memory", b.user)),
                          sources |-> {Site[i] : i \in Of("memory", b.user)}]
      [] op = "resetSource" -> [deleted |-> Cardinality(Gone(op, b))]
      [] op \in {"reconcile", "reconcileAll"} ->
             [processed |-> Cardinality(Settled(op, b)), resolved |-> Cardinality(Settled(op, b))]
      [] op = "reconcileStatus" -> [pending |-> Cardinality({i \in undecided : Owner[i] = b.user})]
      [] op = "summary" -> [total |-> Cardinality({i \in Items : Kind[i] = "memory" /\ Owner[i] = b.user}),
                            active |-> Cardinality(Of("memory", b.user))]
      [] op = "recent"  ->
             [mutations |-> {[memory |-> i, valid_to |-> None] :
                                 i \in Newest(Of("memory", b.user), b.limit)}]
      [] op = "trail"   -> [memory |-> b.item, superseded |-> b.item \notin present]
      [] op = "lessons" -> [rows |-> Of("lesson", b.user)]
      [] op = "report"  -> [lesson_id |-> made]
      [] op = "lessonStats" -> [active |-> Cardinality(Of("lesson", b.user))]
      [] op = "updateConfig" ->
             [applied |-> {f \in Fields : b.updates[f] # None},
              config |-> [f \in Fields |-> IF b.updates[f] # None THEN b.updates[f] ELSE config[f]]]
      [] op = "health"    -> [config |-> config]
      [] op = "setTrust"  -> [level |-> b.level]
      [] op = "getTrust"  -> [level |-> trust[b.user]]
      [] op = "conflicts" -> [rows |-> Of("conflict", b.user)]
      [] op \in {"resolveConflict", "autoResolve"} -> [resolved |-> Gone(op, b)]
      [] op = "deleteLesson" -> [success |-> TRUE]

-----------------------------------------------------------------------------
(* Mapping of the answers *)

ToConsolidationResult(raw) ==
    IF "consolidated" \in DOMAIN raw THEN [consolidatedMemoryIds |-> raw.consolidated]
                                     ELSE [clusters |-> raw.clusters]
(* Mutant: the candidates are counted, not what was archived. *)
ToDecayResultOfCandidates(raw) ==
    [candidatesForArchival |-> raw.candidates, archived |-> Cardinality(raw.candidates)]

ToDecayResult(raw) == [candidatesForArchival |-> raw.candidates, archived |-> raw.archived]
ToCapCheckResult(raw) == [activeMemories |-> raw.active]
ToStatsResult(raw) == [count |-> raw.count, sourceDistribution |-> raw.sources]
ToResetSourceResult(raw) == [deletedMemories |-> raw.deleted]
ToReconciliationResult(raw) == [processed |-> raw.processed, resolved |-> raw.resolved]
ToMutationSummary(raw) == [totalVersions |-> raw.total, activeVersions |-> raw.active]
ToMutationRecord(raw) == [memoryId |-> raw.memory, validTo |-> raw.valid_to]
ToAuditTrail(raw) == [memoryId |-> raw.memory, superseded |-> raw.superseded]
ToLessons(raw) == [lessons |-> raw.rows]
ToAgentConflicts(raw) == [conflicts |-> raw.rows]
ToHealthConfig(raw) == [f \in Shown |-> raw[f]]
ToConfig(raw) == [applied |-> raw.applied, config |-> ToHealthConfig(raw.config)]

ToResult(op, raw) ==
    CASE op = "consolidate" -> ToConsolidationResult(raw)
      [] op = "decay"       -> ToDecayResult(raw)
      [] op = "cap"         -> ToCapCheckResult(raw)
      [] op = "stats"       -> ToStatsResult(raw)
      [] op = "resetSource" -> ToResetSourceResult(raw)
      [] op \in {"reconcile", "reconcileAll"} -> ToReconciliationResult(raw)
      [] op = "summary"     -> ToMutationSummary(raw)
      [] op = "recent"      -> {ToMutationRecord(row) : row \in raw.mutations}
      [] op = "trail"       -> ToAuditTrail(raw)
      [] op = "updateConfig" -> ToConfig(raw)
      [] op = "health"      -> [config |-> ToHealthConfig(raw.config)]
      [] op = "report"      -> [lessonId |-> raw.lesson_id]
      [] op = "lessons"     -> ToLessons(raw)
      [] op = "conflicts"   -> ToAgentConflicts(raw)
      [] OTHER              -> raw

-----------------------------------------------------------------------------
(* A call: sent, carried out by the core or not, and read.  When the       *)
(* timeout fires the call rejects; the core may carry the request out yet. *)

AdminBegin(c, ask) ==
    /\ admin[c].phase # "sent"
    /\ admin' = [admin EXCEPT ![c] = [phase |-> "sent", ask |-> ask, body |-> AdminBody(ask)]]
    /\ did' = [did EXCEPT ![c] = NoChange]
    /\ UNCHANGED <<coreVars, adrift>>

AdminEnds(c, outcome) ==
    admin' = [admin EXCEPT ![c] = [phase |-> "ended", ask |-> @.ask, error |-> outcome.error,
                                  result |-> outcome.value]]

(* Only deleting a lesson reads no body; no route forgives a 404. *)
AdminFetch(op, answer) == IF op = "deleteLesson" THEN FetchVoid(answer) ELSE FetchJson(answer)

AdminRead(op, answer) ==
    LET fetched == AdminFetch(op, answer)
    IN  IF fetched.error # None \/ op = "deleteLesson" THEN fetched
                                                     ELSE Returned(ToResult(op, fetched.value))

Carry(op, b, made) ==
    /\ present' = (present \ Gone(op, b)) \cup made
    /\ undecided' = undecided \ Settled(op, b)
    /\ config' = [f \in Fields |-> IF op = "updateConfig" /\ b.updates[f] # None
                                   THEN b.updates[f] ELSE config[f]]
    /\ trust' = [u \in Users |-> IF op = "setTrust" /\ u = b.user THEN b.level ELSE trust[u]]

(* The body of an answer may be no JSON although the core has done its part. *)
AdminServe(c) ==
    /\ admin[c].phase = "sent"
    /\ LET op == admin[c].ask.op
           b  == admin[c].body
       IN  /\ ~Missing(op, b)
           /\ \E made \in Makes(op, b) : \E body \in {RawAnswer(op, b, made), Garbled} :
                 /\ Carry(op, b, made)
                 /\ did' = [did EXCEPT ![c] = [gone |-> Gone(op, b), settled |-> Settled(op, b),
                                               made |-> made]]
                 /\ AdminEnds(c, AdminRead(op, [status |-> 200, body |-> body]))
    /\ UNCHANGED adrift

AdminReject(c) ==
    /\ admin[c].phase = "sent"
    /\ \E status \in {404, 429, 500} :
          /\ status = 404 <=> Missing(admin[c].ask.op, admin[c].body)
          /\ AdminEnds(c, AdminRead(admin[c].ask.op, [status |-> status, body |-> None]))
    /\ UNCHANGED <<coreVars, adrift, did>>

AdminTimesOut(c) ==
    /\ admin[c].phase = "sent"
    /\ AdminEnds(c, AdminRead(admin[c].ask.op, NoAnswer))
    /\ \/ adrift' = adrift
       \/ /\ Cardinality(adrift) < MaxAdrift /\ admin[c].ask.op \in Changes
          /\ adrift' = adrift \cup {[op |-> admin[c].ask.op, body |-> admin[c].body]}
    /\ UNCHANGED <<coreVars, did>>

AdriftServed ==
    /\ \E request \in adrift :
          /\ IF Missing(request.op, request.body) THEN UNCHANGED coreVars
             ELSE \E made \in Makes(request.op, request.body) :
                     Carry(request.op, request.body, made)
          /\ adrift' = adrift \ {request}
    /\ UNCHANGED <<admin, did>>

AdminActs(c) ==
    \/ \E ask \in AdminAsks[c] : AdminBegin(c, ask)
    \/ AdminServe(c) \/ AdminReject(c) \/ AdminTimesOut(c)

AdminNext ==
    \/ \E c \in Admins : AdminActs(c)
    \/ AdriftServed

AdminSpec == AdminInit /\ [][AdminNext]_adminVars

-----------------------------------------------------------------------------
(* Properties *)

AdminEnded(c)    == admin[c].phase = "ended"
AdminResolved(c) == AdminEnded(c) /\ admin[c].error = None
Touched(c)       == did[c].gone \cup did[c].settled \cup did[c].made

(* The variables keep their types: settings stay numbers, whatever is left *)
(* out of an update, and what rejects has no result.                       *)
AdminTypeOK ==
    /\ present \subseteq Items /\ undecided \subseteq Deferred
    /\ \A c \in Admins : admin[c].phase \in {"none", "sent", "ended"}
    /\ config \in [Fields -> Nat] /\ trust \in [Users -> Nat]
    /\ \A c \in Admins : AdminEnded(c) =>
          /\ admin[c].error \in ProviderErrors \cup {None, "Error"}
          /\ admin[c].error # None => admin[c].result = None

(* Memories go by consolidation and decay only when the caller asked for   *)
(* it: consolidation runs with execute true, decay with dryRun false, and  *)
(* leaving the argument out is a dry run for both (handle-impl.ts,         *)
(* consolidate and decay).                                                 *)
DryByDefault ==
    \A c \in Admins : admin[c].phase # "none" /\ did[c].gone # {} =>
        /\ admin[c].ask.op = "consolidate" => admin[c].ask.flag = TRUE
        /\ admin[c].ask.op = "decay"       => admin[c].ask.flag = FALSE

(* A call for a user changes what that user owns and nothing else; only    *)
(* reconcileAll and resolveConflict name no user.                          *)
OwnUserOnly ==
    \A c \in Admins : admin[c].phase # "none"
                    /\ admin[c].ask.op \notin {"reconcileAll", "resolveConflict"} =>
        \A i \in Touched(c) : Owner[i] = admin[c].ask.user

(* What a call that resolves reports is what it did.                       *)
TellsWhatItDid(ask, r, d) ==
    /\ ask.op = "consolidate" /\ ask.flag = TRUE => r = [consolidatedMemoryIds |-> d.gone]
    /\ ask.op = "consolidate" /\ ask.flag # TRUE => DOMAIN r = {"clusters"}
    /\ ask.op = "decay"       => r.archived = Cardinality(d.gone)
    /\ ask.op = "resetSource" => r.deletedMemories = Cardinality(d.gone)
    /\ ask.op \in {"reconcile", "reconcileAll"} => r.resolved = Cardinality(d.settled)
    /\ ask.op = "report"      => r.lessonId = d.made

ReportsWhatHappened ==
    \A c \in Admins : AdminResolved(c) => TellsWhatItDid(admin[c].ask, admin[c].result, did[c])

(* An update that resolves set every setting it was given, a value of 0    *)
(* too, and no other, and tells the new value of those the health report   *)
(* has (handle-impl.ts, updateConfig).                                     *)
TellsSettings(ask, r) ==
    ask.op = "updateConfig" =>
        /\ r.applied = {f \in Fields : ask.updates[f] # None}
        /\ \A f \in r.applied \cap Shown : r.config[f] = ask.updates[f]

ConfigAsAsked ==
    \A c \in Admins : AdminResolved(c) => TellsSettings(admin[c].ask, admin[c].result)

(* Of two deletions of one lesson one resolves at most: a lesson that is   *)
(* not there is an error, unlike a memory (handle-impl.ts, lessons.delete).*)
OneDeletionResolves ==
    \A c \in Admins : AdminResolved(c) /\ admin[c].ask.op = "deleteLesson" =>
        did[c].gone = {admin[c].ask.item}

(* Nothing changes that nobody asked to change: of another user, without   *)
(* the word that makes a run destructive, or a second time.                *)
ChangesAreAsked == DryByDefault /\ OwnUserOnly /\ OneDeletionResolves

(* A call that rejects with an error of the core has changed nothing.  One *)
(* that rejects with another may have: its answer was lost or garbled      *)
(* (http-client.ts, fetchJson).                                            *)
RejectionsChangeNothing ==
    \A c \in Admins : AdminEnded(c) /\ admin[c].error \in ProviderErrors => did[c] = NoChange

(* A caller can go by what it is told: counts, ids and settings of an      *)
(* answer are those of what was done, and the core's errors of nothing.    *)
ReportsAreTrue == ReportsWhatHappened /\ ConfigAsAsked /\ RejectionsChangeNothing
==============================================================================
