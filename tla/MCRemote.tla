------------------------------- MODULE MCRemote -------------------------------
(***************************************************************************)
(* Everything that talks to a remote core, for TLC: memory calls over the  *)
(* four providers, the client above them, the other categories of the      *)
(* handle, and the artifact client.  They share no state, so a behaviour   *)
(* is about one of them and the variables of the others stay as they are.  *)
(***************************************************************************)
EXTENDS MemoryCalls, MemoryClient, AdminRoutes, ArtifactStorage

VARIABLE focus      \* what this behaviour is about; never changes

-----------------------------------------------------------------------------
(* Memory calls.  Contents are facts or meta-facts. *)

S(user, workspace, agent, agentScope, namespace, thread) ==
    [user |-> user, workspace |-> workspace, agent |-> agent, agentScope |-> agentScope,
     namespace |-> namespace, thread |-> thread]

Ask(o, scope) == [op |-> o, scope |-> scope, id |-> 1, limit |-> 1, offset |-> 0,
                   verbatim |-> FALSE, visibility |-> FALSE, site |-> FALSE,
                   infer |-> None, content |-> "fact"]

Plain(thread)   == S("u", None, None, None, None, thread)
Named(ns, thread) == S("u", None, None, None, ns, thread)
Team(agent, agentScope, thread) == S("u", "w", agent, agentScope, None, thread)

Verbatim(ask) == [ask EXCEPT !.verbatim = TRUE]
Second(ask)   == [ask EXCEPT !.id = 2]
All(ask)      == [ask EXCEPT !.limit = None]
With(content, ask) == [ask EXCEPT !.content = content]

CallInputs == [p \in Providers |->
   CASE p = "handle" ->
      {Ask("ingest", Plain("t1")), Verbatim(Ask("ingest", Plain("t2"))),
       Verbatim(Ask("ingest", Team("a1", None, "t1"))),
       [Ask("ingest", Plain("t1")) EXCEPT !.visibility = TRUE],
       Ask("search", Plain("t1")), All(Ask("search", Team("a2", "self", None))),
       Ask("expand", Plain("t1")), Ask("get", Plain("t1")), Ask("delete", Plain("t2")),
       Ask("list", Plain("t1")), Ask("list", Team("a2", "self", None)),
       [Ask("list", Team("a2", "self", None)) EXCEPT !.site = TRUE]}
   [] p = "atomicmemory" ->
      {Ask("ingest", Plain("t1")), With("meta", Verbatim(Ask("ingest", Plain("t2")))),
       Ask("ingest", S(None, None, None, None, None, None)),
       All(Ask("search", Named("n1", "t1"))), All(Ask("package", Plain(None))), All(Ask("asOf", Plain("t2"))),
       Ask("get", Plain("t1")), Ask("delete", Plain("t1")), Ask("list", Plain("t1")), Ask("list", Plain(None))}
   [] p = "mem0" ->
      {Ask("ingest", Plain("t1")), [Ask("ingest", Plain("t2")) EXCEPT !.infer = FALSE],
       Verbatim(Ask("ingest", Plain("t2"))),
       Ask("search", Plain("t1")), Ask("get", Plain("t1")),
       Ask("delete", Plain("t2")), Ask("list", Plain("t1"))}
   [] p = "hindsight" ->
      {Ask("ingest", Named("n1", "t1")), Ask("ingest", Plain("t2")), Verbatim(Ask("ingest", Plain("t2"))),
       Ask("search", Plain("t1")), All(Ask("package", Named("n1", "t1"))),
       Ask("get", Plain("t1")), Ask("delete", Plain("t1")), Ask("list", Plain("t1"))}]

NoFilter == [enabled |-> FALSE, patterns |-> <<[family |-> "user said", global |-> FALSE]>>, mode |-> "replace"]
Setup(p) == [provider |-> p, ignores |-> {}, projects |-> TRUE, namespaces |-> {None},
             total |-> FALSE, budget |-> TRUE, quotes |-> FALSE, defer |-> FALSE, infer |-> TRUE,
             queues |-> FALSE, filter |-> NoFilter]
CallSetups ==
    {Setup("handle"), [Setup("handle") EXCEPT !.ignores = {"thread"}],
     [Setup("handle") EXCEPT !.projects = FALSE, !.ignores = {"thread"}],
     [Setup("atomicmemory") EXCEPT !.ignores = {"thread"}, !.namespaces = {"n1", "n2"}],
     [Setup("atomicmemory") EXCEPT !.filter = [NoFilter EXCEPT !.enabled = TRUE]],
     [Setup("mem0") EXCEPT !.defer = TRUE], [Setup("mem0") EXCEPT !.infer = FALSE],
     [Setup("mem0") EXCEPT !.defer = TRUE, !.queues = TRUE],
     Setup("hindsight"), [Setup("hindsight") EXCEPT !.total = TRUE]}
ContentFamilies == [x \in {"fact", "meta"} |-> IF x = "meta" THEN {"user said"} ELSE {}]

-----------------------------------------------------------------------------
(* The client: the default provider comes last, one name has no factory.   *)

ClientNames     == <<"custom", "unknown", "atomicmemory">>
ClientPipelines == {[parts |-> 2, post |-> TRUE, pre |-> TRUE],
                    [parts |-> 0, post |-> TRUE, pre |-> TRUE],
                    [parts |-> 1, post |-> FALSE, pre |-> FALSE]}

-----------------------------------------------------------------------------
(* The other categories of the handle: two callers of the lifecycle and    *)
(* audit methods, two of the rest.                                         *)

CoreItems == {"m1", "m2", "m3", "l1", "l2", "x1"}
CoreKind  == [i \in CoreItems |-> CASE i \in {"l1", "l2"} -> "lesson"
                                   [] i = "x1"            -> "conflict"
                                   [] OTHER               -> "memory"]
CoreOwner == [i \in CoreItems |-> IF i = "m3" THEN "v" ELSE "u"]
CoreSite  == [i \in CoreItems |-> IF i = "m2" THEN "b" ELSE "a"]
Knobs     == {"maxSearchResults", "similarityThreshold"}

Admin(o) == [op |-> o, user |-> "u", item |-> "m1", site |-> "a", flag |-> None,
              updates |-> [f \in Knobs |-> None], level |-> 0, limit |-> 1]
Flagged(o, flag) == [Admin(o) EXCEPT !.flag = flag]
About(o, item)   == [Admin(o) EXCEPT !.item = item]

LifecycleAsks ==
    {Admin(o) : o \in {"consolidate", "decay", "cap", "stats", "resetSource", "reconcileAll",
                         "reconcileStatus", "summary", "recent", "trail"}}
    \cup {Flagged("consolidate", TRUE), Flagged("decay", TRUE)}
AgentsAsks ==
    {Admin(o) : o \in {"lessons", "report", "lessonStats", "health", "setTrust", "getTrust",
                         "conflicts", "autoResolve"}}
    \cup {About("deleteLesson", "l1"),
          [Admin("updateConfig") EXCEPT !.updates = [f \in Knobs |->
               IF f = "maxSearchResults" THEN 0 ELSE None]]}

CoreAsks ==
    [c \in {"a1", "a2", "b1", "b2"} |->
        CASE c = "a1" -> LifecycleAsks
          [] c = "a2" -> {Flagged("decay", FALSE), [Admin("reconcile") EXCEPT !.user = "v"]}
          [] c = "b1" -> AgentsAsks
          [] c = "b2" -> {About("deleteLesson", "l1"), About("resolveConflict", "x1")}]

ActiveAdmins == IF focus = "lifecycle" THEN {"a1", "a2"} ELSE {"b1", "b2"}

-----------------------------------------------------------------------------
(* The artifact client: one caller of everything, one that puts and deletes. *)

Use(o) == [op |-> o, id |-> "i1", mode |-> Unset, body |-> Unset, policy |-> Unset]
PutPointer       == [Use("put") EXCEPT !.mode = "pointer"]
PutManaged(body) == [Use("put") EXCEPT !.mode = "managed", !.body = body]

ArtifactUses ==
    [c \in {"u1", "u2"} |->
        IF c = "u2" THEN {Use("delete"), PutPointer}
        ELSE {Use(o) : o \in {"capabilities", "get", "getContent", "head", "delete", "verify"}}
             \cup {PutPointer, PutManaged("Buffer"), PutManaged("Blob"), PutManaged("ReadableStream"),
                   [Use("get") EXCEPT !.id = Unset],
                   [Use("delete") EXCEPT !.policy = "with_documents"]}]

ArtifactDocs     == [d \in {"d1"} |-> "i1"]
ArtifactBackends == {[eventual |-> TRUE, filecoin |-> FALSE], [eventual |-> FALSE, filecoin |-> TRUE]}

-----------------------------------------------------------------------------
MCInit ==
    /\ focus \in {"calls", "client", "lifecycle", "agents", "artifacts"}
    /\ CallsInit    /\ (focus # "calls"     => setup = Setup("handle"))
    /\ ClientInit   /\ (focus # "client"    => ~pipeline.pre)
    /\ ArtifactInit /\ (focus # "artifacts" => backend.eventual)
    /\ AdminInit

MCNext ==
    /\ \/ /\ focus = "calls" /\ CallsNext
          /\ UNCHANGED <<clientVars, adminVars, artifactVars>>
       \/ /\ focus = "client" /\ ClientNext
          /\ UNCHANGED <<callVars, adminVars, artifactVars>>
       \/ /\ focus \in {"lifecycle", "agents"}
          /\ (\E c \in ActiveAdmins : AdminActs(c)) \/ AdriftServed
          /\ UNCHANGED <<callVars, clientVars, artifactVars>>
       \/ /\ focus = "artifacts" /\ ArtifactNext
          /\ UNCHANGED <<callVars, clientVars, adminVars>>
    /\ UNCHANGED focus

MCSpec == MCInit /\ [][MCNext]_<<callVars, clientVars, adminVars, artifactVars, focus>>
===============================================================================
