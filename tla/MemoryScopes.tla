---------------------------- MODULE MemoryScopes ----------------------------
(***************************************************************************)
(* The scope of a request, per provider and route: what of it goes on the  *)
(* wire, what is checked in the answer, and the scope the caller reads on  *)
(* a memory.  A scope is a record over ScopeFields in which an absent      *)
(* field is None; the scope of a backend-agnostic call has no workspace    *)
(* and no agentScope.                                                      *)
(***************************************************************************)
EXTENDS HttpClient, Sequences, SequencesExt

ScopeFields == {"user", "workspace", "agent", "agentScope", "namespace", "thread"}
Providers   == {"handle", "atomicmemory", "mem0", "hindsight"}

(* The operations each of them offers. *)
Routes ==
    [handle       |-> {"ingest", "search", "list", "expand", "get", "delete"},
     atomicmemory |-> {"ingest", "search", "package", "asOf", "get", "delete", "list"},
     mem0         |-> {"ingest", "search", "get", "delete", "list"},
     hindsight    |-> {"ingest", "search", "package", "get", "delete", "list"}]

Only(scope, fields) == [f \in ScopeFields |-> IF f \in fields THEN scope[f] ELSE None]
Workspace(scope)    == scope.workspace # None

-----------------------------------------------------------------------------
(* What a route forwards.  "handle" is the AtomicMemory handle, the others *)
(* are the providers.                                                      *)

ScopeToFields(includes) == {"user", "workspace", "agent"} \cup includes

HandleForwards(op) ==
    CASE op = "search"                       -> ScopeToFields({"agentScope", "thread"})
      [] op \in {"ingest", "list"}           -> ScopeToFields({"thread"})
      [] op \in {"expand", "get", "delete"}  -> ScopeToFields({})

AtomicMemoryForwards(op) ==
    CASE op = "ingest"                        -> {"user", "thread"}
      [] op \in {"search", "package", "asOf"} -> {"user", "namespace", "thread"}
      [] op \in {"get", "delete"}             -> {"user"}
      [] op = "list"                          -> {"user", "thread"}

Mem0Forwards(op) ==
    CASE op \in {"ingest", "search"}  -> {"user", "agent", "thread"}
      [] op \in {"get", "delete"}     -> {}
      [] op = "list"                  -> {"user"}

(* The bank of the user, and tags for the rest. *)
HindsightForwards(op) ==
    IF op \in {"ingest", "search", "package"} THEN {"user", "agent", "namespace", "thread"}
                                              ELSE {"user"}

Forwarded(provider, op, scope) ==
    Only(scope, CASE provider = "handle"       -> HandleForwards(op)
                  [] provider = "atomicmemory" -> AtomicMemoryForwards(op)
                  [] provider = "mem0"         -> Mem0Forwards(op)
                  [] provider = "hindsight"    -> HindsightForwards(op))

-----------------------------------------------------------------------------
(* The scope an answer is read under, and the checks. *)

StripAgentScope(scope)  == [scope EXCEPT !.agentScope = None]
StripReadFilters(scope) == [scope EXCEPT !.agentScope = None, !.thread = None]

Echoed(provider, op, scope) ==
    CASE provider = "handle" /\ op = "list"             -> StripAgentScope(scope)
      [] provider = "handle" /\ op \in {"get","expand"} -> StripReadFilters(scope)
      [] OTHER                                          -> scope

(* Mutant: a memory that tells no thread passes. *)
ThreadMismatchIfTold(raw, scope) ==
    scope.thread # None /\ raw.thread # None /\ raw.thread # scope.thread

ThreadMismatch(raw, scope) ==
    scope.thread # None /\ raw.thread # scope.thread

NamespaceMismatch(raw, scope) ==
    scope.namespace # None /\ raw.namespace # None /\ raw.namespace # scope.namespace

(* Whether reading the memory throws. *)
Refused(provider, raw, scope) ==
    CASE provider = "handle"       -> ThreadMismatch(raw, scope)
      [] provider = "atomicmemory" -> ThreadMismatch(raw, scope) \/ NamespaceMismatch(raw, scope)
      [] OTHER                     -> FALSE

Overwrite(scope, field, value) == IF value = None THEN scope ELSE [scope EXCEPT ![field] = value]

BuildMemoryScope(raw, scope) == Overwrite(scope, "thread", raw.thread)
BuildScope(raw, scope) == Overwrite(Overwrite(scope, "namespace", raw.namespace),
                                    "thread", raw.thread)

Label(provider, raw, scope) ==
    CASE provider = "handle"       -> BuildMemoryScope(raw, scope)
      [] provider = "atomicmemory" -> BuildScope(raw, scope)
      [] OTHER                     -> scope
=============================================================================
