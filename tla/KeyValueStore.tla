---------------------------- MODULE KeyValueStore ----------------------------
(***************************************************************************)
(* What a storage adapter promises its callers, as the interface           *)
(* StorageAdapter states it: a map that holds the last value put under a   *)
(* key until the value is removed or lapses, answers lookups from it, and  *)
(* holds nothing once it is closed.                                        *)
(***************************************************************************)
CONSTANTS Keys, Values, None

VARIABLES
    kv,       \* the value under each key, None when there is none
    closed,
    answer    \* the last answer given to a caller

kvars == <<kv, closed, answer>>

KVInit ==
    /\ kv = [k \in Keys |-> None]
    /\ closed = FALSE
    /\ answer = None

Put(k, v) ==
    /\ ~closed
    /\ kv' = [kv EXCEPT ![k] = v]
    /\ UNCHANGED <<closed, answer>>

(* Deletion, expiry and clearing: the keys of S lose their values. *)
Remove(S) ==
    /\ kv' = [k \in Keys |-> IF k \in S THEN None ELSE kv[k]]
    /\ UNCHANGED <<closed, answer>>

Lookup(k) ==
    /\ ~closed
    /\ answer' = kv[k]
    /\ UNCHANGED <<kv, closed>>

Close ==
    /\ kv' = [k \in Keys |-> None]
    /\ closed' = TRUE
    /\ UNCHANGED answer

KVNext ==
    \/ \E k \in Keys : Lookup(k) \/ \E v \in Values : Put(k, v)
    \/ \E S \in SUBSET Keys : Remove(S)
    \/ Close

KVSpec == KVInit /\ [][KVNext]_kvars
=============================================================================
