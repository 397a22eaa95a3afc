------------------------------ MODULE MCStorage ------------------------------
(***************************************************************************)
(* Instances of StorageManager for TLC: three adapters, of which a set     *)
(* needs two.  A behaviour follows one focus:                              *)
(*   quorum      one call over all three, with retries, aborts and a third *)
(*               adapter that may fail its health checks                   *)
(*   overlap     two calls at a time, aborted at any point, over two       *)
(*               adapters: an earlier failure opened the breaker of the    *)
(*               third, and its health checks fail                         *)
(*   successive  two sets or deletes one after the other, with retries,    *)
(*               over the same two                                         *)
(* Calls are numbered in the order in which they start.                    *)
(***************************************************************************)
EXTENDS StorageManager

AllKinds    == {"set", "delete", "get", "batch", "keys"}
Unretried   == {"set", "delete", "get", "batch"}
Replicating == {"set", "delete"}
SingleKinds == {"set", "get", "keys"}
OneCall     == {1}

VARIABLE focus

Quorum == INSTANCE StorageManager
              WITH Kinds <- SingleKinds, Abortable <- OneCall
Overlap == INSTANCE StorageManager
               WITH Kinds <- Unretried, MaxAttempts <- 1, Abortable <- Calls,
                    MaxConcurrent <- 2
Successive == INSTANCE StorageManager WITH Kinds <- Replicating

SetUp ==
    /\ focus = "none"
    /\ \/ focus' = "quorum" /\ UNCHANGED health
       \/ /\ focus' \in {"overlap", "successive"}
          /\ health' = [health EXCEPT ![3] = RecordFailure(@)]
    /\ UNCHANGED <<store, callVars, step, hit, aborted, orphans, applied, overlap>>

InOrder == \A c \in Calls : call'[c] # "none" => \A d \in 1..c : call'[d] # "none"
OverTwo == health'[3] = health[3] /\ InOrder

MCInit == Init /\ focus = "none"
MCNext ==
    \/ SetUp
    \/ /\ \/ focus = "quorum" /\ Quorum!Next /\ call'[2] = "none"
          \/ focus = "overlap" /\ Overlap!Next /\ OverTwo
          \/ focus = "successive" /\ Successive!Next /\ OverTwo
       /\ UNCHANGED focus
MCSpec ==
    /\ MCInit /\ [][MCNext]_<<focus, vars>>
    /\ WF_vars(focus = "quorum" /\ Quorum!Progress(1) /\ UNCHANGED focus)

(* Every call over three adapters ends, whatever is retried or aborted:    *)
(* retries are bounded and every attempt is under a timeout.               *)
CallsEnd == focus = "quorum" /\ Running(1) ~> ~Running(1)
=============================================================================
