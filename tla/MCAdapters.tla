------------------------------ MODULE MCAdapters ------------------------------
(***************************************************************************)
(* One run for what is kept of adapters and what is in one: a behaviour is *)
(* one of MCResilience, or one of MCMemory, whose focus is "memory", and   *)
(* leaves the variables of the other as they were at the start.            *)
(***************************************************************************)
EXTENDS MCMemory, MCResilience

Undisturbed ==
    /\ Init /\ focus = "memory" /\ troubled = {}
    /\ \A a \in Adapters : available[a]

AdaptersInit == MemoryInit /\ (MCInit \/ Undisturbed)

AdaptersNext ==
    \/ MCNext /\ UNCHANGED memoryVars
    \/ focus = "memory" /\ MemoryNext /\ UNCHANGED <<vars, focus, troubled>>

(* Fairness and the interval of MemoryFairSpec, each in its own behaviours. *)
AdaptersSpec ==
    /\ AdaptersInit /\ [][AdaptersNext]_<<memoryVars, vars, focus, troubled>>
    /\ WF_memoryVars(focus = "memory" /\ interval /\ CleanupExpired)
    /\ WF_vars(focus = "shallow" /\ PerformHealthCheck)
    /\ WF_vars(focus = "shallow" /\ Dispatch)
    /\ \A a \in Adapters :
         WF_vars(/\ focus = "shallow"
                 /\ OperationSucceeds(a) \/ OperationFails(a) \/ OperationUnreported(a))
===============================================================================
