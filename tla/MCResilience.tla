----------------------------- MODULE MCResilience -----------------------------
(***************************************************************************)
(* Instances of ResilienceManager for TLC: two adapters, low thresholds.   *)
(* A behaviour has shallow health checks and two overlapping operations    *)
(* per adapter, or deep checks whose answers arrive late; the second       *)
(* adapter is one of the application's own, which accepts the test key.    *)
(***************************************************************************)
EXTENDS ResilienceManager

SecondOnly == {2}
NoAdapter  == {}

VARIABLES
    focus,      \* which checks this behaviour has; never changes
    troubled    \* history of DeepSpec: the adapters that were unavailable at
                \* some time or on which an operation failed

Deep == INSTANCE ResilienceManager
            WITH DeepCheck <- TRUE, OwnKeyRules <- SecondOnly, MaxInFlight <- 1

MCInit == Init /\ focus \in {"shallow", "deep"} /\ troubled = {}
MCNext ==
    /\ \/ focus = "shallow" /\ Next
       \/ focus = "deep" /\ Deep!Next
    /\ UNCHANGED <<focus, troubled>>

(* With shallow checks, AvailableAdapterHeals: an adapter that stays       *)
(* available and whose breaker stays closed is used again and again.       *)
AdapterHeals == focus = "shallow" => AvailableAdapterHeals

StuckInit == Init /\ focus = "shallow" /\ troubled = {}
StuckNext == Next /\ UNCHANGED <<focus, troubled>>
StuckSpec == StuckInit /\ [][StuckNext]_<<vars, focus, troubled>> /\ Fairness

DeepInit == /\ Init /\ focus = "deep"
            /\ troubled = {a \in Adapters : ~available[a]}
DeepNext ==
    /\ Next
    /\ troubled' = troubled \cup
          {a \in Adapters : ~available'[a] \/ OperationFails(a)}
    /\ UNCHANGED focus
DeepSpec == DeepInit /\ [][DeepNext]_<<vars, focus, troubled>>

(* isHealthy tells "Whether the adapter is currently healthy" (types.ts,   *)
(* AdapterHealthStatus), and a deep check tests it "with actual operation" *)
(* (health-tracker.ts:223): an adapter that was available all the time and *)
(* on which no operation ever failed is not marked unhealthy.              *)
UnhealthyForAReason ==
    \A a \in Adapters : ~health[a].isHealthy => a \in troubled
===============================================================================
