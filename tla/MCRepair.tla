------------------------------- MODULE MCRepair -------------------------------
(***************************************************************************)
(* Instances of RepairManager for TLC: two operations that both of the     *)
(* adapters missed.  A behaviour follows one focus:                        *)
(*   overlap  two runs at a time, a queue of one with random eviction; the *)
(*            first adapter may stay unhealthy for good, the other keeps   *)
(*            its record                                                   *)
(*   batches  two runs at a time over lists of up to two operations, so    *)
(*            that a run still holds an operation when another run counts  *)
(*            an attempt of it                                             *)
(*   single   runs that do not overlap over two operations, one of which   *)
(*            the first adapter cannot take                                *)
(***************************************************************************)
EXTENDS RepairManager

MissedByBoth == [o \in Ops |-> Adapters]
NothingUnfit == {}
FirstUnfit   == {<<1, CHOOSE o \in Ops : TRUE>>}

VARIABLE focus      \* never changes

Single == INSTANCE RepairManager
              WITH Unfit <- FirstUnfit, MaxQueueSize <- 2,
                   Eviction <- "least-attempts", BatchSize <- 2, MaxAttempts <- 2

Batches == INSTANCE RepairManager
               WITH MaxQueueSize <- 2, Eviction <- "oldest", BatchSize <- 2

MCInit == focus \in {"overlap", "batches", "single"} /\ Init
MCNext ==
    /\ \/ focus = "overlap" /\ Next /\ health'[2] = health[2]
       \/ focus = "batches" /\ Batches!Next /\ health'[2] = health[2] /\ active' = active
       \/ focus = "single" /\ Single!Next /\ \A r \in Runs \ {1} : run'[r] = IdleRun
    /\ UNCHANGED focus
MCSpec ==
    /\ MCInit /\ [][MCNext]_<<focus, vars>>
    /\ WF_vars(focus = "overlap" /\ Tick)
    /\ \A r \in Runs : WF_vars(focus = "overlap" /\ Progress(r))

(* Every queued operation leaves the queue, repaired or given up, as long  *)
(* as the manager runs: also when its adapters never recover, and when     *)
(* runs overlap.                                                           *)
EverythingLeaves ==
    \A o \in Ops : focus = "overlap" /\ o \in Queued ~> (o \notin Queued \/ ~active)
===============================================================================
