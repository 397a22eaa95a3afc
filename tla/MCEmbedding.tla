----------------------------- MODULE MCEmbedding -----------------------------
(***************************************************************************)
(* Instances for TLC of three components that callers reach between awaits *)
(* of others.  A behaviour is about one of them: the shared models, which  *)
(* the adapters use alone, of which there are two and whose disposals      *)
(* overlap; the generator, which has one; the generator once more with the *)
(* pipeline that answers a slice with one tensor, for batches of one       *)
(* caller; or the event emitter, with three listeners, two of one          *)
(* priority.                                                               *)
(***************************************************************************)
EXTENDS EmbeddingGenerator, EventEmitter

CONSTANTS d1, t1, t2, t3, k1, k2, m, n, l1, l2, l3

Priorities == [l \in Listeners |-> IF l = l3 THEN 1 ELSE 0]
TwoOnce    == {l1, l3}
Second     == {l2}

(* t2 and t3 have one hash. *)
SomeKeys     == [t \in Texts |-> IF t = t1 THEN k1 ELSE k2]
SomeRequests == {<<t2, t1, t3>>, <<t1>>}

Tensor == INSTANCE EmbeddingGenerator WITH TensorBatches <- TRUE

VARIABLE focus      \* what this behaviour is about; never changes

MCInit ==
    /\ EmbInit /\ Init
    /\ focus \in {"models", "generator", "tensor", "emitter"}

(* BOUND: a record is left for later, and dispose calls of the generator   *)
(* overlap each other while the models are left alone.                     *)
Bounded ==
    /\ created' <= 2 /\ disposing' \subseteq {d1}
    /\ closing' <= 1 \/ (disposing' = {} /\ created' <= 1)

MCNext ==
    /\ \/ focus = "generator" /\ GenNext /\ Bounded /\ UNCHANGED vars
       \/ /\ focus = "tensor" /\ Tensor!GenNext /\ UNCHANGED vars
          /\ disposing' = {} /\ closing' = 0    \* BOUND
       \/ focus = "models" /\ ModelNext /\ UNCHANGED <<genVars, vars>>
       \/ focus = "emitter" /\ Next /\ UNCHANGED embVars
    /\ UNCHANGED focus

MCSpec == MCInit /\ [][MCNext]_<<embVars, vars, focus>>
===============================================================================
