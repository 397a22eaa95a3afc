------------------------------- MODULE MCMemory -------------------------------
(* Instances of MemoryStorage for TLC: two keys, values of size 1 and 2. *)
EXTENDS MemoryStorage

CONSTANTS k1, k2, small, large

ValueSizes == [v \in Values \cup {None} |-> CASE v = small -> 1 [] v = large -> 2 [] OTHER -> 0]
NoKeys     == {}
SecondKey  == {k2}
NoValues   == {}

SetOp(k, v) == [type |-> "set", key |-> k, value |-> v]
DeleteOp(k) == [type |-> "delete", key |-> k, value |-> small]

(* Lists that repeat a key, that give room to a later operation and that   *)
(* need room an earlier one gives.                                         *)
SomeBatches ==
    {<<SetOp(k1, large), SetOp(k2, small)>>,
     <<SetOp(k1, small), SetOp(k1, large), DeleteOp(k2)>>,
     <<DeleteOp(k1), SetOp(k2, large)>>}
===============================================================================
