-------------------------------- MODULE Lists --------------------------------
(***************************************************************************)
(* What removals and sorts leave of the ordered collections of the SDK:    *)
(* its arrays, and its Maps, which keep their entries in the order of      *)
(* insertion.                                                              *)
(***************************************************************************)
EXTENDS Naturals, FiniteSets, SequencesExt

(* The elements of s that are in S, in their order. *)
Keep(s, S) ==
    FoldLeft(LAMBDA kept, x : IF x \in S THEN Append(kept, x) ELSE kept, <<>>, s)

(* The places one after the other, from the set of places ahead of each. *)
InTurn(ahead) ==
    [n \in DOMAIN ahead |-> CHOOSE i \in DOMAIN ahead : Cardinality(ahead[i]) = n - 1]

(* Array.prototype.sort, which is stable; Less is a strict weak order. *)
StableSort(s, Less(_, _)) ==
    LET ahead == [i \in 1..Len(s) |-> {j \in 1..Len(s) :
                     Less(s[j], s[i]) \/ (~Less(s[i], s[j]) /\ j < i)}]
        order == InTurn(ahead)
    IN [n \in 1..Len(s) |-> s[order[n]]]

(* The sum of the numbers that f has for the members of S. *)
Total(f, S) == FoldFunctionOnSet(+, 0, f, S)
==============================================================================
