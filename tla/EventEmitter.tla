---------------------------- MODULE EventEmitter ----------------------------
(***************************************************************************)
(* The EventEmitter, for one event type.  emit walks the live array of     *)
(* listeners and awaits each asynchronous one: on, off, removeAllListeners *)
(* and other emissions happen in the middle of the walk, called by other   *)
(* code or by the listener itself.                                         *)
(*                                                                         *)
(* The array is an object: a walk keeps the array it started on after the  *)
(* map of listeners has dropped it.  An emission of the error events is    *)
(* one of another event type and is left out.                              *)
(***************************************************************************)
EXTENDS Naturals, Lists

CONSTANTS
    Listeners,   \* subscriptions; each has an id of its own
    Nobody,
    Priority,    \* options.priority of each
    Once,        \* those with options.once
    Throwers,    \* those that may throw
    Emissions    \* BOUND: emissions under way at a time

ASSUME EmitterAssumption ==
    /\ Nobody \notin Listeners
    /\ Priority \in [Listeners -> Nat]
    /\ Once \subseteq Listeners /\ Throwers \subseteq Listeners

VARIABLES
    arrays,      \* the arrays of wrappers created so far
    current,     \* index of the one the map holds, 0 when there is none
    emission,    \* what each emission is doing
    subscribed,  \* history: subscriptions made, in order
    offed,       \* history: listeners off() has removed
    spent,       \* history: once listeners an ended emission has called
    disturbed,   \* history: emissions under whose feet the listeners moved
    through,     \* history: listeners registered throughout the emission
    count        \* history: calls of each listener by the emission, up to 2

history == <<subscribed, offed, spent, disturbed, through, count>>
vars == <<arrays, current, emission, history>>

Walk == [phase: {"idle", "running", "ended"}, array: Nat, next: Nat,
         at: Listeners \cup {Nobody}, remove: SUBSET Listeners]
NoWalk == [phase |-> "idle", array |-> 0, next |-> 1, at |-> Nobody, remove |-> {}]

(* The variables keep their types, and the map holds no empty array: the   *)
(* last listener that leaves takes the array with it (off, emit).          *)
TypeOK ==
    /\ arrays     \in Seq(Seq(Listeners))
    /\ current    \in 0..Len(arrays)
    /\ current # 0 => arrays[current] # <<>>
    /\ emission   \in [Emissions -> Walk]
    /\ subscribed \in Seq(Listeners)
    /\ offed \subseteq Listeners /\ spent \subseteq Listeners
    /\ disturbed  \subseteq Emissions
    /\ through    \in [Emissions -> SUBSET Listeners]
    /\ count      \in [Emissions -> [Listeners -> 0..2]]

Init ==
    /\ arrays     = <<>>
    /\ current    = 0
    /\ emission   = [e \in Emissions |-> NoWalk]
    /\ subscribed = <<>>
    /\ offed      = {}
    /\ spent      = {}
    /\ disturbed  = {}
    /\ through    = [e \in Emissions |-> {}]
    /\ count      = [e \in Emissions |-> [l \in Listeners |-> 0]]

Registered == IF current = 0 THEN {} ELSE ToSet(arrays[current])
UpTo2(n) == IF n < 2 THEN n + 1 ELSE 2

-----------------------------------------------------------------------------
(* push, then a stable sort by descending priority. *)

(* Mutant: a new listener comes before its equals. *)
InsertBeforeEquals(array, l) ==
    Keep(array, {m \in Listeners : Priority[m] > Priority[l]}) \o <<l>>
      \o Keep(array, {m \in Listeners : Priority[m] <= Priority[l]})

Insert(array, l) ==
    Keep(array, {m \in Listeners : Priority[m] >= Priority[l]}) \o <<l>>
      \o Keep(array, {m \in Listeners : Priority[m] < Priority[l]})

(* History: the part of the array an emission has walked over is not the   *)
(* same in new; listeners leave while it lasts.                            *)
Disturb(new) ==
    disturbed' = disturbed \cup
        {e \in Emissions :
           /\ emission'[e].phase = "running" /\ emission[e].array = current
           /\ \E i \in 1..(emission[e].next - 1) :
                /\ i <= Len(arrays[current])
                /\ i > Len(new) \/ new[i] # arrays[current][i]}

Leave(S) ==
    through' = [e \in Emissions |-> IF emission'[e].phase = "running"
                                    THEN through[e] \ S ELSE through[e]]

On(l) ==
    /\ ~Contains(subscribed, l)
    /\ UNCHANGED <<emission, offed, spent, through, count>>
    /\ subscribed' = Append(subscribed, l)
    /\ IF current = 0
       THEN /\ arrays' = Append(arrays, <<l>>)
            /\ current' = Len(arrays) + 1
            /\ UNCHANGED disturbed
       ELSE /\ arrays' = [arrays EXCEPT ![current] = Insert(@, l)]
            /\ Disturb(Insert(arrays[current], l))
            /\ UNCHANGED current

Left(S) == Keep(arrays[current], Listeners \ S)

(* The array in the map loses the listeners of S; an empty one is dropped. *)
Splice(S) ==
    IF current = 0 THEN UNCHANGED <<arrays, current, disturbed, through>>
    ELSE /\ arrays' = [arrays EXCEPT ![current] = Left(S)]
         /\ current' = IF Left(S) = <<>> THEN 0 ELSE current
         /\ Disturb(Left(S)) /\ Leave(S)

Off(l) ==
    /\ l \in Registered
    /\ UNCHANGED <<emission, subscribed, spent, count>>
    /\ Splice({l})
    /\ offed' = offed \cup {l}

RemoveAllListeners ==
    /\ current # 0
    /\ UNCHANGED <<arrays, emission, subscribed, offed, spent, disturbed, count>>
    /\ current' = 0
    /\ Leave(Registered)

-----------------------------------------------------------------------------
(* emit *)

(* The walk calls the listener at position i of its array. *)
Call(e, walk, i, counts) ==
    LET l == arrays[walk.array][i]
    IN  /\ emission' = [emission EXCEPT ![e] = [walk EXCEPT !.at = l, !.next = i + 1]]
        /\ count' = [count EXCEPT ![e] = [counts EXCEPT ![l] = UpTo2(@)]]

Emit(e) ==
    /\ emission[e].phase # "running"
    /\ current # 0
    /\ Call(e, [NoWalk EXCEPT !.phase = "running", !.array = current], 1,
            [l \in Listeners |-> 0])
    /\ through' = [through EXCEPT ![e] = Registered]
    /\ disturbed' = disturbed \ {e}
    /\ UNCHANGED <<arrays, current, subscribed, offed, spent>>

(* The end of the walk: the once listeners it called are removed from the  *)
(* array the map holds now.                                                *)
Finish(e, walk) ==
    /\ emission' = [emission EXCEPT ![e] = [NoWalk EXCEPT !.phase = "ended"]]
    /\ Splice(walk.remove)
    /\ spent' = spent \cup walk.remove
    /\ UNCHANGED count

(* Mutant: the walk remembers who was registered when it began. *)
AdvanceOnCopy(e, walk) ==
    IF walk.next <= Len(subscribed)
    THEN /\ emission' = [emission EXCEPT ![e] =
                           [walk EXCEPT !.at = subscribed[walk.next], !.next = @ + 1]]
         /\ UNCHANGED <<arrays, current, spent, disturbed, through, count>>
    ELSE Finish(e, walk)

Advance(e, walk) ==
    IF walk.next <= Len(arrays[walk.array])
    THEN /\ Call(e, walk, walk.next, count[e])
         /\ UNCHANGED <<arrays, current, spent, disturbed, through>>
    ELSE Finish(e, walk)

(* The listener returns, or its promise is fulfilled. *)
Return(e) ==
    /\ emission[e].phase = "running"
    /\ Advance(e, [emission[e] EXCEPT !.remove = @ \cup ({emission[e].at} \cap Once)])
    /\ UNCHANGED <<subscribed, offed>>

(* Mutant: an error ends the walk. *)
ThrowEndsWalk(e) ==
    /\ emission[e].phase = "running" /\ emission[e].at \in Throwers
    /\ Finish(e, emission[e])
    /\ UNCHANGED <<subscribed, offed>>

(* It throws: logged, reported as another event; a once listener stays. *)
Throw(e) ==
    /\ emission[e].phase = "running" /\ emission[e].at \in Throwers
    /\ Advance(e, emission[e])
    /\ UNCHANGED <<subscribed, offed>>

Next ==
    \/ \E l \in Listeners : On(l) \/ Off(l)
    \/ RemoveAllListeners
    \/ \E e \in Emissions : Emit(e) \/ Return(e) \/ Throw(e)

Spec == Init /\ [][Next]_vars

-----------------------------------------------------------------------------
(* Every array keeps the listeners by descending priority and, among       *)
(* equals, in the order of their subscriptions, however subscriptions and  *)
(* removals are mixed.                                                     *)
Before(l, m) ==
    \/ Priority[l] > Priority[m]
    \/ /\ Priority[l] = Priority[m]
       /\ \E i, j \in DOMAIN subscribed : i < j /\ subscribed[i] = l /\ subscribed[j] = m

ArraysSorted ==
    \A n \in DOMAIN arrays : \A i, j \in DOMAIN arrays[n] :
        i < j => Before(arrays[n][i], arrays[n][j])

(* Once off() has found a listener no emission calls it, not even one that *)
(* was under way.                                                          *)
OffIsFinal ==
    [][\A e \in Emissions :
         emission'[e] # emission[e] => emission'[e].at \notin offed]_vars

(* A once listener that an ended emission has called is not registered any *)
(* more, whatever happened to the array meanwhile.                         *)
SpentIsGone == spent \cap Registered = {}

(* An emission calls every listener that stays registered while it lasts,  *)
(* and calls it once, whatever throws or subscribes meanwhile, provided    *)
(* the part of the array it has walked over stays as it is.  Without the   *)
(* proviso it does not: a removal there skips a listener, and a listener   *)
(* of higher priority that is inserted there has one called twice.         *)
UndisturbedReachesAll ==
    \A e \in Emissions \ disturbed :
        /\ \A l \in Listeners : count[e][l] <= 1
        /\ emission[e].phase = "ended" => \A l \in through[e] : count[e][l] = 1

(* What every mix of subscriptions, removals and emissions keeps of the    *)
(* listeners: their order, and that a spent one has gone.                  *)
ListenersOK == ArraysSorted /\ SpentIsGone
=============================================================================
