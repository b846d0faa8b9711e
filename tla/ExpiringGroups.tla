---------------------------- MODULE ExpiringGroups ----------------------------
(***************************************************************************)
(* The store of the groups a session waits to complete                     *)
(* (expiring-groups.ts): entries in the order they were set, each with a   *)
(* deadline and a weight, and a sweeper that runs while there are any.     *)
(* Stateless: an owner keeps a store in a variable of its own.             *)
(*                                                                         *)
(* A deadline is the time an entry has left, which tick() counts down to   *)
(* the zero it expires at.  What takes entries out returns the store that  *)
(* is left and the entries taken, oldest first.                            *)
(***************************************************************************)
EXTENDS Integers, Sequences, SequencesExt

CONSTANTS
    MaxGroups,  \* options.max, which owners enforce
    Timeout     \* options.timeout, in ticks

ASSUME StoreAssumption == MaxGroups \in Nat \ {0} /\ Timeout \in Nat \ {0}

empty == [entries |-> <<>>, total |-> 0, sweeper |-> FALSE]

keysOf(es) == {es[i].key : i \in DOMAIN es}
weightOf(es) ==
    LET upTo[n \in 0 .. Len(es)] == IF n = 0 THEN 0 ELSE upTo[n - 1] + es[n].weight
    IN  upTo[Len(es)]

\* The entries of es that are in kept, in the order they have in es.
only(es, kept) ==
    LET upTo[n \in 0 .. Len(es)] ==
            IF n = 0 THEN <<>>
            ELSE IF es[n] \in kept THEN Append(upTo[n - 1], es[n]) ELSE upTo[n - 1]
    IN  upTo[Len(es)]

full(store) == Len(store.entries) >= MaxGroups
has(store, key) == key \in keysOf(store.entries)
under(store, key) == {e \in ToSet(store.entries) : e.key = key}
entry(store, key) == CHOOSE e \in ToSet(store.entries) : e.key = key
get(store, key) == entry(store, key).group

-----------------------------------------------------------------------------
\* Mutant: an entry goes and its weight stays.
removeKeepsWeight(store, gone) ==
    [store EXCEPT !.entries = only(@, ToSet(@) \ gone)]

remove(store, gone) ==
    [store EXCEPT !.entries = only(@, ToSet(@) \ gone),
                  !.total = @ - weightOf(only(store.entries, gone))]

\* Mutant: the sweeper stops whenever something was taken.
idleAlways(store) == [store EXCEPT !.sweeper = FALSE]

idle(store) == [store EXCEPT !.sweeper = @ /\ store.entries # <<>>]

take(store, gone) == [left |-> idle(remove(store, gone)), taken |-> only(store.entries, gone)]

set(store, key, group) ==
    [remove(store, under(store, key)) EXCEPT
        !.entries = Append(@, [key |-> key, left |-> Timeout, weight |-> 0, group |-> group]),
        !.sweeper = TRUE]

delete(store, key) == take(store, under(store, key)).left

\* A group is an object: what changes in it leaves its entry where it is.
amend(store, key, group) ==
    [store EXCEPT !.entries =
        [i \in DOMAIN @ |-> IF @[i].key = key THEN [@[i] EXCEPT !.group = group] ELSE @[i]]]

\* An entry whose weight is now another, and the total with it.
reweigh(store, key, weight) ==
    IF ~has(store, key) THEN store
    ELSE [store EXCEPT
            !.entries = [i \in DOMAIN @ |->
                            IF @[i].key = key THEN [@[i] EXCEPT !.weight = weight] ELSE @[i]],
            !.total = @ + weight - entry(store, key).weight]

\* The oldest entries go until the weight is back under maxWeight.
weigh(store, key, weight, maxWeight) ==
    LET weighed == reweigh(store, key, weight)
        oldest(n) == SubSeq(weighed.entries, 1, n)
        enough == {n \in 0 .. Len(weighed.entries) :
                    n = Len(weighed.entries) \/ weighed.total - weightOf(oldest(n)) <= maxWeight}
        n == CHOOSE n \in enough : \A m \in enough : n <= m
    IN  take(weighed, ToSet(oldest(n)))

takeAll(store) == [left |-> empty, taken |-> store.entries]

takeExpired(store) == take(store, {e \in ToSet(store.entries) : e.left = 0})

takeOldest(store) ==
    take(store, IF store.entries = <<>> THEN {} ELSE {Head(store.entries)})

-----------------------------------------------------------------------------
later(e) == [e EXCEPT !.left = IF e.left = 0 THEN 0 ELSE e.left - 1]

\* The clock moves on by one.
tick(store) == [store EXCEPT !.entries = [i \in DOMAIN @ |-> later(@[i])]]

=============================================================================
