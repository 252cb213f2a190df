------------------------------- MODULE LruMap -------------------------------
(***************************************************************************)
(* What storage/lru_cache.h promises: a map that holds at most Capacity    *)
(* keys, in the order of their last insertion or look-up, and that makes   *)
(* room by dropping the key at the tail of that order.                     *)
(***************************************************************************)
EXTENDS Naturals, FiniteSets, LruOrder

CONSTANTS Key, Value, Capacity

VARIABLES
    value,  \* key -> value, for the keys in the map
    newer   \* their order, most recent first

keys == DOMAIN value

Init == value = [ k \in {} |-> k ] /\ newer = {}

\* The keys that make room for k: the tail if the other keys fill the map.
Evicted(k) ==
    IF Cardinality(keys \ {k}) < Capacity THEN {}
    ELSE { t \in keys : IsLRUTail(newer, keys, t) }

Insert(k, v) ==
    LET kept == keys \ Evicted(k)
    IN  /\ value' = [ i \in kept \cup {k} |-> IF i = k THEN v ELSE value[i] ]
        /\ newer' = PushLRUHead(RemoveFromLRU(newer, Evicted(k)), kept \cup {k}, k)

Lookup(k) ==
    /\ k \in keys
    /\ newer' = PushLRUHead(newer, keys, k)
    /\ UNCHANGED value

Erase(k) ==
    /\ value' = [ i \in keys \ {k} |-> value[i] ]
    /\ newer' = RemoveFromLRU(newer, {k})

Clear ==
    /\ value' = [ k \in {} |-> k ]
    /\ newer' = {}

Next ==
    \/ \E k \in Key : (\E v \in Value : Insert(k, v)) \/ Lookup(k) \/ Erase(k)
    \/ Clear

Spec == Init /\ [][Next]_<<value, newer>>
=============================================================================
