---------------------------- MODULE AbstractLru -----------------------------
(***************************************************************************)
(* An LRU cache that promises no more than module LruEntries says, with    *)
(* one step for every call.                                                *)
(***************************************************************************)
EXTENDS LruEntries

CONSTANTS Capacity, Keys, Values

VARIABLES lru, ret

vars == <<lru, ret>>

Void == [found |-> FALSE, value |-> 0]

Init == lru = NewLru(Capacity) /\ ret = Void

Put(k, v) == lru' = put(lru, k, v) /\ ret' = Void
Get(k)    == lru' = get(lru, k) /\ ret' = get_result(lru, k)
Remove(k) == lru' = remove(lru, k) /\ ret' = [found |-> Has(lru, k), value |-> 0]
Clear     == lru' = clear(lru) /\ ret' = Void

Next ==
  \/ \E k \in Keys, v \in Values : Put(k, v)
  \/ \E k \in Keys : Get(k) \/ Remove(k)
  \/ Clear

Spec == Init /\ [][Next]_vars
=============================================================================
