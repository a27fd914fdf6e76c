----------------------------- MODULE LruEntries -----------------------------
(***************************************************************************)
(* What an LRU cache promises, with no pool, list or table: a value with a *)
(* capacity and at most as many entries, in order of use, the most recent  *)
(* first.  A put and a successful get bring an entry to the front; a put   *)
(* of a new key into a full cache drops the last entry, and only that one. *)
(***************************************************************************)
EXTENDS Integers, Sequences

CONSTANT SizeMod   (* As in LruCache.                                       *)

NewLru(cap) == [capacity |-> cap, entries |-> <<>>, hits |-> 0, misses |-> 0, evictions |-> 0]

Increment(n) == (n + 1) % SizeMod

Has(c, k)      == \E i \in DOMAIN c.entries : c.entries[i].key = k
Position(c, k) == CHOOSE i \in DOMAIN c.entries : c.entries[i].key = k
Value(c, k)    == c.entries[Position(c, k)].value
Before(c, k)   == SubSeq(c.entries, 1, Position(c, k) - 1)
After(c, k)    == SubSeq(c.entries, Position(c, k) + 1, Len(c.entries))
Others(c, k)   == IF Has(c, k) THEN Before(c, k) \o After(c, k) ELSE c.entries
Use(c, k, v)   == <<[key |-> k, value |-> v]>> \o Others(c, k)

put(c, k, v) ==
  IF Has(c, k) \/ Len(c.entries) < c.capacity
  THEN [c EXCEPT !.entries = Use(c, k, v)]
  ELSE [c EXCEPT !.entries = SubSeq(Use(c, k, v), 1, c.capacity), !.evictions = Increment(@)]

get(c, k) ==
  IF Has(c, k) THEN [c EXCEPT !.entries = Use(c, k, Value(c, k)), !.hits = Increment(@)]
  ELSE [c EXCEPT !.misses = Increment(@)]

get_result(c, k) ==
  IF Has(c, k) THEN [found |-> TRUE, value |-> Value(c, k)] ELSE [found |-> FALSE, value |-> 0]

remove(c, k) == [c EXCEPT !.entries = Others(c, k)]

clear(c) == NewLru(c.capacity)
=============================================================================
