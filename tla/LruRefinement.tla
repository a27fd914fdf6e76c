--------------------------- MODULE LruRefinement ----------------------------
(***************************************************************************)
(* The lru_cache object implements the abstract LRU cache: its entries are *)
(* the ones that display shows, in that order.                             *)
(***************************************************************************)
EXTENDS LruCache

AsLru(c) ==
  [capacity |-> Capacity, entries |-> display(c),
   hits |-> c.hits, misses |-> c.misses, evictions |-> c.evictions]

Abstract == INSTANCE AbstractLru WITH lru <- AsLru(cache)

(* Every call returns what the abstract LRU cache returns, evicts the      *)
(* entry it evicts, and leaves the entries in the order it leaves them in  *)
(* (lru_cache.cpp:57-255, and what tests/test_lru_cache.cpp samples).      *)
ImplementsLru == Abstract!Spec
=============================================================================
