----------------------------- MODULE MCLruCache -----------------------------
(* The lru_cache of three nodes (eight slots) for TLC.                     *)
EXTENDS LruRefinement

MCTableSize == next_power_of_two(2 * Capacity)

(* Home slots that collide and whose probe sequences wrap around the end   *)
(* of the table.                                                           *)
MCHash == [k \in Keys |-> (CASE k = 0 -> -1 [] k = 1 -> -1 [] k = 2 -> 0 [] OTHER -> -2) % TableSize]

(* The table that the constructor chooses, for capacities up to 40, is a   *)
(* power of two with a load factor above a quarter and at most a half.     *)
ASSUME \A n \in 1 .. 40 :
  /\ next_power_of_two(2 * n) \in 2 * n .. 4 * n - 1
  /\ next_power_of_two(2 * n) \in {2, 4, 8, 16, 32, 64, 128}
=============================================================================
