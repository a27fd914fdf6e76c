---------------------------- MODULE MCAsyncCache ----------------------------
(* An async_cache of one entry for TLC: every request can evict.  A PUT    *)
(* stores the number of the request, so that all values differ.            *)
EXTENDS AsyncCache

MCTableSize == 2 * Capacity
MCHash == [k \in Keys |-> k % TableSize]
MCValues == 0 .. MaxRequests
=============================================================================
