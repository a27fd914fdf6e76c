--------------------------- MODULE AsyncBenchmark ---------------------------
(***************************************************************************)
(* The client of benchmarks/benchmark_async_cache.cpp: one thread that     *)
(* sends cache_capacity PUTs to warm the cache up, then num_ops GETs, and  *)
(* polls only when all of them are sent.  When every response has come it  *)
(* destroys the cache.                                                     *)
(***************************************************************************)
EXTENDS AsyncCache

CONSTANTS cache_capacity, num_ops

(* The queues are large enough to prevent deadlock: one of them takes the  *)
(* requests that wait, one the responses, and the worker holds one more.   *)
ASSUME QueueIsLargeEnough == num_ops <= 2 * QueueCapacity + 1

ASSUME RequestsAssumption == MaxRequests = cache_capacity + num_ops

WarmUp == Len(log) < cache_capacity /\ async_put(Len(log), Number)

Blast ==
  LET i == Len(log) - cache_capacity
  IN  i >= 0 /\ async_get(Number, i % cache_capacity)

AllSent == client.pc = "idle" /\ Len(log) = MaxRequests

Receive == AllSent /\ Len(received) < num_ops /\ poll_response

Finish == AllSent /\ Len(received) = num_ops /\ Destroy

Main == WarmUp \/ Blast \/ Send \/ Receive \/ Finish \/ Join \/ Gone

BenchmarkNext == Main \/ Worker \/ Visibility

(* The benchmark's thread runs all the time, too.                          *)
BenchmarkSpec == Init /\ [][BenchmarkNext]_vars /\ Progress /\ WF_vars(Main)

(* The benchmark ends: neither thread waits for ever for the other to make *)
(* room (async_cache.h:93, 157; benchmark_async_cache.cpp:8, 28-39), and   *)
(* every GET finds the key that the warm-up stored.                        *)
BenchmarkEnds ==
  <>(/\ client.pc = "joined"
     /\ \A i \in 1 .. num_ops : received[i].found /\ received[i].req_id = cache_capacity + i)
=============================================================================
