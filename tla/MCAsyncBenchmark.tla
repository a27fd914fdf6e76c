-------------------------- MODULE MCAsyncBenchmark --------------------------
(* The benchmark with three keys and as many GETs as queues of two items   *)
(* allow.                                                                  *)
EXTENDS AsyncBenchmark

MCHash == [k \in Keys |-> 0]
MCValues == 0 .. MaxRequests
=============================================================================
