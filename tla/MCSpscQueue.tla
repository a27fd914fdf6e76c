---------------------------- MODULE MCSpscQueue -----------------------------
(* Small queues for TLC: the items are three numbers, zero among them.     *)
EXTENDS SpscRefinement

MCItems == 0 .. 2
=============================================================================
