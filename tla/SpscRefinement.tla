--------------------------- MODULE SpscRefinement ---------------------------
(***************************************************************************)
(* The spsc_queue object implements a channel: the items between two       *)
(* stores are the slots of buffer_ from one index to the other.            *)
(***************************************************************************)
EXTENDS SpscQueue

ItemsBetween(first, last) == [i \in 1 .. last - first |-> buffer_[Index(first + i - 1)]]

channel == [sent  |-> ItemsBetween(tail_.visible, tail_.stores),
            ready |-> ItemsBetween(head_.stores, tail_.visible),
            freed |-> head_.stores - head_.visible]

Abstract == INSTANCE AbstractQueue

(* Items come out once, unchanged and in the order in which they went in;  *)
(* push fails only while QueueCapacity items are in the queue or on their  *)
(* way out, and pop only while no pushed item has arrived                  *)
(* (spsc_queue.h:29-57).                                                   *)
ImplementsChannel == Abstract!Spec
=============================================================================
