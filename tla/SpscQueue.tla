----------------------------- MODULE SpscQueue ------------------------------
(***************************************************************************)
(* The class spsc_queue of include/spsc_queue.h under the C++ memory       *)
(* model.                                                                  *)
(*                                                                         *)
(* Only the producer stores to tail_ and only the consumer to head_, so    *)
(* that the n-th store to either one stores n % capacity_.  The model      *)
(* keeps n: stores counts the stores to an index, and visible is the last  *)
(* of them that has reached the other thread, which is the one that a load *)
(* there returns.  synced is the last store a thread has acquired: the     *)
(* accesses to buffer_ that precede this store happen before whatever the  *)
(* thread does next.  An access not ordered like that is a data race.      *)
(***************************************************************************)
EXTENDS Integers

CONSTANTS
  QueueCapacity,   (* The constructor's argument.                          *)
  Items,           (* The values of type T.                                *)
  Zero,            (* T{}, with which buffer_ is filled.                   *)
  MaxPushes        (* Bound: the number of items the producer pushes.      *)

(* The constructor throws on capacity 0.                                   *)
ASSUME QueueCapacityAssumption == QueueCapacity \in Nat \ {0}
ASSUME ItemsAssumption == Zero \in Items
ASSUME MaxPushesAssumption == MaxPushes \in Nat

VARIABLES
  buffer_, head_, tail_,
  producer, consumer,   (* The two threads: pc, item in hand and synced.   *)
  pushed, popped        (* The results of the last push and the last pop.  *)

vars == <<buffer_, head_, tail_, producer, consumer, pushed, popped>>

capacity__NoSpare == QueueCapacity
capacity_ == QueueCapacity + 1

Index(n) == n % capacity_

Init ==
  /\ buffer_ = [i \in 0 .. capacity_ - 1 |-> Zero]
  /\ head_ = [stores |-> 0, visible |-> 0]
  /\ tail_ = [stores |-> 0, visible |-> 0]
  /\ producer = [pc |-> "idle", item |-> Zero, synced |-> 0]
  /\ consumer = [pc |-> "idle", item |-> Zero, synced |-> 0]
  /\ pushed = FALSE
  /\ popped = [ok |-> FALSE, item |-> Zero]

(* The n-th store was visible to a load; synced was the last acquired one. *)
acquire_Relaxed(synced, n) == synced
acquire(synced, n) == n

Store(index) == [index EXCEPT !.stores = @ + 1]

-----------------------------------------------------------------------------
(* push, in the order of its accesses to shared memory.                    *)

SeesFull == Index(Index(tail_.stores) + 1) = Index(head_.visible)

PushFails ==
  /\ producer.pc = "idle" /\ SeesFull
  /\ producer' = [producer EXCEPT !.synced = acquire(@, head_.visible)]
  /\ pushed' = FALSE
  /\ UNCHANGED <<buffer_, head_, tail_, consumer, popped>>

PushStarts(item) ==
  /\ producer.pc = "idle" /\ ~ SeesFull
  /\ tail_.stores < MaxPushes
  /\ producer' = [pc |-> "write", item |-> item, synced |-> acquire(producer.synced, head_.visible)]
  /\ UNCHANGED <<buffer_, head_, tail_, consumer, pushed, popped>>

PushWrites ==
  /\ producer.pc = "write"
  /\ buffer_' = [buffer_ EXCEPT ![Index(tail_.stores)] = producer.item]
  /\ producer' = [producer EXCEPT !.pc = "publish"]
  /\ UNCHANGED <<head_, tail_, consumer, pushed, popped>>

PushPublishes ==
  /\ producer.pc = "publish"
  /\ tail_' = Store(tail_)
  /\ producer' = [producer EXCEPT !.pc = "idle"]
  /\ pushed' = TRUE
  /\ UNCHANGED <<buffer_, head_, consumer, popped>>

-----------------------------------------------------------------------------
(* pop, in the order of its accesses to shared memory.                     *)

SeesEmpty == Index(head_.stores) = Index(tail_.visible)

PopFails ==
  /\ consumer.pc = "idle" /\ SeesEmpty
  /\ consumer' = [consumer EXCEPT !.synced = acquire(@, tail_.visible)]
  /\ popped' = [popped EXCEPT !.ok = FALSE]
  /\ UNCHANGED <<buffer_, head_, tail_, producer, pushed>>

PopStarts_Unchecked ==
  /\ consumer.pc = "idle"
  /\ consumer' = [consumer EXCEPT !.pc = "read", !.synced = acquire(@, tail_.visible)]
  /\ UNCHANGED <<buffer_, head_, tail_, producer, pushed, popped>>

PopStarts ==
  /\ consumer.pc = "idle" /\ ~ SeesEmpty
  /\ consumer' = [consumer EXCEPT !.pc = "read", !.synced = acquire(@, tail_.visible)]
  /\ UNCHANGED <<buffer_, head_, tail_, producer, pushed, popped>>

PopReads ==
  /\ consumer.pc = "read"
  /\ consumer' = [consumer EXCEPT !.pc = "release", !.item = buffer_[Index(head_.stores)]]
  /\ UNCHANGED <<buffer_, head_, tail_, producer, pushed, popped>>

PopReleases_NoStore ==
  /\ consumer.pc = "release"
  /\ consumer' = [consumer EXCEPT !.pc = "idle"]
  /\ popped' = [ok |-> TRUE, item |-> consumer.item]
  /\ UNCHANGED <<buffer_, head_, tail_, producer, pushed>>

PopReleases ==
  /\ consumer.pc = "release"
  /\ head_' = Store(head_)
  /\ consumer' = [consumer EXCEPT !.pc = "idle"]
  /\ popped' = [ok |-> TRUE, item |-> consumer.item]
  /\ UNCHANGED <<buffer_, tail_, producer, pushed>>

-----------------------------------------------------------------------------
(* Stores become visible to the other thread in their order, one or        *)
(* several at a time.                                                      *)

TailArrives ==
  /\ \E n \in tail_.visible + 1 .. tail_.stores : tail_' = [tail_ EXCEPT !.visible = n]
  /\ UNCHANGED <<buffer_, head_, producer, consumer, pushed, popped>>

HeadArrives ==
  /\ \E n \in head_.visible + 1 .. head_.stores : head_' = [head_ EXCEPT !.visible = n]
  /\ UNCHANGED <<buffer_, tail_, producer, consumer, pushed, popped>>

Producer == PushFails \/ (\E item \in Items : PushStarts(item)) \/ PushWrites \/ PushPublishes
Consumer == PopFails \/ PopStarts \/ PopReads \/ PopReleases

Next == Producer \/ Consumer \/ TailArrives \/ HeadArrives

Spec == Init /\ [][Next]_vars

(* Both threads keep running and call again after a failure, as the loops  *)
(* around push and pop in async_cache.h do, and every store becomes        *)
(* visible in finite time, as C++ asks of an implementation.               *)
Fairness ==
  /\ WF_vars(Producer) /\ WF_vars(Consumer)
  /\ WF_vars(TailArrives) /\ WF_vars(HeadArrives)

FairSpec == Spec /\ Fairness

-----------------------------------------------------------------------------
(* Properties.                                                             *)

IndexType == [stores : 0 .. MaxPushes, visible : 0 .. MaxPushes]

(* The buffer and the two calls in progress have their types, and the      *)
(* indices their ranges: the consumer never passes the producer, nor the   *)
(* producer the consumer by more than the queue's capacity, even in the    *)
(* stores that the other side has not seen yet.                            *)
TypeOK ==
  /\ buffer_ \in [0 .. capacity_ - 1 -> Items]
  /\ head_ \in IndexType /\ tail_ \in IndexType
  /\ head_.visible <= head_.stores /\ head_.stores <= tail_.visible
  /\ tail_.visible <= tail_.stores /\ tail_.stores <= head_.visible + QueueCapacity
  /\ producer \in [pc : {"idle", "write", "publish"}, item : Items, synced : 0 .. MaxPushes]
  /\ consumer \in [pc : {"idle", "read", "release"}, item : Items, synced : 0 .. MaxPushes]
  /\ pushed \in BOOLEAN /\ popped \in [ok : BOOLEAN, item : Items]

(* The two threads never race on a slot (spsc_queue.h:33-40, 48-55).  The  *)
(* producer writes item number stores where item number stores -           *)
(* capacity_ was, so the read of that one must happen before; the consumer *)
(* reads item number stores, so the write of that one must happen before.  *)
NoDataRace ==
  /\ producer.pc = "write" => tail_.stores - capacity_ < producer.synced
  /\ consumer.pc = "read"  => head_.stores < consumer.synced

(* A producer that spins on push and a consumer that spins on pop get all  *)
(* items across, however full or empty the queue looks in between          *)
(* (spsc_queue.h:29-57, one slot being kept free to tell full from empty). *)
AllDelivered == <>(head_.stores = MaxPushes)
=============================================================================
