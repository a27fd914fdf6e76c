------------------------------ MODULE LruCache ------------------------------
(***************************************************************************)
(* The class lru_cache of include/lru_cache.h and src/lru_cache.cpp.       *)
(*                                                                         *)
(* An object is one record: the node pool nodes, the doubly linked LRU     *)
(* list (head is the most, tail the least recently used node), the free    *)
(* list threaded through the next fields of the unused nodes (free_head),  *)
(* the open-addressing table from slots to node indices (hash_table), and  *)
(* the counters.  Every member function is an operator from objects to     *)
(* objects, so that a member function that calls others is written as the  *)
(* composition it is in the code; each public call is one action.          *)
(***************************************************************************)
EXTENDS Integers

CONSTANTS
  Capacity,    (* capacity_: the number of nodes in the pool.              *)
  TableSize,   (* hash_mask_ + 1: the number of slots.                     *)
  Keys,        (* The uint64_t keys that callers use.                      *)
  Values,      (* The uint64_t values that callers store.                  *)
  Hash,        (* Hash[k] is hash(k): any function into the slots.         *)
  SizeMod      (* size_t counts modulo SizeMod (2^64 in the program).      *)

Node == 0 .. Capacity - 1
Slot == 0 .. TableSize - 1
NIL  == -1     (* The int32_t index that stands for "no node".             *)

(***************************************************************************)
(* The smallest power of two that is at least n: count is doubled while it *)
(* is below n.                                                             *)
(***************************************************************************)
next_power_of_two(n) ==
  LET count[i \in Nat] == IF i = 0 THEN 1 ELSE 2 * count[i - 1]
  IN  count[CHOOSE i \in 0 .. n : /\ count[i] >= n
                                  /\ \A j \in 0 .. i - 1 : count[j] < n]

(* The constructor throws on capacity 0.                                   *)
ASSUME CapacityAssumption == Capacity \in Nat \ {0}

(* The constructor's table.                                                *)
ASSUME TableSizeAssumption == TableSize = next_power_of_two(2 * Capacity)

(* Zero is a key and a value: the pool's nodes are zero-initialised.       *)
ASSUME DataAssumption ==
  /\ Keys \subseteq Nat /\ 0 \in Keys
  /\ Values \subseteq Nat /\ 0 \in Values
  /\ Hash \in [Keys -> Slot]
  /\ SizeMod \in Nat \ {0}

NodeType == [key : Keys, value : Values, prev : Node \cup {NIL}, next : Node \cup {NIL}]
Counter  == 0 .. SizeMod - 1

CacheType ==
  [nodes : [Node -> NodeType],
   head : Node \cup {NIL}, tail : Node \cup {NIL}, free_head : Node \cup {NIL},
   hash_table : [Slot -> Node \cup {NIL}],
   size : 0 .. Capacity,
   hits : Counter, misses : Counter, evictions : Counter]

Increment(n) == (n + 1) % SizeMod

-----------------------------------------------------------------------------
(* The constructor.                                                        *)

FreeLink(i) == IF i + 1 < Capacity THEN i + 1 ELSE NIL

NewCache ==
  [nodes      |-> [i \in Node |-> [key |-> 0, value |-> 0, prev |-> 0, next |-> FreeLink(i)]],
   head       |-> NIL, tail |-> NIL, free_head |-> 0,
   hash_table |-> [s \in Slot |-> NIL],
   size       |-> 0,
   hits       |-> 0, misses |-> 0, evictions |-> 0]

-----------------------------------------------------------------------------
(* The LRU list and the free list.                                         *)

NextSlot(s) == (s + 1) % TableSize

link_node(c, n) ==
  LET front == [c EXCEPT !.nodes[n].next = c.head, !.nodes[n].prev = NIL]
      back  == IF c.head # NIL THEN [front EXCEPT !.nodes[c.head].prev = n] ELSE front
  IN  [back EXCEPT !.head = n, !.tail = IF @ = NIL THEN n ELSE @]

unlink_node(c, n) ==
  LET p == c.nodes[n].prev
      x == c.nodes[n].next
      d == IF p # NIL THEN [c EXCEPT !.nodes[p].next = x] ELSE [c EXCEPT !.head = x]
  IN  IF x # NIL THEN [d EXCEPT !.nodes[x].prev = p] ELSE [d EXCEPT !.tail = p]

promote(c, n) == IF n = c.head THEN c ELSE link_node(unlink_node(c, n), n)

(* The node that allocate_node returns is the free_head of c.              *)
allocate_node(c) ==
  [c EXCEPT !.free_head = c.nodes[c.free_head].next, !.size = @ + 1]

free_node_KeepSize(c, n) ==
  [c EXCEPT !.nodes[n].next = c.free_head, !.free_head = n]

free_node(c, n) ==
  [c EXCEPT !.nodes[n].next = c.free_head, !.free_head = n, !.size = @ - 1]

-----------------------------------------------------------------------------
(* The hash table.  A probing loop visits the slots from Hash[key] on and  *)
(* stops at the first one that satisfies its exit test.                    *)

Probe(key, d) == (Hash[key] + d) % TableSize

FirstSlot(key, Stops(_)) ==
  Probe(key, CHOOSE d \in Slot : /\ Stops(Probe(key, d))
                                 /\ \A e \in 0 .. d - 1 : ~ Stops(Probe(key, e)))

(* The loop of find_node, put and remove: an empty slot or the key's node. *)
KeySlot(c, key) ==
  FirstSlot(key, LAMBDA s : \/ c.hash_table[s] = NIL
                            \/ c.nodes[c.hash_table[s]].key = key)

find_node(c, key) == c.hash_table[KeySlot(c, key)]

(* The re-probe of put after an eviction: an empty slot.                   *)
EmptySlot(c, key) == FirstSlot(key, LAMBDA s : c.hash_table[s] = NIL)

(* The loop of evict_lru: the slot of one given node.                      *)
NodeSlot(c, n) == FirstSlot(c.nodes[n].key, LAMBDA s : c.hash_table[s] = n)

(***************************************************************************)
(* Removal with backward shifting.  The state of the loop is the table,    *)
(* the hole (idx in the code) and the slot under inspection (next_idx).    *)
(***************************************************************************)
ShiftState == [table : [Slot -> Node \cup {NIL}], hole : Slot, next : Slot]

can_move_NoWrap(ideal, hole, next) == hole >= ideal /\ hole < next

can_move(ideal, hole, next) ==
  IF ideal <= next THEN hole >= ideal /\ hole < next
                   ELSE hole >= ideal \/ hole < next

ShiftStep_KeepSource(nodes) ==
  [s \in ShiftState |->
     LET moved == s.table[s.next]
     IN  IF moved = NIL THEN s
         ELSE IF can_move(Hash[nodes[moved].key], s.hole, s.next)
         THEN [table |-> [s.table EXCEPT ![s.hole] = moved], hole |-> s.next, next |-> NextSlot(s.next)]
         ELSE [s EXCEPT !.next = NextSlot(s.next)]]

(* One iteration of the loop; the state is final when table[next] is free. *)
ShiftStep(nodes) ==
  [s \in ShiftState |->
     LET moved == s.table[s.next]
     IN  IF moved = NIL THEN s
         ELSE IF can_move(Hash[nodes[moved].key], s.hole, s.next)
         THEN [table |-> [s.table EXCEPT ![s.hole] = moved, ![s.next] = NIL],
               hole  |-> s.next,
               next  |-> NextSlot(s.next)]
         ELSE [s EXCEPT !.next = NextSlot(s.next)]]

(* The loop runs at most once for every slot.                              *)
EraseSlot(c, slot) ==
  LET step   == ShiftStep(c.nodes)
      run[i \in Nat] ==
        IF i = 0
        THEN [table |-> [c.hash_table EXCEPT ![slot] = NIL],
              hole  |-> slot,
              next  |-> NextSlot(slot)]
        ELSE step[run[i - 1]]
  IN  [c EXCEPT !.hash_table = run[TableSize].table]

-----------------------------------------------------------------------------
(* The public member functions.                                            *)

evict_lru_Head(c) ==
  LET n == c.head
      e == EraseSlot(c, NodeSlot(c, n))
  IN  [free_node(unlink_node(e, n), n) EXCEPT !.evictions = Increment(@)]

evict_lru(c) ==
  LET n == c.tail
      e == EraseSlot(c, NodeSlot(c, n))
  IN  [free_node(unlink_node(e, n), n) EXCEPT !.evictions = Increment(@)]

(* Insertion of an absent key at a free slot of the table.                 *)
InsertAt(c, slot, key, value) ==
  LET n == c.free_head
      a == allocate_node(c)
  IN  link_node([a EXCEPT !.nodes[n].key = key, !.nodes[n].value = value,
                          !.hash_table[slot] = n], n)

put_NoReprobe(c, key, value) ==
  LET slot == KeySlot(c, key)
      n    == c.hash_table[slot]
  IN  IF n # NIL THEN promote([c EXCEPT !.nodes[n].value = value], n)
      ELSE IF c.size = Capacity THEN InsertAt(evict_lru(c), slot, key, value)
      ELSE InsertAt(c, slot, key, value)

put(c, key, value) ==
  LET slot == KeySlot(c, key)
      n    == c.hash_table[slot]
  IN  IF n # NIL THEN promote([c EXCEPT !.nodes[n].value = value], n)
      ELSE IF c.size = Capacity
      THEN LET e == evict_lru(c) IN InsertAt(e, EmptySlot(e, key), key, value)
      ELSE InsertAt(c, slot, key, value)

get_NoPromote(c, key) ==
  LET n == find_node(c, key)
  IN  IF n = NIL THEN [c EXCEPT !.misses = Increment(@)] ELSE [c EXCEPT !.hits = Increment(@)]

get(c, key) ==
  LET n == find_node(c, key)
  IN  IF n = NIL THEN [c EXCEPT !.misses = Increment(@)]
      ELSE promote([c EXCEPT !.hits = Increment(@)], n)

(* The value is read from the node after the promotion.                    *)
get_result(c, key) ==
  LET n == find_node(c, key)
  IN  IF n = NIL THEN [found |-> FALSE, value |-> 0]
      ELSE [found |-> TRUE, value |-> get(c, key).nodes[n].value]

remove_FreeFirst(c, key) ==
  LET slot == KeySlot(c, key)
      n    == c.hash_table[slot]
  IN  IF n = NIL THEN c ELSE EraseSlot(unlink_node(free_node(c, n), n), slot)

remove(c, key) ==
  LET slot == KeySlot(c, key)
      n    == c.hash_table[slot]
  IN  IF n = NIL THEN c ELSE EraseSlot(free_node(unlink_node(c, n), n), slot)

remove_result(c, key) == find_node(c, key) # NIL

clear(c) ==
  [c EXCEPT !.size = 0, !.head = NIL, !.tail = NIL, !.free_head = 0,
            !.nodes = [i \in Node |-> [@[i] EXCEPT !.next = FreeLink(i)]],
            !.hash_table = [s \in Slot |-> NIL],
            !.hits = 0, !.misses = 0, !.evictions = 0]

(***************************************************************************)
(* What display shows: the entries along the next fields from head, most   *)
(* recently used first, until the walk reaches NIL.                        *)
(***************************************************************************)
display(c) ==
  LET curr[i \in Nat] ==
        IF i = 0 THEN c.head
        ELSE IF curr[i - 1] = NIL THEN NIL ELSE c.nodes[curr[i - 1]].next
      length == CHOOSE i \in 0 .. Capacity : curr[i] = NIL /\ \A j \in 0 .. i - 1 : curr[j] # NIL
  IN  [i \in 1 .. length |-> [key   |-> c.nodes[curr[i - 1]].key,
                              value |-> c.nodes[curr[i - 1]].value]]

-----------------------------------------------------------------------------
VARIABLES
  cache,   (* The object.                                                  *)
  ret      (* The result of the last call (no value for a void function).  *)

vars == <<cache, ret>>

Void == [found |-> FALSE, value |-> 0]

Init == cache = NewCache /\ ret = Void

Put(k, v) == cache' = put(cache, k, v) /\ ret' = Void
Get(k)    == cache' = get(cache, k) /\ ret' = get_result(cache, k)
Remove(k) == /\ cache' = remove(cache, k)
             /\ ret' = [found |-> remove_result(cache, k), value |-> 0]
Clear     == cache' = clear(cache) /\ ret' = Void

Next ==
  \/ \E k \in Keys, v \in Values : Put(k, v)
  \/ \E k \in Keys : Get(k)
  \/ \E k \in Keys : Remove(k)
  \/ Clear

Spec == Init /\ [][Next]_vars

-----------------------------------------------------------------------------
(* Properties.                                                             *)

Image(f) == {f[i] : i \in DOMAIN f}
Distinct(f) == \A i, j \in DOMAIN f : f[i] = f[j] => i = j

(* lru is the LRU list, read from the most recently used node on: its next *)
(* fields, its prev fields, head and tail all tell the same list.          *)
IsLruList(c, lru, len) ==
  /\ c.head = IF len = 0 THEN NIL ELSE lru[1]
  /\ c.tail = IF len = 0 THEN NIL ELSE lru[len]
  /\ \A i \in 1 .. len :
       /\ c.nodes[lru[i]].next = IF i = len THEN NIL ELSE lru[i + 1]
       /\ c.nodes[lru[i]].prev = IF i = 1 THEN NIL ELSE lru[i - 1]

(* free is the free list, the next node to be allocated first.             *)
IsFreeList(c, free, len) ==
  /\ c.free_head = IF len = 0 THEN NIL ELSE free[1]
  /\ \A i \in 1 .. len : c.nodes[free[i]].next = IF i = len THEN NIL ELSE free[i + 1]

(* The nodes that the table points to.                                     *)
Live(c) == {c.hash_table[s] : s \in Slot} \ {NIL}

(* Every variable has its type: the int32_t links are node indices or NIL, *)
(* and no more nodes than capacity_ are in use.                            *)
TypeOK == cache \in CacheType /\ ret \in [found : BOOLEAN, value : Values]

(* The pool is never leaked, shared or lost (lru_cache.cpp:197-236): size_ *)
(* nodes form the LRU list, in the same order forwards and backwards, the  *)
(* others form the free list, no node is in both, and the nodes that the   *)
(* table points to are exactly those of the LRU list.                      *)
PartitionOf(c) ==
  \E lru \in [1 .. c.size -> Node], free \in [1 .. Capacity - c.size -> Node] :
    /\ Distinct(lru) /\ IsLruList(c, lru, c.size)
    /\ Distinct(free) /\ IsFreeList(c, free, Capacity - c.size)
    /\ Image(lru) \cap Image(free) = {}
    /\ Image(lru) \cup Image(free) = Node
    /\ Live(c) = Image(lru)
PoolPartition == PartitionOf(cache)

(* No node is in the table twice (put, remove and evict_lru each change    *)
(* the table in several steps, lru_cache.cpp:57-188).                      *)
OneSlotEach(c) ==
  \A s, t \in Slot : c.hash_table[s] = c.hash_table[t] /\ c.hash_table[s] # NIL => s = t
OneSlotPerNode == OneSlotEach(cache)

(* The table is dense without tombstones (README.md:106): no slot between  *)
(* the home slot of a stored key and the slot it is stored in is empty, so *)
(* that a probe for the key cannot stop early; and no key is stored twice. *)
DenseTable(c) ==
  /\ \A k \in Keys, d \in Slot :
       LET n == c.hash_table[Probe(k, d)]
       IN  n # NIL /\ c.nodes[n].key = k => \A e \in 0 .. d : c.hash_table[Probe(k, e)] # NIL
  /\ \A n, m \in Live(c) : c.nodes[n].key = c.nodes[m].key => n = m
Dense == DenseTable(cache)

(* A put of a new key into a full cache takes over the node of the least   *)
(* recently used entry (README.md:172), and whatever is done, a node that  *)
(* stays in the table keeps its key otherwise.                             *)
NodeReuse ==
  [][ \A n \in Live(cache) \cap Live(cache') :
        \/ cache'.nodes[n].key = cache.nodes[n].key
        \/ cache.size = Capacity /\ n = cache.tail /\ n = cache'.head ]_vars
=============================================================================
