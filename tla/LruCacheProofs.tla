---------------------------- MODULE LruCacheProofs --------------------------
(***************************************************************************)
(* The class lru_cache keeps its structure, for every capacity, every set  *)
(* of keys and values and every hash function: type correctness, the       *)
(* partition of the pool, the uniqueness of table entries and the density  *)
(* of the table are inductive together.                                    *)
(*                                                                         *)
(* First come lemmas about the parts of an object.  The node pool: what    *)
(* the list operations of lru_cache.cpp:190-236 do to the fields of an     *)
(* object, and so to its LRU list and its free list.  A list is a function *)
(* from positions to nodes; positions make the lemmas usable for the order *)
(* of the entries too.  The hash table: it is large enough, probing loops  *)
(* end, at the slots that they are meant to find, and removal with         *)
(* backward shifting (lru_cache.cpp:125-145, 160-178) takes exactly one    *)
(* node out of the table; that loop is reasoned about with its invariant.  *)
(*                                                                         *)
(* What a call does to the LRU list, to the table and to the nodes is then *)
(* stated call by call; from these facts and the invariant it also follows *)
(* that the object implements the abstract LRU cache.                      *)
(***************************************************************************)
EXTENDS LruRefinement, BasicLemmas

-----------------------------------------------------------------------------
(* The node pool.                                                          *)

(* NIL is no node; the pool has a node 0.                                  *)
LEMMA NILIs == NIL \notin Node /\ 0 \in Node
  BY CapacityAssumption DEF NIL, Node

(* The object c with other links: the node array N, the head h and the     *)
(* tail t.                                                                 *)
Rewire(c, N, h, t) == [c EXCEPT !.nodes = N, !.head = h, !.tail = t]

(* The node array N with one field of the node n written.                  *)
WithNext(N, n, x) == [N EXCEPT ![n].next = x]
WithPrev(N, n, p) == [N EXCEPT ![n].prev = p]

(* Writing one next field: the array keeps its type, and every other field *)
(* its value.                                                              *)
LEMMA WithNextFields ==
  ASSUME NEW N \in [Node -> NodeType], NEW n \in Node, NEW x \in Node \cup {NIL}
  PROVE  /\ WithNext(N, n, x) \in [Node -> NodeType]
         /\ \A m \in Node :
              /\ WithNext(N, n, x)[m].next = IF m = n THEN x ELSE N[m].next
              /\ WithNext(N, n, x)[m].prev = N[m].prev
              /\ WithNext(N, n, x)[m].key = N[m].key
              /\ WithNext(N, n, x)[m].value = N[m].value
  BY DEF WithNext, NodeType

(* Writing one prev field: the array keeps its type, and every other field *)
(* its value.                                                              *)
LEMMA WithPrevFields ==
  ASSUME NEW N \in [Node -> NodeType], NEW n \in Node, NEW p \in Node \cup {NIL}
  PROVE  /\ WithPrev(N, n, p) \in [Node -> NodeType]
         /\ \A m \in Node :
              /\ WithPrev(N, n, p)[m].prev = IF m = n THEN p ELSE N[m].prev
              /\ WithPrev(N, n, p)[m].next = N[m].next
              /\ WithPrev(N, n, p)[m].key = N[m].key
              /\ WithPrev(N, n, p)[m].value = N[m].value
  BY DEF WithPrev, NodeType

(* link_node (lru_cache.cpp:211-224) as writes to the node array, head and *)
(* tail.                                                                   *)
LEMMA LinkNodeIs ==
  ASSUME NEW c \in CacheType, NEW n \in Node
  PROVE  link_node(c, n) =
           LET F == WithPrev(WithNext(c.nodes, n, c.head), n, NIL)
           IN Rewire(c, IF c.head # NIL THEN WithPrev(F, c.head, n) ELSE F, n, IF c.tail = NIL THEN n ELSE c.tail)
<1>1. CASE c.head = NIL
  BY <1>1 DEF link_node, Rewire, CacheType, WithNext, WithPrev
<1>2. CASE c.head # NIL
  <2> DEFINE front == [c EXCEPT !.nodes[n].next = c.head, !.nodes[n].prev = NIL]
             F == WithPrev(WithNext(c.nodes, n, c.head), n, NIL)
  <2>1. front = [c EXCEPT !.nodes = F]
    BY DEF CacheType, WithNext, WithPrev
  <2>2. link_node(c, n) = [[front EXCEPT !.nodes[c.head].prev = n]
                             EXCEPT !.head = n, !.tail = IF @ = NIL THEN n ELSE @]
    BY <1>2 DEF link_node
  <2> HIDE DEF front, F
  <2>3. [front EXCEPT !.nodes[c.head].prev = n] = [c EXCEPT !.nodes = WithPrev(F, c.head, n)]
    BY <2>1 DEF CacheType, WithPrev
  <2>4. link_node(c, n) = Rewire(c, WithPrev(F, c.head, n), n, IF c.tail = NIL THEN n ELSE c.tail)
    BY <2>2, <2>3 DEF Rewire, CacheType
  <2> QED
    BY <1>2, <2>4 DEF F
<1> QED
  BY <1>1, <1>2

(* unlink_node (lru_cache.cpp:226-236) as writes to the node array, head   *)
(* and tail.                                                               *)
LEMMA UnlinkNodeIs ==
  ASSUME NEW c \in CacheType, NEW n \in Node
  PROVE  unlink_node(c, n) =
           LET p == c.nodes[n].prev
               x == c.nodes[n].next
               F == IF p # NIL THEN WithNext(c.nodes, p, x) ELSE c.nodes
           IN Rewire(c, IF x # NIL THEN WithPrev(F, x, p) ELSE F, IF p # NIL THEN c.head ELSE x, IF x # NIL THEN c.tail ELSE p)
<1> DEFINE p == c.nodes[n].prev
           x == c.nodes[n].next
<1>1. CASE p = NIL /\ x = NIL
  BY <1>1 DEF unlink_node, Rewire, CacheType, WithNext, WithPrev
<1>2. CASE p # NIL /\ x = NIL
  BY <1>2 DEF unlink_node, Rewire, CacheType, WithNext, WithPrev
<1>3. CASE p = NIL /\ x # NIL
  BY <1>3 DEF unlink_node, Rewire, CacheType, WithNext, WithPrev
<1>4. CASE p # NIL /\ x # NIL
  <2> DEFINE F == [c.nodes EXCEPT ![p].next = x]
             e == [c EXCEPT !.nodes[p].next = x]
  <2>1. e = [c EXCEPT !.nodes = F]
    BY DEF CacheType
  <2>2. unlink_node(c, n) = [e EXCEPT !.nodes[x].prev = p]
    BY <1>4 DEF unlink_node
  <2>3. [e EXCEPT !.nodes[x].prev = p] = [e EXCEPT !.nodes = [e.nodes EXCEPT ![x].prev = p]]
    <3> HIDE DEF F
    <3> QED
    BY <2>1 DEF CacheType
  <2>4. e.nodes = F
    BY <2>1 DEF CacheType
  <2>5. unlink_node(c, n) = [c EXCEPT !.nodes = [F EXCEPT ![x].prev = p]]
    <3> HIDE DEF F, e
    <3> QED
    BY <2>1, <2>2, <2>3, <2>4 DEF CacheType
  <2>6. [c EXCEPT !.nodes = [F EXCEPT ![x].prev = p]] = Rewire(c, [F EXCEPT ![x].prev = p], c.head, c.tail)
    <3> HIDE DEF F
    <3> QED BY DEF Rewire, CacheType
  <2> QED
    BY <2>5, <2>6, <1>4 DEF WithNext, WithPrev
<1> QED BY <1>1, <1>2, <1>3, <1>4
(* d has the table of c, and its nodes hold the same keys and values.      *)
Kept(c, d) ==
  /\ d.hash_table = c.hash_table
  /\ \A m \in Node : d.nodes[m].key = c.nodes[m].key /\ d.nodes[m].value = c.nodes[m].value

(* d has the counters of c.                                                *)
SameCounters(c, d) == d.hits = c.hits /\ d.misses = c.misses /\ d.evictions = c.evictions

(* What link_node changes: the node's own links, the back link of the old  *)
(* head, head, and tail if the list was empty.                             *)
LEMMA LinkFields ==
  ASSUME NEW c \in CacheType, NEW n \in Node
  PROVE  LET d == link_node(c, n)
         IN  /\ d \in CacheType
             /\ d.head = n
             /\ d.tail = IF c.tail = NIL THEN n ELSE c.tail
             /\ d.size = c.size /\ d.free_head = c.free_head
             /\ d.hits = c.hits /\ d.misses = c.misses /\ d.evictions = c.evictions
             /\ Kept(c, d)
             /\ \A m \in Node :
                  /\ d.nodes[m].next = IF m = n THEN c.head ELSE c.nodes[m].next
                  /\ d.nodes[m].prev = IF m = c.head THEN n ELSE IF m = n THEN NIL ELSE c.nodes[m].prev
<1> DEFINE F == WithPrev(WithNext(c.nodes, n, c.head), n, NIL)
           G == IF c.head # NIL THEN WithPrev(F, c.head, n) ELSE F
           t == IF c.tail = NIL THEN n ELSE c.tail
           d == Rewire(c, G, n, t)
<1>1. c.nodes \in [Node -> NodeType] /\ c.head \in Node \cup {NIL} /\ c.tail \in Node \cup {NIL}
  BY DEF CacheType
<1> DEFINE E == WithNext(c.nodes, n, c.head)
<1>2. /\ E \in [Node -> NodeType]
      /\ \A m \in Node :
           /\ E[m].next = IF m = n THEN c.head ELSE c.nodes[m].next
           /\ E[m].prev = c.nodes[m].prev
           /\ E[m].key = c.nodes[m].key
           /\ E[m].value = c.nodes[m].value
  BY <1>1, WithNextFields
<1>f. NIL \in Node \cup {NIL} /\ F = WithPrev(E, n, NIL)
  OBVIOUS
<1> HIDE DEF E, F
<1>g. /\ F \in [Node -> NodeType]
       /\ \A m \in Node :
           /\ F[m].prev = IF m = n THEN NIL ELSE E[m].prev
           /\ F[m].next = E[m].next
           /\ F[m].key = E[m].key
           /\ F[m].value = E[m].value
  BY <1>2, <1>f, WithPrevFields
<1>3. ASSUME c.head # NIL
      PROVE  /\ G \in [Node -> NodeType]
             /\ \A m \in Node :
                  /\ G[m].prev = IF m = c.head THEN n ELSE F[m].prev
                  /\ G[m].next = F[m].next
                  /\ G[m].key = F[m].key
                  /\ G[m].value = F[m].value
  <2>1. c.head \in Node /\ n \in Node \cup {NIL} /\ G = WithPrev(F, c.head, n)
    BY <1>1, <1>3
  <2> HIDE DEF G
  <2> QED
    BY <1>g, <2>1, WithPrevFields
<1>4. c.head = NIL => G = F
  OBVIOUS
<1> HIDE DEF F, G
<1>5. G \in [Node -> NodeType]
  BY <1>g, <1>3, <1>4
<1>6. link_node(c, n) = d
  BY LinkNodeIs DEF E, F, G
<1>7. /\ d \in CacheType
      /\ d.nodes = G /\ d.head = n /\ d.tail = t
      /\ d.free_head = c.free_head /\ d.hash_table = c.hash_table /\ d.size = c.size
      /\ d.hits = c.hits /\ d.misses = c.misses /\ d.evictions = c.evictions
  <2>1. t \in Node \cup {NIL}
    BY <1>1
  <2> HIDE DEF t
  <2> QED
    BY <1>5, <2>1 DEF Rewire, CacheType
<1>8. ASSUME NEW m \in Node
      PROVE  /\ G[m].next = IF m = n THEN c.head ELSE c.nodes[m].next
             /\ G[m].prev = IF m = c.head THEN n ELSE IF m = n THEN NIL ELSE c.nodes[m].prev
             /\ G[m].key = c.nodes[m].key /\ G[m].value = c.nodes[m].value
  BY NILIs, <1>1, <1>2, <1>g, <1>3, <1>4
<1> HIDE DEF d
<1> QED
  BY <1>6, <1>7, <1>8 DEF Kept

(* What unlink_node changes: the next field of the node before it and the  *)
(* prev field of the node after it, or head and tail at the ends.          *)
LEMMA UnlinkFields ==
  ASSUME NEW c \in CacheType, NEW n \in Node
  PROVE  LET d == unlink_node(c, n)
             p == c.nodes[n].prev
             x == c.nodes[n].next
         IN  /\ d \in CacheType
             /\ d.head = IF p = NIL THEN x ELSE c.head
             /\ d.tail = IF x = NIL THEN p ELSE c.tail
             /\ d.size = c.size /\ d.free_head = c.free_head
             /\ d.hits = c.hits /\ d.misses = c.misses /\ d.evictions = c.evictions
             /\ Kept(c, d)
             /\ \A m \in Node :
                  /\ d.nodes[m].next = IF m = p THEN x ELSE c.nodes[m].next
                  /\ d.nodes[m].prev = IF m = x THEN p ELSE c.nodes[m].prev
<1> DEFINE p == c.nodes[n].prev
           x == c.nodes[n].next
           F == IF p # NIL THEN WithNext(c.nodes, p, x) ELSE c.nodes
           G == IF x # NIL THEN WithPrev(F, x, p) ELSE F
           h == IF p # NIL THEN c.head ELSE x
           t == IF x # NIL THEN c.tail ELSE p
           d == Rewire(c, G, h, t)
<1>1. /\ c.nodes \in [Node -> NodeType] /\ c.head \in Node \cup {NIL} /\ c.tail \in Node \cup {NIL}
      /\ p \in Node \cup {NIL} /\ x \in Node \cup {NIL}
  BY DEF CacheType, NodeType
<1>2. unlink_node(c, n) = d
  BY UnlinkNodeIs
<1> HIDE DEF p, x
<1>3. p # NIL =>
        /\ F \in [Node -> NodeType]
        /\ \A m \in Node :
             /\ F[m].next = IF m = p THEN x ELSE c.nodes[m].next
             /\ F[m].prev = c.nodes[m].prev
             /\ F[m].key = c.nodes[m].key /\ F[m].value = c.nodes[m].value
  <2> DEFINE N == c.nodes
  <2>1. N \in [Node -> NodeType]
    BY <1>1
  <2>2. p # NIL => p \in Node /\ F = WithNext(N, p, x)
    BY <1>1
  <2> HIDE DEF F, N
  <2>3. p # NIL =>
          /\ WithNext(N, p, x) \in [Node -> NodeType]
          /\ \A m \in Node :
               /\ WithNext(N, p, x)[m].next = IF m = p THEN x ELSE N[m].next
               /\ WithNext(N, p, x)[m].prev = N[m].prev
               /\ WithNext(N, p, x)[m].key = N[m].key /\ WithNext(N, p, x)[m].value = N[m].value
    BY <1>1, <2>1, <2>2, WithNextFields
  <2> QED
    BY <2>2, <2>3 DEF N
<1>4. p = NIL => F = c.nodes
  OBVIOUS
<1> HIDE DEF F
<1>5. F \in [Node -> NodeType]
  BY <1>1, <1>3, <1>4
<1>6. ASSUME x # NIL
      PROVE  /\ G \in [Node -> NodeType]
             /\ \A m \in Node :
                  /\ G[m].prev = IF m = x THEN p ELSE F[m].prev
                  /\ G[m].next = F[m].next
                  /\ G[m].key = F[m].key
                  /\ G[m].value = F[m].value
  <2>1. x \in Node /\ G = WithPrev(F, x, p)
    BY <1>1, <1>6
  <2> HIDE DEF G
  <2>2. /\ WithPrev(F, x, p) \in [Node -> NodeType]
        /\ \A m \in Node :
             /\ WithPrev(F, x, p)[m].prev = IF m = x THEN p ELSE F[m].prev
             /\ WithPrev(F, x, p)[m].next = F[m].next
             /\ WithPrev(F, x, p)[m].key = F[m].key
             /\ WithPrev(F, x, p)[m].value = F[m].value
    BY <1>1, <1>5, <2>1, WithPrevFields
  <2> QED
    BY <2>1, <2>2
<1>7. x = NIL => G = F
  OBVIOUS
<1> HIDE DEF G
<1>8. G \in [Node -> NodeType]
  BY <1>1, <1>5, <1>6, <1>7
<1>9. /\ d \in CacheType
      /\ d.nodes = G /\ d.head = h /\ d.tail = t
      /\ d.free_head = c.free_head /\ d.hash_table = c.hash_table /\ d.size = c.size
      /\ d.hits = c.hits /\ d.misses = c.misses /\ d.evictions = c.evictions
  <2>1. t \in Node \cup {NIL} /\ h \in Node \cup {NIL}
    BY <1>1
  <2> HIDE DEF t, h
  <2> QED
    BY <1>8, <2>1 DEF Rewire, CacheType
<1>10. ASSUME NEW m \in Node
       PROVE  /\ G[m].next = IF m = p THEN x ELSE c.nodes[m].next
              /\ G[m].prev = IF m = x THEN p ELSE c.nodes[m].prev
              /\ G[m].key = c.nodes[m].key /\ G[m].value = c.nodes[m].value
  BY NILIs, <1>1, <1>3, <1>4, <1>6, <1>7
<1> HIDE DEF d
<1> QED
  BY <1>2, <1>9, <1>10 DEF Kept, p, x

-----------------------------------------------------------------------------
(* What they do to the lists.                                              *)

(* The list lru of length len with n put in front, and without its element *)
(* at position k.                                                          *)
Prepend(lru, len, n) == [i \in 1 .. len + 1 |-> IF i = 1 THEN n ELSE lru[i - 1]]
Without(lru, len, k) == [i \in 1 .. len - 1 |-> IF i < k THEN lru[i] ELSE lru[i + 1]]
ToFront(lru, len, k) == Prepend(Without(lru, len, k), len - 1, lru[k])

(* Moving the first element to the front changes nothing.                  *)
LEMMA FirstToFront ==
  ASSUME NEW S, NEW len \in Nat, NEW lru \in [1 .. len -> S], len # 0
  PROVE  ToFront(lru, len, 1) = lru
<1> DEFINE w == Without(lru, len, 1)
           f == [i \in 1 .. len |-> IF i = 1 THEN lru[1] ELSE w[i - 1]]
<1>1. \A i \in 1 .. len - 1 : w[i] = lru[i + 1]
  BY DEF Without
<1>2. (len - 1) + 1 = len
  OBVIOUS
<1>3. ToFront(lru, len, 1) = f
  BY <1>2 DEF ToFront, Prepend
<1> HIDE DEF w
<1>4. ASSUME NEW i \in 1 .. len
      PROVE  f[i] = lru[i]
  <2>1. CASE i = 1
    BY <2>1
  <2>2. CASE i # 1
    <3>1. i - 1 \in 1 .. len - 1 /\ (i - 1) + 1 = i
      BY <2>2
    <3> QED
      BY <1>1, <2>2, <3>1
  <2> QED
    BY <2>1, <2>2
<1> HIDE DEF f
<1>5. f = [i \in 1 .. len |-> f[i]]
  BY DEF f
<1>6. lru = [i \in 1 .. len |-> lru[i]]
  OBVIOUS
<1>7. f = lru
  BY <1>4, <1>5, <1>6
<1> QED
  BY <1>3, <1>7

(* link_node puts a node that is not in the list in front of it.           *)
LEMMA LinkList ==
  ASSUME NEW c \in CacheType, NEW n \in Node, NEW len \in Nat, NEW lru \in [1 .. len -> Node],
         Distinct(lru), IsLruList(c, lru, len), n \notin Image(lru)
  PROVE  LET after == Prepend(lru, len, n)
         IN  /\ after \in [1 .. len + 1 -> Node]
             /\ Distinct(after)
             /\ IsLruList(link_node(c, n), after, len + 1)
             /\ Image(after) = Image(lru) \cup {n}
<1> DEFINE after == Prepend(lru, len, n)
           d == link_node(c, n)
<1>1. /\ after[1] = n
      /\ \A i \in 1 .. len : after[i + 1] = lru[i] /\ i + 1 \in 1 .. len + 1 /\ i + 1 # 1
      /\ \A i \in 1 .. len + 1 : i # 1 => i - 1 \in 1 .. len /\ after[i] = lru[i - 1]
      /\ DOMAIN after = 1 .. len + 1
  BY DEF Prepend
<1>2. \A i \in 1 .. len : lru[i] \in Node /\ lru[i] # n
  BY DEF Image
<1>3. after \in [1 .. len + 1 -> Node]
  BY <1>2 DEF Prepend
<1> HIDE DEF after
<1>4. Distinct(after)
  BY <1>1, <1>2 DEF Distinct
<1>5. Image(after) = Image(lru) \cup {n}
  <2>1. DOMAIN lru = 1 .. len /\ 1 \in 1 .. len + 1
    OBVIOUS
  <2>2. Image(after) \subseteq Image(lru) \cup {n}
    BY <1>1, <2>1 DEF Image
  <2>3. Image(lru) \cup {n} \subseteq Image(after)
    BY <1>1, <2>1 DEF Image
  <2> QED
    BY <2>2, <2>3
<1>6. /\ d.head = n
      /\ d.tail = IF c.tail = NIL THEN n ELSE c.tail
      /\ \A m \in Node :
           /\ d.nodes[m].next = IF m = n THEN c.head ELSE c.nodes[m].next
           /\ d.nodes[m].prev = IF m = c.head THEN n ELSE IF m = n THEN NIL ELSE c.nodes[m].prev
  BY LinkFields
<1> HIDE DEF d
<1>7. /\ c.head = IF len = 0 THEN NIL ELSE lru[1]
      /\ c.tail = IF len = 0 THEN NIL ELSE lru[len]
      /\ \A i \in 1 .. len :
           /\ c.nodes[lru[i]].next = IF i = len THEN NIL ELSE lru[i + 1]
           /\ c.nodes[lru[i]].prev = IF i = 1 THEN NIL ELSE lru[i - 1]
  BY DEF IsLruList
<1>8. d.head = after[1] /\ d.tail = after[len + 1]
  BY <1>1, <1>2, <1>6, <1>7, NILIs
<1>9. ASSUME NEW i \in 1 .. len + 1
      PROVE  d.nodes[after[i]].next = IF i = len + 1 THEN NIL ELSE after[i + 1]
  <2>1. CASE i = 1
    BY <1>1, <1>6, <1>7, <2>1
  <2>2. CASE i # 1
    <3>1. i - 1 \in 1 .. len /\ after[i] = lru[i - 1] /\ (i - 1) + 1 = i
      BY <1>1, <2>2
    <3>2. d.nodes[after[i]].next = c.nodes[lru[i - 1]].next
      BY <1>2, <1>6, <3>1
    <3>3. i # len + 1 => after[i + 1] = lru[i] /\ i \in 1 .. len
      BY <1>1
    <3> QED
      BY <1>7, <3>1, <3>2, <3>3
  <2> QED
    BY <2>1, <2>2
<1>10. ASSUME NEW i \in 1 .. len + 1
       PROVE  d.nodes[after[i]].prev = IF i = 1 THEN NIL ELSE after[i - 1]
  <2>1. CASE i = 1
    <3>1. c.head # n
      BY <1>2, <1>7, NILIs
    <3> QED
      BY <1>1, <1>6, <3>1, <2>1
  <2>2. CASE i # 1
    <3>1. i - 1 \in 1 .. len /\ after[i] = lru[i - 1]
      BY <1>1, <2>2
    <3>2. lru[i - 1] = c.head <=> i - 1 = 1
      BY <1>7, <3>1 DEF Distinct
    <3>3. i - 1 # 1 => after[i - 1] = lru[(i - 1) - 1]
      BY <1>1, <3>1
    <3> QED
      BY <1>1, <1>2, <1>6, <1>7, <3>1, <3>2, <3>3
  <2> QED
    BY <2>1, <2>2
<1>11. IsLruList(d, after, len + 1)
  BY <1>8, <1>9, <1>10 DEF IsLruList
<1> QED
  BY <1>3, <1>4, <1>5, <1>11 DEF after, d

(* unlink_node takes the k-th node out of the list and keeps the order of  *)
(* the others.                                                             *)
LEMMA UnlinkList ==
  ASSUME NEW c \in CacheType, NEW len \in Nat, NEW lru \in [1 .. len -> Node],
         Distinct(lru), IsLruList(c, lru, len), NEW k \in 1 .. len
  PROVE  LET after == Without(lru, len, k)
         IN  /\ after \in [1 .. len - 1 -> Node]
             /\ Distinct(after)
             /\ IsLruList(unlink_node(c, lru[k]), after, len - 1)
             /\ Image(after) = Image(lru) \ {lru[k]}
<1> DEFINE after == Without(lru, len, k)
           n == lru[k]
           d == unlink_node(c, n)
           p == c.nodes[n].prev
           x == c.nodes[n].next
<1>1. /\ \A i \in 1 .. len - 1 : i < k => after[i] = lru[i] /\ i \in 1 .. len
      /\ \A i \in 1 .. len - 1 : ~ i < k => after[i] = lru[i + 1] /\ i + 1 \in 1 .. len
      /\ DOMAIN after = 1 .. len - 1 /\ DOMAIN lru = 1 .. len
  BY DEF Without
<1>2. \A i \in 1 .. len : lru[i] \in Node /\ (lru[i] = n <=> i = k)
  BY DEF Distinct
<1>3. after \in [1 .. len - 1 -> Node]
  <2>1. \A i \in 1 .. len - 1 : (IF i < k THEN lru[i] ELSE lru[i + 1]) \in Node
    BY <1>2
  <2> QED
    BY <2>1 DEF Without
<1> HIDE DEF after
<1>4. Distinct(after)
  <2> SUFFICES ASSUME NEW i \in 1 .. len - 1, NEW j \in 1 .. len - 1, after[i] = after[j]
               PROVE  i = j
    BY <1>1 DEF Distinct
  <2>1. \A a, b \in 1 .. len : lru[a] = lru[b] => a = b
    BY <1>1 DEF Distinct
  <2> QED
    BY <1>1, <2>1
<1>5. Image(after) = Image(lru) \ {n}
  <2>1. Image(after) \subseteq Image(lru) \ {n}
    <3> SUFFICES ASSUME NEW i \in 1 .. len - 1
                 PROVE  after[i] \in Image(lru) \ {n}
      BY <1>1 DEF Image
    <3> QED
      BY <1>1, <1>2 DEF Image
  <2>2. Image(lru) \ {n} \subseteq Image(after)
    <3> SUFFICES ASSUME NEW i \in 1 .. len, i # k
                 PROVE  lru[i] \in Image(after)
      BY <1>1, <1>2 DEF Image
    <3>1. CASE i < k
      <4>1. i \in 1 .. len - 1 /\ after[i] = lru[i]
        BY <1>1, <3>1
      <4> QED
        BY <1>1, <4>1 DEF Image
    <3>2. CASE i > k
      <4>1. i - 1 \in 1 .. len - 1 /\ after[i - 1] = lru[i]
        BY <1>1, <3>2
      <4> QED
        BY <1>1, <4>1 DEF Image
    <3> QED
      BY <3>1, <3>2
  <2> QED
    BY <2>1, <2>2
<1>6. /\ d.head = IF p = NIL THEN x ELSE c.head
      /\ d.tail = IF x = NIL THEN p ELSE c.tail
      /\ \A m \in Node :
           /\ d.nodes[m].next = IF m = p THEN x ELSE c.nodes[m].next
           /\ d.nodes[m].prev = IF m = x THEN p ELSE c.nodes[m].prev
  BY UnlinkFields
<1>7. /\ c.head = IF len = 0 THEN NIL ELSE lru[1]
      /\ c.tail = IF len = 0 THEN NIL ELSE lru[len]
      /\ \A i \in 1 .. len :
           /\ c.nodes[lru[i]].next = IF i = len THEN NIL ELSE lru[i + 1]
           /\ c.nodes[lru[i]].prev = IF i = 1 THEN NIL ELSE lru[i - 1]
  BY DEF IsLruList
<1>8. x = (IF k = len THEN NIL ELSE lru[k + 1]) /\ p = IF k = 1 THEN NIL ELSE lru[k - 1]
  BY <1>7
<1>9. /\ \A i \in 1 .. len : lru[i] # NIL
      /\ \A i, j \in 1 .. len : lru[i] = lru[j] => i = j
  BY <1>1, <1>2, NILIs DEF Distinct
<1> HIDE DEF d, p, x, n
<1>10. /\ d.head = IF len - 1 = 0 THEN NIL ELSE after[1]
       /\ d.tail = IF len - 1 = 0 THEN NIL ELSE after[len - 1]
  <2>1. CASE k = 1
    BY <1>1, <1>6, <1>7, <1>8, <1>9, <2>1
  <2>2. CASE k # 1
    BY <1>1, <1>6, <1>7, <1>8, <1>9, <2>2
  <2> QED
    BY <2>1, <2>2
<1>11. ASSUME NEW i \in 1 .. len, i # k
       PROVE  /\ d.nodes[lru[i]].next = IF i = k - 1 THEN x ELSE IF i = len THEN NIL ELSE lru[i + 1]
              /\ d.nodes[lru[i]].prev = IF i = k + 1 THEN p ELSE IF i = 1 THEN NIL ELSE lru[i - 1]
  <2>1. lru[i] = p <=> i = k - 1
    BY <1>8, <1>9
  <2>2. lru[i] = x <=> i = k + 1
    BY <1>8, <1>9
  <2>3. lru[i] \in Node
    BY <1>2
  <2>4. /\ d.nodes[lru[i]].next = IF lru[i] = p THEN x ELSE c.nodes[lru[i]].next
        /\ d.nodes[lru[i]].prev = IF lru[i] = x THEN p ELSE c.nodes[lru[i]].prev
    BY <1>6, <2>3
  <2> QED
    BY <1>7, <2>1, <2>2, <2>4
<1>12. ASSUME NEW i \in 1 .. len - 1
       PROVE  /\ d.nodes[after[i]].next = IF i = len - 1 THEN NIL ELSE after[i + 1]
              /\ d.nodes[after[i]].prev = IF i = 1 THEN NIL ELSE after[i - 1]
  <2>1. CASE i < k
    BY <1>1, <1>8, <1>11, <2>1
  <2>2. CASE ~ i < k
    BY <1>1, <1>8, <1>11, <2>2
  <2> QED
    BY <2>1, <2>2
<1>13. IsLruList(d, after, len - 1)
  BY <1>10, <1>12 DEF IsLruList
<1> QED
  BY <1>3, <1>4, <1>5, <1>13 DEF after, d, n

-----------------------------------------------------------------------------
(* The pool: the LRU list and the free list share out the nodes.           *)

PoolOf(c, lru, free, len) ==
  /\ len \in 0 .. Capacity
  /\ lru \in [1 .. len -> Node] /\ Distinct(lru) /\ IsLruList(c, lru, len)
  /\ free \in [1 .. Capacity - len -> Node] /\ Distinct(free) /\ IsFreeList(c, free, Capacity - len)
  /\ Image(lru) \cap Image(free) = {}
  /\ Image(lru) \cup Image(free) = Node

(* A free list depends on free_head and on the next fields of its nodes.   *)
LEMMA FreeListKept ==
  ASSUME NEW c, NEW d, NEW len \in Nat, NEW free \in [1 .. len -> Node], IsFreeList(c, free, len),
         d.free_head = c.free_head,
         \A m \in Image(free) : d.nodes[m].next = c.nodes[m].next
  PROVE  IsFreeList(d, free, len)
<1>1. \A i \in 1 .. len : free[i] \in Image(free)
  BY DEF Image
<1> QED
  BY <1>1 DEF IsFreeList

(* The neighbours of a node of the LRU list are in the list.               *)
LEMMA Neighbours ==
  ASSUME NEW c, NEW len \in Nat, NEW lru \in [1 .. len -> Node], IsLruList(c, lru, len),
         NEW n \in Image(lru)
  PROVE  /\ c.nodes[n].prev \in Image(lru) \cup {NIL}
         /\ c.nodes[n].next \in Image(lru) \cup {NIL}
         /\ c.head \in Image(lru) /\ c.tail \in Image(lru)
<1>1. PICK k \in 1 .. len : n = lru[k]
  BY DEF Image
<1>2. /\ c.nodes[n].next = IF k = len THEN NIL ELSE lru[k + 1]
      /\ c.nodes[n].prev = IF k = 1 THEN NIL ELSE lru[k - 1]
      /\ c.head = lru[1] /\ c.tail = lru[len]
  BY <1>1 DEF IsLruList
<1>3. \A i \in 1 .. len : lru[i] \in Image(lru)
  BY DEF Image
<1> QED
  BY <1>2, <1>3

(* promote (lru_cache.cpp:190-194) moves one node of the LRU list to the   *)
(* front and leaves everything else as it is.                              *)
LEMMA PromotePool ==
  ASSUME NEW c \in CacheType, NEW lru, NEW free, NEW len, PoolOf(c, lru, free, len),
         NEW k \in 1 .. len
  PROVE  LET d == promote(c, lru[k])
         IN  /\ d \in CacheType /\ d.size = c.size /\ Kept(c, d) /\ SameCounters(c, d)
             /\ PoolOf(d, ToFront(lru, len, k), free, len)
             /\ Image(ToFront(lru, len, k)) = Image(lru)
<1>0. PICK n : n = lru[k]
  OBVIOUS
<1>1. CASE n = c.head
  <2>1. /\ len \in Nat /\ len # 0 /\ lru \in [1 .. len -> Node] /\ Distinct(lru)
        /\ c.head = lru[1] /\ DOMAIN lru = 1 .. len
    <3>1. /\ len \in 0 .. Capacity /\ lru \in [1 .. len -> Node] /\ Distinct(lru)
          /\ IsLruList(c, lru, len)
      BY DEF PoolOf
    <3>2. len \in Nat /\ len # 0 /\ DOMAIN lru = 1 .. len
      BY <3>1, CapacityAssumption
    <3> QED
      BY <3>1, <3>2 DEF IsLruList
  <2>2. k = 1
    <3>1. 1 \in 1 .. len /\ lru[k] = lru[1]
      BY <1>0, <1>1, <2>1
    <3> QED
      BY <2>1, <3>1 DEF Distinct
  <2>3. ToFront(lru, len, k) = lru
    BY <2>1, <2>2, FirstToFront
  <2>4. promote(c, n) = c
    BY <1>1 DEF promote
  <2> QED
    BY <1>0, <2>3, <2>4 DEF Kept, SameCounters
<1>2. CASE n # c.head
  <2> DEFINE u == unlink_node(c, n)
             d == link_node(u, n)
  <2>1. /\ len \in Nat /\ lru \in [1 .. len -> Node] /\ Distinct(lru) /\ IsLruList(c, lru, len)
        /\ len \in 0 .. Capacity
        /\ free \in [1 .. Capacity - len -> Node] /\ Distinct(free)
        /\ IsFreeList(c, free, Capacity - len) /\ Capacity - len \in Nat
        /\ Image(lru) \cap Image(free) = {} /\ Image(lru) \cup Image(free) = Node
    BY CapacityAssumption DEF PoolOf
  <2>2. k \in 1 .. len /\ n = lru[k]
    BY <1>0
  <2>3. n \in Node /\ n \in Image(lru)
    BY <2>1, <2>2 DEF Image
  <2> DEFINE less == Without(lru, len, k)
             after == Prepend(less, len - 1, n)
  <2>4. /\ less \in [1 .. len - 1 -> Node] /\ Distinct(less)
        /\ IsLruList(u, less, len - 1) /\ Image(less) = Image(lru) \ {n}
    BY <2>1, <2>2, UnlinkList
  <2>5. /\ u \in CacheType /\ u.size = c.size /\ Kept(c, u) /\ u.free_head = c.free_head
        /\ u.hits = c.hits /\ u.misses = c.misses /\ u.evictions = c.evictions
        /\ \A m \in Node : u.nodes[m].next = IF m = c.nodes[n].prev THEN c.nodes[n].next
                                                                    ELSE c.nodes[m].next
    BY <2>3, UnlinkFields
  <2>6. promote(c, n) = d
    BY <1>2 DEF promote
  <2>a. after = ToFront(lru, len, k)
    BY <2>2 DEF ToFront
  <2> HIDE DEF u, less
  <2>7. /\ d \in CacheType /\ d.size = u.size /\ Kept(u, d) /\ d.free_head = u.free_head
        /\ d.hits = u.hits /\ d.misses = u.misses /\ d.evictions = u.evictions
        /\ \A m \in Node : d.nodes[m].next = IF m = n THEN u.head ELSE u.nodes[m].next
    BY <2>3, <2>5, LinkFields
  <2>8. len - 1 \in Nat /\ (len - 1) + 1 = len
    BY <2>1
  <2>9. /\ after \in [1 .. len -> Node] /\ Distinct(after)
        /\ IsLruList(d, after, len) /\ Image(after) = Image(less) \cup {n}
    <3>1. n \notin Image(less)
      BY <2>4
    <3> QED
      BY <2>3, <2>4, <2>5, <2>8, <3>1, LinkList
  <2> HIDE DEF after
  <2>10. Image(after) = Image(lru)
    BY <2>3, <2>4, <2>9
  <2>11. \A m \in Image(free) : d.nodes[m].next = c.nodes[m].next
    <3>a. /\ len \in Nat /\ lru \in [1 .. len -> Node] /\ IsLruList(c, lru, len)
          /\ n \in Image(lru)
      BY <2>1, <2>3
    <3>1. c.nodes[n].prev \in Image(lru) \cup {NIL}
      BY <3>a, Neighbours
    <3> HIDE DEF d
    <3> QED
      BY <2>1, <2>3, <2>5, <2>7, <3>1, NILIs
  <2>12. IsFreeList(d, free, Capacity - len)
    <3>1. d.free_head = c.free_head
      BY <2>5, <2>7
    <3> HIDE DEF d
    <3> QED
      BY <2>1, <2>11, <3>1, FreeListKept
  <2> HIDE DEF d
  <2>13. PoolOf(d, after, free, len)
    BY <2>1, <2>9, <2>10, <2>12 DEF PoolOf
  <2>14. Kept(c, d) /\ SameCounters(c, d)
    BY <2>5, <2>7 DEF Kept, SameCounters
  <2>15. d.size = c.size
    BY <2>5, <2>7
  <2> QED
    BY <1>0, <2>6, <2>7, <2>10, <2>13, <2>14, <2>15, <2>a
<1> QED
  BY <1>1, <1>2

(* The node of an insertion before it is linked: allocated, filled and     *)
(* entered in the table.                                                   *)
Filled(c, slot, key, value) ==
  [allocate_node(c) EXCEPT !.nodes[c.free_head].key = key, !.nodes[c.free_head].value = value,
                           !.hash_table[slot] = c.free_head]

(* What the node of an insertion holds before it is linked                 *)
(* (lru_cache.cpp:89-93).                                                  *)
LEMMA FilledFields ==
  ASSUME NEW c \in CacheType, c.free_head \in Node, c.size < Capacity,
         NEW slot \in Slot, NEW key \in Keys, NEW value \in Values
  PROVE  LET d == Filled(c, slot, key, value)
             n == c.free_head
         IN  /\ d \in CacheType
             /\ d.head = c.head /\ d.tail = c.tail
             /\ d.free_head = c.nodes[n].next /\ d.size = c.size + 1
             /\ d.hits = c.hits /\ d.misses = c.misses /\ d.evictions = c.evictions
             /\ d.hash_table = [c.hash_table EXCEPT ![slot] = n]
             /\ d.nodes[n].key = key /\ d.nodes[n].value = value
             /\ \A m \in Node :
                  /\ d.nodes[m].next = c.nodes[m].next /\ d.nodes[m].prev = c.nodes[m].prev
                  /\ m # n => d.nodes[m] = c.nodes[m]
<1> DEFINE n == c.free_head
           M == [c.nodes EXCEPT ![n] = [c.nodes[n] EXCEPT !.key = key, !.value = value]]
           h == [c.hash_table EXCEPT ![slot] = n]
           d == [c EXCEPT !.free_head = c.nodes[n].next, !.size = c.size + 1,
                          !.nodes = M, !.hash_table = h]
<1>1. /\ c.nodes \in [Node -> NodeType] /\ c.nodes[n] \in NodeType
      /\ c.nodes[n].next \in Node \cup {NIL}
      /\ c.hash_table \in [Slot -> Node \cup {NIL}] /\ c.size \in 0 .. Capacity
  BY DEF CacheType, NodeType
<1>2. Filled(c, slot, key, value) = d
  <2> DEFINE a == allocate_node(c)
  <2>1. a = [c EXCEPT !.free_head = c.nodes[n].next, !.size = c.size + 1]
    BY DEF allocate_node, CacheType
  <2>2. a.nodes = c.nodes /\ a.hash_table = c.hash_table
    BY <2>1 DEF CacheType
  <2>3. a \in CacheType
    <3>1. c.size + 1 \in 0 .. Capacity
      BY <1>1, CapacityAssumption
    <3> QED
      BY <1>1, <2>1, <3>1 DEF CacheType
  <2>4. Filled(c, slot, key, value) =
          [a EXCEPT !.nodes[n].key = key, !.nodes[n].value = value, !.hash_table[slot] = n]
    BY DEF Filled
  <2> HIDE DEF a
  <2> DEFINE w == [a EXCEPT !.nodes[n].key = key, !.nodes[n].value = value]
             W == [a.nodes EXCEPT ![n] = [a.nodes[n] EXCEPT !.key = key, !.value = value]]
  <2>a. w = [a EXCEPT !.nodes = W]
    BY <2>3 DEF CacheType
  <2>b. Filled(c, slot, key, value) = [w EXCEPT !.hash_table[slot] = n]
    BY <2>4
  <2> HIDE DEF w, W
  <2>5. Filled(c, slot, key, value) = [a EXCEPT !.nodes = W, !.hash_table = [a.hash_table EXCEPT ![slot] = n]]
    BY <2>3, <2>a, <2>b DEF CacheType
  <2> USE DEF W
  <2>6. Filled(c, slot, key, value) = [a EXCEPT !.nodes = M, !.hash_table = h]
    BY <2>2, <2>5
  <2> HIDE DEF M, h
  <2> QED
    BY <2>1, <2>6 DEF CacheType
<1>3. /\ M \in [Node -> NodeType]
      /\ M[n].key = key /\ M[n].value = value
      /\ M[n].next = c.nodes[n].next /\ M[n].prev = c.nodes[n].prev
      /\ \A m \in Node : m # n => M[m] = c.nodes[m]
  BY <1>1 DEF NodeType
<1>4. h \in [Slot -> Node \cup {NIL}]
  BY <1>1
<1>5. c.size + 1 \in 0 .. Capacity
  BY <1>1, CapacityAssumption
<1> HIDE DEF M, h, n
<1>6. /\ d \in CacheType
      /\ d.head = c.head /\ d.tail = c.tail
      /\ d.free_head = c.nodes[n].next /\ d.size = c.size + 1
      /\ d.hash_table = h /\ d.nodes = M
      /\ d.hits = c.hits /\ d.misses = c.misses /\ d.evictions = c.evictions
  BY <1>1, <1>3, <1>4, <1>5 DEF CacheType
<1> HIDE DEF d
<1> QED
  BY <1>2, <1>3, <1>6 DEF h, n

(* What free_node changes (lru_cache.cpp:204-209).                         *)
LEMMA FreeNodeFields ==
  ASSUME NEW c \in CacheType, NEW n \in Node, c.size # 0
  PROVE  LET d == free_node(c, n)
         IN  /\ d \in CacheType
             /\ d.head = c.head /\ d.tail = c.tail /\ d.free_head = n /\ d.size = c.size - 1
             /\ d.hits = c.hits /\ d.misses = c.misses /\ d.evictions = c.evictions
             /\ Kept(c, d)
             /\ \A m \in Node :
                  /\ d.nodes[m].next = IF m = n THEN c.free_head ELSE c.nodes[m].next
                  /\ d.nodes[m].prev = c.nodes[m].prev
<1> DEFINE M == WithNext(c.nodes, n, c.free_head)
           d == [c EXCEPT !.nodes = M, !.free_head = n, !.size = c.size - 1]
<1>1. c.nodes \in [Node -> NodeType] /\ c.free_head \in Node \cup {NIL} /\ c.size \in 0 .. Capacity
  BY DEF CacheType
<1>2. free_node(c, n) = d
  BY DEF free_node, CacheType, WithNext
<1>3. /\ M \in [Node -> NodeType]
      /\ \A m \in Node :
           /\ M[m].next = IF m = n THEN c.free_head ELSE c.nodes[m].next
           /\ M[m].prev = c.nodes[m].prev
           /\ M[m].key = c.nodes[m].key
           /\ M[m].value = c.nodes[m].value
  BY <1>1, WithNextFields
<1>4. c.size - 1 \in 0 .. Capacity
  BY <1>1, CapacityAssumption
<1> HIDE DEF M
<1>5. /\ d \in CacheType
      /\ d.nodes = M /\ d.free_head = n /\ d.size = c.size - 1
      /\ d.head = c.head /\ d.tail = c.tail /\ d.hash_table = c.hash_table
      /\ d.hits = c.hits /\ d.misses = c.misses /\ d.evictions = c.evictions
  BY <1>3, <1>4 DEF CacheType
<1> HIDE DEF d
<1> QED
  BY <1>2, <1>3, <1>5 DEF Kept

(* d is c with the node n moved from the free list to the front of the LRU *)
(* list lru, holding key and value and entered in the table at slot.                 *)
Inserted(c, d, lru, n, slot, key, value) ==
  /\ d \in CacheType /\ d.size = c.size + 1
  /\ n \in Node \ Image(lru)
  /\ d.hash_table = [c.hash_table EXCEPT ![slot] = n]
  /\ d.nodes[n].key = key /\ d.nodes[n].value = value
  /\ \A m \in Node \ {n} :
       d.nodes[m].key = c.nodes[m].key /\ d.nodes[m].value = c.nodes[m].value
  /\ SameCounters(c, d)
  /\ \E rest : PoolOf(d, Prepend(lru, c.size, n), rest, d.size)
  /\ Image(Prepend(lru, c.size, n)) = Image(lru) \cup {n}

(* An insertion moves the first node of the free list to the LRU list.     *)
LEMMA InsertPool ==
  ASSUME NEW c \in CacheType, NEW lru, NEW free, PoolOf(c, lru, free, c.size), c.size < Capacity,
         NEW slot \in Slot, NEW key \in Keys, NEW value \in Values
  PROVE  Inserted(c, InsertAt(c, slot, key, value), lru, c.free_head, slot, key, value)
<1> DEFINE len == c.size
           n == c.free_head
           b == Filled(c, slot, key, value)
           d == link_node(b, n)
           after == Prepend(lru, len, n)
           f == Capacity - len
           rest == [i \in 1 .. Capacity - (len + 1) |-> free[i + 1]]
<1>1. /\ len \in Nat /\ len \in 0 .. Capacity /\ f \in Nat /\ f >= 1 /\ Capacity \in Nat
      /\ lru \in [1 .. len -> Node] /\ Distinct(lru) /\ IsLruList(c, lru, len)
      /\ free \in [1 .. f -> Node] /\ Distinct(free) /\ IsFreeList(c, free, f)
      /\ Image(lru) \cap Image(free) = {} /\ Image(lru) \cup Image(free) = Node
  BY CapacityAssumption DEF PoolOf, CacheType
<1>2. /\ n = free[1] /\ n \in Node /\ n \in Image(free) /\ n \notin Image(lru)
      /\ \A i \in 1 .. f : c.nodes[free[i]].next = IF i = f THEN NIL ELSE free[i + 1]
  <2>1. 1 \in 1 .. f /\ f # 0
    BY <1>1
  <2>2. n = free[1] /\ free[1] \in Node /\ free[1] \in Image(free)
    BY <1>1, <2>1 DEF IsFreeList, Image
  <2> QED
    BY <1>1, <2>2 DEF IsFreeList
<1>3. InsertAt(c, slot, key, value) = d
  BY DEF InsertAt, Filled
<1>4. /\ b \in CacheType /\ b.head = c.head /\ b.tail = c.tail
      /\ b.free_head = c.nodes[n].next /\ b.size = c.size + 1
      /\ b.hits = c.hits /\ b.misses = c.misses /\ b.evictions = c.evictions
      /\ b.hash_table = [c.hash_table EXCEPT ![slot] = n]
      /\ b.nodes[n].key = key /\ b.nodes[n].value = value
      /\ \A m \in Node :
           /\ b.nodes[m].next = c.nodes[m].next /\ b.nodes[m].prev = c.nodes[m].prev
           /\ m # n => b.nodes[m] = c.nodes[m]
  BY <1>2, FilledFields
<1>a. f = Capacity - len /\ Capacity - (len + 1) = f - 1 /\ b.size = len + 1
  BY <1>1, <1>4
<1> HIDE DEF b, n, len, f
<1>5. IsLruList(b, lru, len)
  <2>1. \A i \in 1 .. len : lru[i] \in Node
    BY <1>1
  <2> QED
    BY <1>1, <1>4, <2>1 DEF IsLruList
<1>6. /\ d \in CacheType /\ d.size = b.size /\ Kept(b, d) /\ d.free_head = b.free_head
      /\ d.hits = b.hits /\ d.misses = b.misses /\ d.evictions = b.evictions
      /\ \A m \in Node : d.nodes[m].next = IF m = n THEN b.head ELSE b.nodes[m].next
  BY <1>2, <1>4, LinkFields
<1>7. /\ after \in [1 .. len + 1 -> Node] /\ Distinct(after)
      /\ IsLruList(d, after, len + 1) /\ Image(after) = Image(lru) \cup {n}
  BY <1>1, <1>2, <1>4, <1>5, LinkList
<1> HIDE DEF d, after
<1>8. /\ \A i \in 1 .. f - 1 : rest[i] = free[i + 1] /\ i + 1 \in 1 .. f
      /\ DOMAIN rest = 1 .. f - 1 /\ DOMAIN free = 1 .. f
      /\ Capacity - (len + 1) = f - 1
  BY <1>1, <1>a
<1>9. /\ \A i \in 1 .. f : free[i] \in Node
      /\ \A i, j \in 1 .. f : free[i] = free[j] => i = j
  BY <1>1, <1>8 DEF Distinct
<1>10. rest \in [1 .. Capacity - (len + 1) -> Node]
  BY <1>8, <1>9
<1> HIDE DEF rest
<1>11. Distinct(rest)
  <2> SUFFICES ASSUME NEW i \in 1 .. f - 1, NEW j \in 1 .. f - 1, rest[i] = rest[j]
               PROVE  i = j
    BY <1>8 DEF Distinct
  <2>1. i + 1 = j + 1
    BY <1>8, <1>9
  <2> QED
    BY <2>1
<1>12. Image(rest) = Image(free) \ {n}
  <2>1. \A i \in 1 .. f - 1 : rest[i] \in Image(free) /\ rest[i] # n
    <3> SUFFICES ASSUME NEW i \in 1 .. f - 1
                 PROVE  rest[i] \in Image(free) /\ rest[i] # n
      OBVIOUS
    <3>1. rest[i] = free[i + 1] /\ i + 1 \in 1 .. f /\ 1 \in 1 .. f /\ i + 1 # 1
      BY <1>1, <1>8
    <3> QED
      BY <1>2, <1>8, <1>9, <3>1 DEF Image
  <2>2. Image(rest) \subseteq Image(free) \ {n}
    BY <1>8, <2>1 DEF Image
  <2>3. ASSUME NEW i \in 1 .. f, free[i] # n
        PROVE  free[i] \in Image(rest)
    <3>1. i - 1 \in 1 .. f - 1 /\ (i - 1) + 1 = i
      BY <1>1, <1>2, <2>3
    <3>2. rest[i - 1] = free[i]
      BY <1>8, <3>1
    <3> QED
      BY <1>8, <3>1, <3>2 DEF Image
  <2>4. Image(free) \ {n} \subseteq Image(rest)
    BY <1>8, <2>3 DEF Image
  <2> QED
    BY <2>2, <2>4
<1>13. d.free_head = c.nodes[n].next /\ \A m \in Node \ {n} : d.nodes[m].next = c.nodes[m].next
  BY <1>4, <1>6
<1>14. IsFreeList(d, rest, f - 1)
  <2>1. d.free_head = IF f - 1 = 0 THEN NIL ELSE rest[1]
    BY <1>1, <1>2, <1>8, <1>13
  <2>2. ASSUME NEW i \in 1 .. f - 1
        PROVE  d.nodes[rest[i]].next = IF i = f - 1 THEN NIL ELSE rest[i + 1]
    <3>1. rest[i] = free[i + 1] /\ i + 1 \in 1 .. f /\ free[i + 1] # n /\ free[i + 1] \in Node
      BY <1>1, <1>2, <1>8, <1>9
    <3>2. d.nodes[rest[i]].next = IF i + 1 = f THEN NIL ELSE free[(i + 1) + 1]
      BY <1>2, <1>13, <3>1
    <3>3. i # f - 1 => rest[i + 1] = free[(i + 1) + 1]
      BY <1>1, <1>8
    <3> QED
      BY <1>1, <3>2, <3>3
  <2> QED
    BY <2>1, <2>2 DEF IsFreeList
<1>15. PoolOf(d, after, rest, len + 1)
  BY <1>1, <1>a, <1>2, <1>7, <1>8, <1>10, <1>11, <1>12, <1>14 DEF PoolOf
<1>16. /\ d.hash_table = [c.hash_table EXCEPT ![slot] = n]
       /\ d.nodes[n].key = key /\ d.nodes[n].value = value
       /\ \A m \in Node \ {n} :
            d.nodes[m].key = c.nodes[m].key /\ d.nodes[m].value = c.nodes[m].value
  BY <1>2, <1>4, <1>6 DEF Kept
<1>17. d.size = len + 1 /\ len = c.size
  BY <1>6, <1>a DEF len
<1>18. Inserted(c, d, lru, n, slot, key, value)
  <2>1. PoolOf(d, after, rest, d.size) /\ after = Prepend(lru, c.size, n)
    BY <1>15, <1>17 DEF after
  <2>2. SameCounters(c, d)
    BY <1>4, <1>6 DEF SameCounters
  <2> QED
    BY <1>2, <1>6, <1>7, <1>16, <1>17, <2>1, <2>2 DEF Inserted
<1> QED
  BY <1>3, <1>18 DEF n

(* d is c with the k-th node of the LRU list lru moved to the front of the *)
(* free list.                                                              *)
Released(c, d, lru, k) ==
  /\ d \in CacheType /\ d.size = c.size - 1 /\ c.size # 0 /\ Kept(c, d)
  /\ SameCounters(c, d) /\ d.free_head = lru[k]
  /\ \E rest : PoolOf(d, Without(lru, c.size, k), rest, d.size)
  /\ Image(Without(lru, c.size, k)) = Image(lru) \ {lru[k]}

(* A removal moves its node from the LRU list to the front of the free     *)
(* list.                                                                   *)
LEMMA ReleasePool ==
  ASSUME NEW c \in CacheType, NEW lru, NEW free, PoolOf(c, lru, free, c.size), NEW k \in 1 .. c.size
  PROVE  Released(c, free_node(unlink_node(c, lru[k]), lru[k]), lru, k)
<1>0. PICK n : n = lru[k]
  OBVIOUS
<1> DEFINE len == c.size
           f == Capacity - len
           u == unlink_node(c, n)
           d == free_node(u, n)
           rest == Prepend(free, f, n)
<1>1. /\ len \in Nat /\ len \in 0 .. Capacity /\ f \in Nat /\ Capacity \in Nat
      /\ lru \in [1 .. len -> Node] /\ Distinct(lru) /\ IsLruList(c, lru, len)
      /\ free \in [1 .. f -> Node] /\ Distinct(free) /\ IsFreeList(c, free, f)
      /\ Image(lru) \cap Image(free) = {} /\ Image(lru) \cup Image(free) = Node
  BY CapacityAssumption DEF PoolOf, CacheType
<1>a. f = Capacity - len /\ len = c.size
  OBVIOUS
<1>2. k \in 1 .. len /\ n = lru[k]
  BY <1>0
<1> HIDE DEF len, f
<1>3. n \in Node /\ n \in Image(lru) /\ n \notin Image(free) /\ len # 0
  BY <1>1, <1>2 DEF Image
<1> DEFINE after == Without(lru, len, k)
<1>4. /\ after \in [1 .. len - 1 -> Node] /\ Distinct(after)
      /\ IsLruList(u, after, len - 1) /\ Image(after) = Image(lru) \ {n}
  BY <1>1, <1>2, UnlinkList
<1>5. /\ u \in CacheType /\ u.size = c.size /\ Kept(c, u) /\ u.free_head = c.free_head
      /\ u.hits = c.hits /\ u.misses = c.misses /\ u.evictions = c.evictions
      /\ \A m \in Node : u.nodes[m].next = IF m = c.nodes[n].prev THEN c.nodes[n].next
                                                                  ELSE c.nodes[m].next
  BY <1>3, UnlinkFields
<1>6. u.size = len
  BY <1>5, <1>a
<1>b. after = Without(lru, c.size, k)
  BY <1>a
<1> HIDE DEF u, after
<1>7. /\ d \in CacheType /\ d.size = u.size - 1 /\ Kept(u, d)
      /\ d.head = u.head /\ d.tail = u.tail /\ d.free_head = n
      /\ d.hits = u.hits /\ d.misses = u.misses /\ d.evictions = u.evictions
      /\ \A m \in Node :
           /\ d.nodes[m].next = IF m = n THEN u.free_head ELSE u.nodes[m].next
           /\ d.nodes[m].prev = u.nodes[m].prev
  BY <1>3, <1>5, <1>6, FreeNodeFields
<1> HIDE DEF d
<1>8. IsLruList(d, after, len - 1)
  <2>1. ASSUME NEW i \in 1 .. len - 1
        PROVE  after[i] \in Node /\ after[i] # n
    <3>1. after[i] \in Image(after) /\ after[i] \in Node
      BY <1>4 DEF Image
    <3> QED
      BY <1>4, <3>1
  <2> QED
    BY <1>4, <1>7, <2>1 DEF IsLruList
<1>9. \A i \in 1 .. f + 1 : rest[i] = IF i = 1 THEN n ELSE free[i - 1]
  BY DEF Prepend
<1>10. /\ \A i \in 1 .. f : free[i] \in Node /\ free[i] # n /\ free[i] \in Image(free)
       /\ \A i, j \in 1 .. f : free[i] = free[j] => i = j
       /\ DOMAIN rest = 1 .. f + 1 /\ DOMAIN free = 1 .. f
  BY <1>1, <1>3 DEF Image, Distinct, Prepend
<1>11. rest \in [1 .. f + 1 -> Node]
  <2>1. \A i \in 1 .. f + 1 : (IF i = 1 THEN n ELSE free[i - 1]) \in Node
    <3>1. \A i \in 1 .. f + 1 : i # 1 => i - 1 \in 1 .. f
      BY <1>1
    <3> QED
      BY <1>3, <1>10, <3>1
  <2> QED
    BY <2>1 DEF Prepend
<1> HIDE DEF rest
<1>12. Distinct(rest)
  <2> SUFFICES ASSUME NEW i \in 1 .. f + 1, NEW j \in 1 .. f + 1, rest[i] = rest[j]
               PROVE  i = j
    BY <1>10 DEF Distinct
  <2>1. CASE i = 1 \/ j = 1
    BY <1>1, <1>9, <1>10, <2>1
  <2>2. CASE i # 1 /\ j # 1
    <3>1. i - 1 \in 1 .. f /\ j - 1 \in 1 .. f /\ free[i - 1] = free[j - 1]
      BY <1>1, <1>9, <2>2
    <3>2. i - 1 = j - 1
      BY <1>10, <3>1
    <3> QED
      BY <3>2
  <2> QED
    BY <2>1, <2>2
<1>13. Image(rest) = Image(free) \cup {n}
  <2>1. ASSUME NEW i \in 1 .. f + 1
        PROVE  rest[i] \in Image(free) \cup {n}
    <3>1. i # 1 => i - 1 \in 1 .. f
      BY <1>1
    <3> QED
      BY <1>9, <1>10, <3>1
  <2>2. ASSUME NEW i \in 1 .. f
        PROVE  free[i] \in Image(rest)
    <3>1. i + 1 \in 1 .. f + 1 /\ rest[i + 1] = free[i]
      BY <1>1, <1>9
    <3> QED
      BY <1>10, <3>1 DEF Image
  <2>3. n \in Image(rest)
    BY <1>1, <1>9, <1>10, 1 \in 1 .. f + 1 DEF Image
  <2> QED
    BY <1>10, <2>1, <2>2, <2>3 DEF Image
<1>14. IsFreeList(d, rest, f + 1)
  <2>1. \A m \in Image(free) : d.nodes[m].next = c.nodes[m].next
    <3>1. c.nodes[n].prev \in Image(lru) \cup {NIL}
      BY <1>1, <1>3, Neighbours
    <3> QED
      BY <1>1, <1>3, <1>5, <1>7, <3>1, NILIs
  <2>2. /\ c.free_head = IF f = 0 THEN NIL ELSE free[1]
        /\ \A i \in 1 .. f : c.nodes[free[i]].next = IF i = f THEN NIL ELSE free[i + 1]
    BY <1>1 DEF IsFreeList
  <2>3. d.free_head = rest[1] /\ f + 1 # 0
    BY <1>1, <1>7, <1>9
  <2>4. ASSUME NEW i \in 1 .. f + 1
        PROVE  d.nodes[rest[i]].next = IF i = f + 1 THEN NIL ELSE rest[i + 1]
    <3>1. CASE i = 1
      <4>1. d.nodes[rest[i]].next = c.free_head
        BY <1>3, <1>5, <1>7, <1>9, <3>1
      <4>2. f # 0 => rest[2] = free[1]
        BY <1>1, <1>9
      <4> QED
        BY <1>1, <2>2, <3>1, <4>1, <4>2
    <3>2. CASE i # 1
      <4>1. i - 1 \in 1 .. f /\ rest[i] = free[i - 1] /\ (i - 1) + 1 = i
        BY <1>1, <1>9, <3>2
      <4>2. d.nodes[rest[i]].next = IF i - 1 = f THEN NIL ELSE free[i]
        BY <1>10, <2>1, <2>2, <4>1
      <4>3. i # f + 1 => rest[i + 1] = free[i]
        BY <1>1, <1>9, <3>2
      <4> QED
        BY <1>1, <4>2, <4>3
    <3> QED
      BY <3>1, <3>2
  <2> QED
    BY <2>3, <2>4 DEF IsFreeList
<1>15. PoolOf(d, after, rest, len - 1)
  <2>1. Capacity - (len - 1) = f + 1 /\ len - 1 \in 0 .. Capacity
    BY <1>1, <1>3, <1>a
  <2> QED
    BY <1>1, <1>3, <1>4, <1>8, <1>11, <1>12, <1>13, <1>14, <2>1 DEF PoolOf
<1>16. Kept(c, d)
  BY <1>5, <1>7 DEF Kept
<1>17. /\ d.size = len - 1 /\ len = c.size /\ len # 0
       /\ d.hits = c.hits /\ d.misses = c.misses /\ d.evictions = c.evictions
  BY <1>3, <1>5, <1>6, <1>7, <1>a
<1>18. PoolOf(d, after, rest, d.size)
  BY <1>15, <1>17
<1>19. SameCounters(c, d) /\ d.free_head = lru[k] /\ Image(after) = Image(lru) \ {lru[k]}
  BY <1>2, <1>4, <1>7, <1>17 DEF SameCounters
<1>20. Released(c, d, lru, k)
  BY <1>7, <1>16, <1>17, <1>18, <1>19, <1>b DEF Released
<1> QED
  BY <1>0, <1>20 DEF u, d

(* The pool does not involve the table or the counters.                    *)
LEMMA PoolKept ==
  ASSUME NEW c, NEW d, d.head = c.head, d.tail = c.tail, d.free_head = c.free_head,
         \A m \in Node : d.nodes[m].next = c.nodes[m].next /\ d.nodes[m].prev = c.nodes[m].prev,
         NEW lru, NEW free, NEW len, PoolOf(c, lru, free, len)
  PROVE  PoolOf(d, lru, free, len)
<1>1. /\ \A i \in 1 .. len : lru[i] \in Node
      /\ \A i \in 1 .. Capacity - len : free[i] \in Node
  BY DEF PoolOf
<1>2. IsLruList(d, lru, len)
  <2>1. IsLruList(c, lru, len)
    BY DEF PoolOf
  <2>2. \A i \in 1 .. len : /\ d.nodes[lru[i]].next = c.nodes[lru[i]].next
                            /\ d.nodes[lru[i]].prev = c.nodes[lru[i]].prev
    BY <1>1
  <2> QED
    BY <2>1, <2>2 DEF IsLruList
<1>3. IsFreeList(d, free, Capacity - len)
  <2>1. IsFreeList(c, free, Capacity - len)
    BY DEF PoolOf
  <2>2. \A i \in 1 .. Capacity - len : d.nodes[free[i]].next = c.nodes[free[i]].next
    BY <1>1
  <2> QED
    BY <2>1, <2>2 DEF IsFreeList
<1> QED
  BY <1>2, <1>3 DEF PoolOf

(* All nodes are free after the constructor and after clear.               *)
LEMMA EmptyPool ==
  ASSUME NEW c, c.head = NIL, c.tail = NIL, c.free_head = 0, c.size = 0,
         \A i \in Node : c.nodes[i].next = FreeLink(i)
  PROVE  \E lru, free : PoolOf(c, lru, free, 0) /\ Image(lru) = {}
<1> DEFINE lru == [i \in 1 .. 0 |-> 0]
           free == [i \in 1 .. Capacity |-> i - 1]
<1>1. /\ lru \in [1 .. 0 -> Node] /\ Distinct(lru) /\ IsLruList(c, lru, 0) /\ Image(lru) = {}
  BY DEF Distinct, IsLruList, Image
<1>2. /\ free \in [1 .. Capacity -> Node] /\ DOMAIN free = 1 .. Capacity
      /\ \A i \in 1 .. Capacity : free[i] = i - 1
  BY CapacityAssumption DEF Node
<1> HIDE DEF lru, free
<1>3. Distinct(free)
  BY <1>2, CapacityAssumption DEF Distinct
<1>4. IsFreeList(c, free, Capacity)
  <2>1. ASSUME NEW i \in 1 .. Capacity
        PROVE  c.nodes[free[i]].next = IF i = Capacity THEN NIL ELSE free[i + 1]
    <3>1. free[i] = i - 1 /\ i - 1 \in Node /\ (i - 1) + 1 = i
      BY <1>2, CapacityAssumption DEF Node
    <3>2. c.nodes[i - 1].next = IF i < Capacity THEN i ELSE NIL
      BY <3>1 DEF FreeLink
    <3>3. i # Capacity => i < Capacity /\ free[i + 1] = i
      BY <1>2, CapacityAssumption
    <3> QED
      BY <3>1, <3>2, <3>3, CapacityAssumption
  <2>2. c.free_head = free[1] /\ Capacity # 0
    BY <1>2, CapacityAssumption
  <2> QED
    BY <2>1, <2>2 DEF IsFreeList
<1>5. Image(free) = Node
  <2>1. ASSUME NEW m \in Node
        PROVE  m \in Image(free)
    <3>1. m + 1 \in 1 .. Capacity /\ free[m + 1] = m
      BY <1>2, CapacityAssumption DEF Node
    <3> QED
      BY <1>2, <3>1 DEF Image
  <2> QED
    BY <1>2, <2>1 DEF Image
<1>6. Capacity - 0 = Capacity /\ 0 \in 0 .. Capacity
  BY CapacityAssumption
<1>7. PoolOf(c, lru, free, 0)
  BY <1>1, <1>2, <1>3, <1>4, <1>5, <1>6 DEF PoolOf
<1> QED
  BY <1>1, <1>7

-----------------------------------------------------------------------------
(* The loop of next_power_of_two ends, and not too early                   *)
(* (lru_cache.cpp:7-11): the constructor's table has at least two slots    *)
(* for every node (lru_cache.cpp:27-30).                                   *)
LEMMA PowerIsEnough ==
  ASSUME NEW n \in Nat
  PROVE  next_power_of_two(n) \in Nat /\ next_power_of_two(n) >= n
<1> DEFINE F == [x \in Nat |-> 2 * x]
           Body(g) == [i \in Nat |-> IF i = 0 THEN 1 ELSE 2 * g[i - 1]]
           count == CHOOSE g : g = Body(g)
           Last(i) == count[i] >= n /\ \A j \in 0 .. i - 1 : count[j] < n
<1>1. F \in [Nat -> Nat] /\ 1 \in Nat
  OBVIOUS
<1>2. PICK run : run = [i \in Nat |-> IF i = 0 THEN 1 ELSE F[run[i - 1]]]
  <2> HIDE DEF F
  <2> QED
    BY <1>1, LoopDefined
<1>3. \A i \in Nat : run[i] \in Nat
  <2> DEFINE P == {i \in Nat : run[i] \in Nat}
  <2>1. 0 \in P
    BY <1>2
  <2>2. ASSUME NEW i \in Nat, i \in P
        PROVE  i + 1 \in P
    <3>1. i + 1 \in Nat /\ i + 1 # 0 /\ i + 1 - 1 = i
      OBVIOUS
    <3>2. run[i + 1] = F[run[i]]
      BY <1>2, <3>1
    <3> QED
      BY <2>2, <3>2
  <2> HIDE DEF P
  <2>3. \A i \in Nat : i \in P
    BY <2>1, <2>2, SetInduction
  <2> QED
    BY <2>3 DEF P
<1>4. run = Body(run)
  <2>1. \A i \in Nat : i # 0 => F[run[i - 1]] = 2 * run[i - 1]
    BY <1>3
  <2> HIDE DEF F
  <2> QED
    BY <1>2, <2>1
<1>5. count = Body(count)
  BY <1>4
<1> HIDE DEF count
<1>6. \A i \in Nat : count[i] \in Nat /\ count[i] > i
  <2> DEFINE P == {i \in Nat : count[i] \in Nat /\ count[i] > i}
  <2>1. 0 \in P
    BY <1>5
  <2>2. ASSUME NEW i \in Nat, i \in P
        PROVE  i + 1 \in P
    <3>1. i + 1 \in Nat /\ i + 1 # 0 /\ i + 1 - 1 = i
      OBVIOUS
    <3>2. count[i + 1] = 2 * count[i]
      BY <1>5, <3>1
    <3> QED
      BY <2>2, <3>2
  <2> HIDE DEF P
  <2>3. \A i \in Nat : i \in P
    BY <2>1, <2>2, SetInduction
  <2> QED
    BY <2>3 DEF P
<1>7. \E i \in 0 .. n : Last(i)
  <2> DEFINE S == {i \in Nat : count[i] >= n}
  <2>1. n \in S
    BY <1>6
  <2>2. PICK m \in S : \A i \in S : m <= i
    <3> HIDE DEF S
    <3>1. S \subseteq Nat
      BY DEF S
    <3> QED
      BY <2>1, <3>1, LeastElement
  <2>3. m \in 0 .. n
    BY <2>1, <2>2
  <2>4. \A j \in 0 .. m - 1 : count[j] < n
    <3> TAKE j \in 0 .. m - 1
    <3>1. j \in Nat /\ j \notin S
      BY <2>2
    <3> QED
      BY <1>6, <3>1
  <2> QED
    BY <2>2, <2>3, <2>4
<1>8. next_power_of_two(n) = count[CHOOSE i \in 0 .. n : Last(i)]
  BY DEF next_power_of_two, count
<1>9. PICK i \in 0 .. n : next_power_of_two(n) = count[i] /\ Last(i)
  <2> HIDE DEF Last
  <2> QED
    BY <1>7, <1>8
<1> QED
  BY <1>6, <1>9

LEMMA TableIsLargeEnough == TableSize \in Nat /\ TableSize >= 2 * Capacity
  BY CapacityAssumption, TableSizeAssumption, PowerIsEnough

-----------------------------------------------------------------------------
(* The table's slots in a circle.                                          *)

(* A slot is a number.                                                     *)
LEMMA SlotsAreNumbers == \A s \in Slot : s \in Nat /\ s \in Int
  BY DEF Slot

(* next_idx steps through the slots in a circle.                           *)
LEMMA NextSlotIs ==
  \A s \in Slot : NextSlot(s) = (IF s + 1 = TableSize THEN 0 ELSE s + 1) /\ NextSlot(s) \in Slot
  BY CapacityAssumption, TableIsLargeEnough DEF NextSlot, Slot

(* The masked sum of a probing loop, without the modulus: it wraps around  *)
(* at most once.                                                           *)
LEMMA ProbeIs ==
  \A k \in Keys, d \in Slot :
    /\ Probe(k, d) = IF Hash[k] + d < TableSize THEN Hash[k] + d ELSE Hash[k] + d - TableSize
    /\ Probe(k, d) \in Slot
<1> USE CapacityAssumption, TableIsLargeEnough, DataAssumption DEF Slot
<1> SUFFICES ASSUME NEW k \in Keys, NEW d \in Slot
             PROVE  /\ Probe(k, d) = IF Hash[k] + d < TableSize THEN Hash[k] + d
                                                                ELSE Hash[k] + d - TableSize
                    /\ Probe(k, d) \in Slot
  OBVIOUS
<1>1. Hash[k] \in 0 .. TableSize - 1
  OBVIOUS
<1> DEFINE x == Hash[k] + d
<1>2. x \in 0 .. 2 * TableSize - 2
  BY <1>1
<1>3. x % TableSize = IF x < TableSize THEN x ELSE x - TableSize
  BY <1>2
<1> QED
  BY <1>1, <1>3 DEF Probe

(* A probe sequence meets every set of slots that is not empty, and has a  *)
(* first slot in it.                                                       *)
LEMMA FirstProbe ==
  ASSUME NEW key \in Keys, NEW T \in SUBSET Slot, T # {}
  PROVE  \E d \in Slot : Probe(key, d) \in T /\ \A e \in 0 .. d - 1 : Probe(key, e) \notin T
<1> USE CapacityAssumption, TableIsLargeEnough, DataAssumption DEF Slot
<1> DEFINE D == {d \in Slot : Probe(key, d) \in T}
<1>1. D \in SUBSET Nat
  OBVIOUS
<1>2. PICK s \in T : s \in Slot
  OBVIOUS
<1> DEFINE d0 == IF s >= Hash[key] THEN s - Hash[key] ELSE s - Hash[key] + TableSize
<1>3. Hash[key] \in 0 .. TableSize - 1
  OBVIOUS
<1>4. d0 \in Slot /\ Probe(key, d0) = s
  <2>1. d0 \in Slot
    BY <1>2, <1>3
  <2> QED
    BY <1>2, <1>3, <2>1, ProbeIs
<1>5. d0 \in D
  BY <1>2, <1>4
<1> HIDE DEF D, d0
<1>6. PICK d \in D : \A e \in D : d <= e
  BY <1>1, <1>5, LeastElement
<1>7. ASSUME NEW e \in 0 .. d - 1
      PROVE  Probe(key, e) \notin T
  <2>1. e \in Slot /\ ~ d <= e
    BY <1>6 DEF D
  <2> QED
    BY <1>6, <2>1 DEF D
<1> QED
  BY <1>6, <1>7 DEF D

(* More slots than nodes: a table without duplicates has an empty slot, so *)
(* every probing loop ends (lru_cache.cpp:26-30, 47, 61, 84, 114).         *)
LEMMA EmptySlotExists ==
  ASSUME NEW c \in CacheType, OneSlotEach(c)
  PROVE  \E s \in Slot : c.hash_table[s] = NIL
<1> SUFFICES ASSUME \A s \in Slot : c.hash_table[s] # NIL
             PROVE  FALSE
  OBVIOUS
<1> DEFINE f == c.hash_table
<1>1. f \in [Slot -> Node]
  BY DEF CacheType
<1>2. IsFiniteSet(Slot) /\ Cardinality(Slot) = TableSize
  <2>1. 0 \in Int /\ TableSize - 1 \in Int /\ ~ (0 > TableSize - 1) /\ TableSize - 1 - 0 + 1 = TableSize
    BY TableIsLargeEnough, CapacityAssumption
  <2> QED
    BY <2>1, FS_Interval DEF Slot
<1>3. IsFiniteSet(Node) /\ Cardinality(Node) = Capacity
  BY FS_Interval, CapacityAssumption DEF Node
<1>4. Capacity < TableSize
  BY TableIsLargeEnough, CapacityAssumption
<1>5. \E s, t \in Slot : s # t /\ f[s] = f[t]
  <2> HIDE DEF f
  <2> QED
    BY <1>1, <1>2, <1>3, <1>4, FS_PigeonHole
<1> QED
  BY <1>5 DEF OneSlotEach

(* The loop of find_node, put and remove (lru_cache.cpp:43-55) stops at    *)
(* the first slot of the key's probe sequence that is empty or holds it.   *)
StopsAt(c, key, s) == c.hash_table[s] = NIL \/ c.nodes[c.hash_table[s]].key = key

(* KeySlot is that first slot.                                             *)
LEMMA KeySlotFirst ==
  ASSUME NEW c \in CacheType, OneSlotEach(c), NEW key \in Keys
  PROVE  \E d \in Slot : /\ KeySlot(c, key) = Probe(key, d)
                         /\ StopsAt(c, key, Probe(key, d))
                         /\ \A e \in 0 .. d - 1 : ~ StopsAt(c, key, Probe(key, e))
<1> DEFINE T == {s \in Slot : StopsAt(c, key, s)}
           First(d) == /\ StopsAt(c, key, Probe(key, d))
                       /\ \A e \in 0 .. d - 1 : ~ StopsAt(c, key, Probe(key, e))
           d0 == CHOOSE d \in Slot : First(d)
<1>1. T # {}
  BY EmptySlotExists DEF StopsAt
<1>2. PICK d \in Slot : Probe(key, d) \in T /\ \A e \in 0 .. d - 1 : Probe(key, e) \notin T
  <2> HIDE DEF T
  <2> QED
    BY <1>1, FirstProbe DEF T
<1>3. \A e \in 0 .. d - 1 : e \in Slot
  BY TableIsLargeEnough, CapacityAssumption DEF Slot
<1>4. First(d)
  BY <1>2, <1>3, ProbeIs
<1>5. d0 \in Slot /\ First(d0)
  BY <1>4
<1>6. KeySlot(c, key) = Probe(key, d0)
  BY DEF KeySlot, FirstSlot, StopsAt
<1> QED
  BY <1>5, <1>6

(* So it is an empty slot or the slot of a node that holds the key.        *)
LEMMA KeySlotIs ==
  ASSUME NEW c \in CacheType, OneSlotEach(c), NEW key \in Keys
  PROVE  /\ KeySlot(c, key) \in Slot
         /\ \/ c.hash_table[KeySlot(c, key)] = NIL
            \/ c.nodes[c.hash_table[KeySlot(c, key)]].key = key
  BY KeySlotFirst, ProbeIs DEF StopsAt

(* The re-probe of put after an eviction stops at the first empty slot of  *)
(* the key's probe sequence (lru_cache.cpp:80-86).                         *)
FirstEmpty(table, key, slot) ==
  \E d \in Slot : /\ slot = Probe(key, d) /\ table[slot] = NIL
                  /\ \A e \in 0 .. d - 1 : table[Probe(key, e)] # NIL

(* EmptySlot is that slot.                                                 *)
LEMMA EmptySlotIs ==
  ASSUME NEW c \in CacheType, OneSlotEach(c), NEW key \in Keys
  PROVE  /\ EmptySlot(c, key) \in Slot /\ c.hash_table[EmptySlot(c, key)] = NIL
         /\ FirstEmpty(c.hash_table, key, EmptySlot(c, key))
<1> DEFINE Stops(s) == c.hash_table[s] = NIL
           T == {s \in Slot : Stops(s)}
           First(d) == Stops(Probe(key, d)) /\ \A e \in 0 .. d - 1 : ~ Stops(Probe(key, e))
           d0 == CHOOSE d \in Slot : First(d)
<1>1. T # {}
  BY EmptySlotExists
<1>2. PICK d \in Slot : Probe(key, d) \in T /\ \A e \in 0 .. d - 1 : Probe(key, e) \notin T
  <2> HIDE DEF T
  <2> QED
    BY <1>1, FirstProbe DEF T
<1>3. \A e \in 0 .. d - 1 : e \in Slot
  BY TableIsLargeEnough, CapacityAssumption DEF Slot
<1>4. First(d)
  BY <1>2, <1>3, ProbeIs
<1> HIDE DEF Stops
<1>5. d0 \in Slot /\ First(d0)
  BY <1>4
<1>6. EmptySlot(c, key) = Probe(key, d0)
  BY DEF EmptySlot, FirstSlot, Stops
<1> HIDE DEF d0
<1> QED
  BY <1>5, <1>6, ProbeIs DEF Stops, FirstEmpty

(* The search of evict_lru, which has no exit at an empty slot, stops at   *)
(* the slot of the node if the table holds it (lru_cache.cpp:155-182).     *)
LEMMA NodeSlotIs ==
  ASSUME NEW c \in CacheType, NEW n \in Live(c)
  PROVE  NodeSlot(c, n) \in Slot /\ c.hash_table[NodeSlot(c, n)] = n
<1> DEFINE key == c.nodes[n].key
           Stops(s) == c.hash_table[s] = n
           T == {s \in Slot : Stops(s)}
           First(d) == Stops(Probe(key, d)) /\ \A e \in 0 .. d - 1 : ~ Stops(Probe(key, e))
           d0 == CHOOSE d \in Slot : First(d)
<1>1. T # {} /\ key \in Keys
  BY DEF Live, CacheType, NodeType
<1> HIDE DEF key
<1>2. PICK d \in Slot : Probe(key, d) \in T /\ \A e \in 0 .. d - 1 : Probe(key, e) \notin T
  <2> HIDE DEF T
  <2> QED
    BY <1>1, FirstProbe DEF T
<1>3. \A e \in 0 .. d - 1 : e \in Slot
  BY TableIsLargeEnough, CapacityAssumption DEF Slot
<1>4. First(d)
  BY <1>1, <1>2, <1>3, ProbeIs
<1> HIDE DEF Stops
<1>5. d0 \in Slot /\ First(d0)
  BY <1>4
<1>6. NodeSlot(c, n) = Probe(key, d0)
  BY DEF NodeSlot, FirstSlot, Stops, key
<1> HIDE DEF d0
<1> QED
  BY <1>1, <1>5, <1>6, ProbeIs DEF Stops

-----------------------------------------------------------------------------
(* Removal with backward shifting takes one node out of the table, and     *)
(* none of the others: what is moved leaves its old slot as it enters the  *)
(* hole (lru_cache.cpp:125-145, 160-178).                                  *)

Table == [Slot -> Node \cup {NIL}]
Entries(table) == {table[s] : s \in Slot} \ {NIL}
NoDuplicate(table) == \A s, t \in Slot : table[s] = table[t] /\ table[s] # NIL => s = t

(* One iteration of the backward shift stays in the loop's state.          *)
LEMMA ShiftStepType ==
  ASSUME NEW c \in CacheType
  PROVE  ShiftStep(c.nodes) \in [ShiftState -> ShiftState]
<1> SUFFICES ASSUME NEW s \in ShiftState
             PROVE  ShiftStep(c.nodes)[s] \in ShiftState
  BY DEF ShiftStep
<1> DEFINE moved == s.table[s.next]
           T == [s.table EXCEPT ![s.hole] = moved, ![s.next] = NIL]
<1>1. /\ s.table \in Table /\ s.hole \in Slot /\ s.next \in Slot
      /\ moved \in Node \cup {NIL} /\ NextSlot(s.next) \in Slot
  BY NextSlotIs DEF ShiftState, Table
<1>2. T \in Table
  BY <1>1 DEF Table
<1> HIDE DEF T, moved
<1>3. [table |-> T, hole |-> s.next, next |-> NextSlot(s.next)] \in ShiftState
  BY <1>1, <1>2 DEF ShiftState, Table
<1>4. [s EXCEPT !.next = NextSlot(s.next)] \in ShiftState
  BY <1>1 DEF ShiftState
<1> QED
  BY <1>3, <1>4 DEF ShiftStep, T, moved

(* The loop invariant: the hole is empty, and the table holds the nodes of *)
(* E, each once.                                                           *)
Shifting(E) == {s \in ShiftState : /\ s.table[s.hole] = NIL
                                   /\ Entries(s.table) = E
                                   /\ NoDuplicate(s.table)}

(* One iteration of the backward shift keeps the loop invariant.           *)
LEMMA ShiftStepKeeps ==
  ASSUME NEW c \in CacheType, NEW E, NEW s \in Shifting(E)
  PROVE  ShiftStep(c.nodes)[s] \in Shifting(E)
<1> DEFINE moved == s.table[s.next]
           T == [s.table EXCEPT ![s.hole] = moved, ![s.next] = NIL]
           r == ShiftStep(c.nodes)[s]
<1>1. /\ s \in ShiftState /\ s.table \in Table /\ s.hole \in Slot /\ s.next \in Slot
      /\ s.table[s.hole] = NIL /\ Entries(s.table) = E /\ NoDuplicate(s.table)
  BY DEF Shifting, ShiftState, Table
<1>2. r \in ShiftState
  BY <1>1, ShiftStepType
<1>3. \/ r = s
      \/ r = [s EXCEPT !.next = NextSlot(s.next)]
      \/ moved # NIL /\ r = [table |-> T, hole |-> s.next, next |-> NextSlot(s.next)]
  BY <1>1 DEF ShiftStep
<1>4. ASSUME moved # NIL
      PROVE  T[s.next] = NIL /\ Entries(T) = E /\ NoDuplicate(T)
  <2>1. s.hole # s.next
    BY <1>1, <1>4
  <2>2. /\ \A t \in Slot : T[t] = IF t = s.next THEN NIL ELSE IF t = s.hole THEN moved ELSE s.table[t]
    BY <1>1 DEF Table
  <2> HIDE DEF T
  <2>3. Entries(T) \subseteq Entries(s.table)
    BY <1>1, <2>2 DEF Entries
  <2>4. Entries(s.table) \subseteq Entries(T)
    <3> SUFFICES ASSUME NEW t \in Slot, s.table[t] # NIL
                 PROVE  \E q \in Slot : T[q] = s.table[t]
      BY DEF Entries
    <3>1. CASE t = s.next
      BY <1>1, <2>1, <2>2, <3>1
    <3>2. CASE t # s.next
      BY <1>1, <2>2, <3>2
    <3> QED
      BY <3>1, <3>2
  <2>5. NoDuplicate(T)
    BY <1>1, <2>1, <2>2 DEF NoDuplicate
  <2> QED
    BY <1>1, <2>2, <2>3, <2>4, <2>5
<1>5. CASE r = s
  BY <1>5
<1>6. CASE r = [s EXCEPT !.next = NextSlot(s.next)]
  <2>1. r.table = s.table /\ r.hole = s.hole
    BY <1>1, <1>6 DEF ShiftState
  <2> QED
    BY <1>1, <1>2, <2>1 DEF Shifting
<1>7. CASE moved # NIL /\ r = [table |-> T, hole |-> s.next, next |-> NextSlot(s.next)]
  <2>1. r.table = T /\ r.hole = s.next
    BY <1>7
  <2>2. T[s.next] = NIL /\ Entries(T) = E /\ NoDuplicate(T)
    BY <1>4, <1>7
  <2>3. r.table[r.hole] = NIL /\ Entries(r.table) = E /\ NoDuplicate(r.table)
    <3> HIDE DEF r, T
    <3> QED
      BY <2>1, <2>2
  <2> QED
    BY <1>2, <2>3 DEF Shifting
<1> QED
  BY <1>3, <1>5, <1>6, <1>7

(* The loop of EraseSlot as the function that LoopInvariant is about.      *)
LEMMA EraseSlotLoop ==
  ASSUME NEW c \in CacheType, NEW slot \in Slot
  PROVE  LET s0 == [table |-> [c.hash_table EXCEPT ![slot] = NIL],
                    hole |-> slot, next |-> NextSlot(slot)]
         IN  /\ s0 \in ShiftState
             /\ \E run : /\ run = [i \in Nat |-> IF i = 0 THEN s0 ELSE ShiftStep(c.nodes)[run[i - 1]]]
                          /\ EraseSlot(c, slot) = [c EXCEPT !.hash_table = run[TableSize].table]
<1> DEFINE s0 == [table |-> [c.hash_table EXCEPT ![slot] = NIL],
                  hole |-> slot, next |-> NextSlot(slot)]
           run[i \in Nat] == IF i = 0 THEN s0 ELSE ShiftStep(c.nodes)[run[i - 1]]
<1>1. s0 \in ShiftState
  BY NextSlotIs DEF ShiftState, CacheType
<1> HIDE DEF s0
<1>2. \E f : f = [i \in Nat |-> IF i = 0 THEN s0 ELSE ShiftStep(c.nodes)[f[i - 1]]]
  <2> DEFINE F == ShiftStep(c.nodes)
  <2>1. F \in [ShiftState -> ShiftState]
    BY ShiftStepType
  <2> HIDE DEF F
  <2>2. \E f : f = [i \in Nat |-> IF i = 0 THEN s0 ELSE F[f[i - 1]]]
    BY <1>1, <2>1, LoopDefined
  <2> QED
    BY <2>2 DEF F
<1>3. run = [i \in Nat |-> IF i = 0 THEN s0 ELSE ShiftStep(c.nodes)[run[i - 1]]]
  BY <1>2
<1>4. EraseSlot(c, slot) = [c EXCEPT !.hash_table = run[TableSize].table]
  BY DEF EraseSlot, s0
<1> HIDE DEF run
<1> QED
  BY <1>1, <1>3, <1>4 DEF s0

(* Erasing a slot takes its node out of the table, keeps the others, each  *)
(* in one slot, and touches nothing else.                                  *)
LEMMA EraseSlotFields ==
  ASSUME NEW c \in CacheType, OneSlotEach(c), NEW slot \in Slot, c.hash_table[slot] # NIL
  PROVE  LET d == EraseSlot(c, slot)
         IN  /\ d \in CacheType /\ OneSlotEach(d)
             /\ Live(d) = Live(c) \ {c.hash_table[slot]}
             /\ d.nodes = c.nodes /\ d.head = c.head /\ d.tail = c.tail
             /\ d.free_head = c.free_head /\ d.size = c.size
             /\ d.hits = c.hits /\ d.misses = c.misses /\ d.evictions = c.evictions
<1> DEFINE table == [c.hash_table EXCEPT ![slot] = NIL]
           s0 == [table |-> table, hole |-> slot, next |-> NextSlot(slot)]
           E == Live(c) \ {c.hash_table[slot]}
<1>1. s0 \in ShiftState
  BY EraseSlotLoop
<1>2. PICK run : /\ run = [i \in Nat |-> IF i = 0 THEN s0 ELSE ShiftStep(c.nodes)[run[i - 1]]]
                 /\ EraseSlot(c, slot) = [c EXCEPT !.hash_table = run[TableSize].table]
  BY EraseSlotLoop
<1>3. s0 \in Shifting(E)
  <2>1. /\ c.hash_table \in Table
        /\ \A s \in Slot : table[s] = IF s = slot THEN NIL ELSE c.hash_table[s]
    BY DEF CacheType, Table
  <2> HIDE DEF table
  <2>2. table[slot] = NIL /\ NoDuplicate(table)
    BY <2>1 DEF OneSlotEach, NoDuplicate
  <2>3. Entries(table) = E
    BY <2>1 DEF Entries, Live, OneSlotEach
  <2>4. s0.table = table /\ s0.hole = slot
    OBVIOUS
  <2> HIDE DEF s0, E
  <2> QED
    BY <1>1, <2>2, <2>3, <2>4 DEF Shifting
<1> HIDE DEF s0, E
<1>4. Shifting(E) \in SUBSET ShiftState
  BY DEF Shifting
<1>5. \A i \in Nat : run[i] \in Shifting(E)
  <2> DEFINE F == ShiftStep(c.nodes)
             J == Shifting(E)
  <2>1. F \in [ShiftState -> ShiftState] /\ \A s \in J : F[s] \in J
    BY ShiftStepType, ShiftStepKeeps
  <2>2. run = [i \in Nat |-> IF i = 0 THEN s0 ELSE F[run[i - 1]]]
    BY <1>2
  <2>3. J \in SUBSET ShiftState /\ s0 \in J
    BY <1>3, <1>4
  <2> HIDE DEF F, J
  <2>4. \A i \in Nat : run[i] \in J
    BY <1>1, <2>1, <2>2, <2>3, LoopInvariant
  <2> QED
    BY <2>4 DEF J
<1> DEFINE T == run[TableSize].table
           d == [c EXCEPT !.hash_table = T]
<1>6. T \in Table /\ Entries(T) = E /\ NoDuplicate(T)
  BY <1>5, TableIsLargeEnough DEF Shifting, ShiftState, Table
<1> HIDE DEF T
<1>7. /\ d \in CacheType /\ d.hash_table = T
      /\ d.nodes = c.nodes /\ d.head = c.head /\ d.tail = c.tail
      /\ d.free_head = c.free_head /\ d.size = c.size
      /\ d.hits = c.hits /\ d.misses = c.misses /\ d.evictions = c.evictions
  BY <1>6 DEF CacheType, Table
<1>8. EraseSlot(c, slot) = d
  BY <1>2 DEF T
<1> HIDE DEF d
<1>9. OneSlotEach(d) /\ Live(d) = E
  BY <1>6, <1>7 DEF OneSlotEach, NoDuplicate, Live, Entries
<1> QED
  BY <1>7, <1>8, <1>9 DEF E

-----------------------------------------------------------------------------
(* Density. An empty slot z cuts the circle of slots open: no probe        *)
(* sequence that has reached an entry crosses z, and along the line of     *)
(* slots after z comparisons of positions replace the cyclic comparisons   *)
(* of the loop (lru_cache.cpp:125-145, 160-178).                           *)

(* The position of the slot s on the line that begins after z.             *)
Pos(z, s) == IF s > z THEN s - z - 1 ELSE s - z - 1 + TableSize

(* The number of steps from the slot h to the slot s.                      *)
Steps(h, s) == IF s >= h THEN s - h ELSE s - h + TableSize

(* The home slot of the entry of table in slot s.                          *)
Home(nodes, table, s) == Hash[nodes[table[s]].key]

(* The first half of DenseTable: a probe for a stored key reaches it.      *)
Reached(nodes, table) ==
  \A k \in Keys, d \in Slot :
    table[Probe(k, d)] # NIL /\ nodes[table[Probe(k, d)]].key = k
      => \A e \in 0 .. d : table[Probe(k, e)] # NIL

(* The same along the line after z.                                        *)
LineReached(nodes, table, z) ==
  \A s \in Slot : table[s] # NIL =>
    /\ Pos(z, Home(nodes, table, s)) <= Pos(z, s)
    /\ \A t \in Slot : Pos(z, Home(nodes, table, s)) <= Pos(z, t) /\ Pos(z, t) < Pos(z, s)
                        => table[t] # NIL

(* Positions number the slots, and z comes last.                           *)
LEMMA PosIs ==
  ASSUME NEW z \in Slot
  PROVE  /\ \A s \in Slot : Pos(z, s) \in Slot
         /\ \A s, t \in Slot : Pos(z, s) = Pos(z, t) => s = t
         /\ Pos(z, z) = TableSize - 1
         /\ \A s \in Slot : s # z => Pos(z, s) < TableSize - 1 /\ Pos(z, NextSlot(s)) = Pos(z, s) + 1
<1> USE CapacityAssumption, TableIsLargeEnough DEF Slot, Pos
<1>1. \A s \in Slot : Pos(z, s) \in Slot
  OBVIOUS
<1>2. \A s, t \in Slot : Pos(z, s) = Pos(z, t) => s = t
  OBVIOUS
<1>3. \A s \in Slot : s # z => Pos(z, s) < TableSize - 1 /\ Pos(z, NextSlot(s)) = Pos(z, s) + 1
  BY NextSlotIs
<1> QED
  BY <1>1, <1>2, <1>3

(* A slot is reached by exactly one number of steps of a probe.            *)
LEMMA StepsIs ==
  \A k \in Keys, s \in Slot :
    /\ Steps(Hash[k], s) \in Slot
    /\ Probe(k, Steps(Hash[k], s)) = s
    /\ \A d \in Slot : Probe(k, d) = s => d = Steps(Hash[k], s)
<1> USE CapacityAssumption, TableIsLargeEnough, DataAssumption DEF Slot
<1> SUFFICES ASSUME NEW k \in Keys, NEW s \in Slot
             PROVE  /\ Steps(Hash[k], s) \in Slot
                    /\ Probe(k, Steps(Hash[k], s)) = s
                    /\ \A d \in Slot : Probe(k, d) = s => d = Steps(Hash[k], s)
  OBVIOUS
<1>1. Hash[k] \in Slot
  OBVIOUS
<1>2. Steps(Hash[k], s) \in Slot
  BY <1>1 DEF Steps
<1> QED
  BY <1>1, <1>2, ProbeIs DEF Steps

(* Steps and positions: a probe that does not cross z walks along the      *)
(* line, and one that would go backwards meets z first.                    *)
LEMMA StepsAlongLine ==
  ASSUME NEW z \in Slot, NEW h \in Slot, NEW s \in Slot
  PROVE  /\ Pos(z, h) <= Pos(z, s) => Steps(h, s) = Pos(z, s) - Pos(z, h)
         /\ Pos(z, h) > Pos(z, s) => Steps(h, z) < Steps(h, s)
  BY CapacityAssumption, TableIsLargeEnough DEF Slot, Pos, Steps

(* Being reachable by probes is being reachable along the line.            *)
LEMMA ReachedAlongLine ==
  ASSUME NEW nodes \in [Node -> NodeType], NEW table \in Table, NEW z \in Slot, table[z] = NIL
  PROVE  Reached(nodes, table) <=> LineReached(nodes, table, z)
<1>1. ASSUME NEW s \in Slot, table[s] # NIL
      PROVE  nodes[table[s]].key \in Keys /\ Home(nodes, table, s) \in Slot
             /\ Home(nodes, table, s) = Hash[nodes[table[s]].key]
  BY <1>1, DataAssumption DEF Table, NodeType, Home
<1>2. ASSUME Reached(nodes, table)
      PROVE  LineReached(nodes, table, z)
  <2> SUFFICES ASSUME NEW s \in Slot, table[s] # NIL
               PROVE  /\ Pos(z, Home(nodes, table, s)) <= Pos(z, s)
                      /\ \A t \in Slot : Pos(z, Home(nodes, table, s)) <= Pos(z, t) /\ Pos(z, t) < Pos(z, s)
                                         => table[t] # NIL
    BY DEF LineReached
  <2> DEFINE k == nodes[table[s]].key
             h == Home(nodes, table, s)
             d == Steps(h, s)
  <2>1. k \in Keys /\ h \in Slot /\ h = Hash[k]
    BY <1>1
  <2>2. d \in Slot /\ Probe(k, d) = s /\ nodes[table[s]].key = k
    BY <2>1, StepsIs
  <2> HIDE DEF k, h
  <2>3. \A e \in 0 .. d : table[Probe(k, e)] # NIL
    <3> HIDE DEF d
    <3> QED
      BY <1>2, <2>1, <2>2 DEF Reached
  <2>4. ASSUME NEW t \in Slot, Steps(h, t) <= d
        PROVE  table[t] # NIL
    <3>1. Steps(h, t) \in Slot /\ Probe(k, Steps(h, t)) = t
      BY <2>1, StepsIs
    <3>2. Steps(h, t) \in 0 .. d
      BY <2>2, <2>4, <3>1, TableIsLargeEnough, CapacityAssumption DEF Slot
    <3> QED
      BY <2>3, <3>1, <3>2
  <2>5. Pos(z, h) \in Slot /\ Pos(z, s) \in Slot /\ Steps(h, z) \in Slot
    BY <2>1, PosIs, StepsIs
  <2>6. Pos(z, h) <= Pos(z, s)
    <3> SUFFICES ASSUME Pos(z, h) > Pos(z, s)
                 PROVE  FALSE
      BY <2>5 DEF Slot
    <3>1. Steps(h, z) < d
      BY <2>1, StepsAlongLine
    <3>2. Steps(h, z) <= d
      BY <2>2, <2>5, <3>1, TableIsLargeEnough, CapacityAssumption DEF Slot
    <3> QED
      BY <2>4, <3>2
  <2>7. ASSUME NEW t \in Slot, Pos(z, h) <= Pos(z, t), Pos(z, t) < Pos(z, s)
        PROVE  table[t] # NIL
    <3>1. Steps(h, t) = Pos(z, t) - Pos(z, h) /\ d = Pos(z, s) - Pos(z, h)
      BY <2>1, <2>6, <2>7, StepsAlongLine
    <3>2. Pos(z, t) \in Slot
      BY PosIs
    <3>3. Steps(h, t) <= d
      BY <2>5, <2>7, <3>1, <3>2, TableIsLargeEnough, CapacityAssumption DEF Slot
    <3> QED
      BY <2>4, <3>3
  <2> QED
    BY <2>6, <2>7 DEF h
<1>3. ASSUME LineReached(nodes, table, z)
      PROVE  Reached(nodes, table)
  <2> SUFFICES ASSUME NEW k \in Keys, NEW d \in Slot,
                      table[Probe(k, d)] # NIL, nodes[table[Probe(k, d)]].key = k,
                      NEW e \in 0 .. d
               PROVE  table[Probe(k, e)] # NIL
    BY DEF Reached
  <2> DEFINE s == Probe(k, d)
             t == Probe(k, e)
             h == Hash[k]
  <2>1. e \in Slot /\ e <= d
    BY TableIsLargeEnough, CapacityAssumption DEF Slot
  <2>2. s \in Slot /\ t \in Slot /\ h \in Slot /\ d = Steps(h, s) /\ e = Steps(h, t)
    BY <2>1, ProbeIs, StepsIs, DataAssumption
  <2>3. table[s] # NIL /\ h = Home(nodes, table, s)
    BY DEF Home
  <2> HIDE DEF s, t, h
  <2>4. Pos(z, h) <= Pos(z, s) /\ d = Pos(z, s) - Pos(z, h)
    BY <1>3, <2>2, <2>3, StepsAlongLine DEF LineReached
  <2>5. Pos(z, h) <= Pos(z, t) /\ e = Pos(z, t) - Pos(z, h)
    <3>1. Pos(z, h) > Pos(z, t) => Steps(h, z) < e
      BY <2>2, StepsAlongLine
    <3>2. /\ Pos(z, h) \in Slot /\ Pos(z, s) \in Slot /\ Pos(z, t) \in Slot
          /\ Pos(z, z) = TableSize - 1
      BY <2>2, PosIs
    <3>3. Steps(h, z) = Pos(z, z) - Pos(z, h)
      <4>1. Pos(z, h) <= Pos(z, z)
        BY <3>2, TableIsLargeEnough, CapacityAssumption DEF Slot
      <4> QED
        BY <2>2, <4>1, StepsAlongLine
    <3>4. Pos(z, h) <= Pos(z, t)
      BY <2>1, <2>4, <3>1, <3>2, <3>3, TableIsLargeEnough, CapacityAssumption DEF Slot
    <3> QED
      BY <2>2, <3>4, StepsAlongLine
  <2>6. CASE t = s
    BY <2>3, <2>6 DEF t
  <2>7. CASE t # s
    <3>1. Pos(z, s) \in Slot /\ Pos(z, t) \in Slot /\ Pos(z, h) \in Slot /\ Pos(z, t) # Pos(z, s)
      BY <2>2, <2>7, PosIs
    <3>2. Pos(z, t) < Pos(z, s)
      BY <2>1, <2>4, <2>5, <3>1, TableIsLargeEnough, CapacityAssumption DEF Slot
    <3> QED
      BY <1>3, <2>2, <2>3, <2>5, <3>2 DEF LineReached, t
  <2> QED
    BY <2>6, <2>7
<1> QED
  BY <1>2, <1>3

(* can_move (lru_cache.cpp:130-136) asks whether the entry at next, whose  *)
(* home is ideal, has its home at the hole or before it.                   *)
LEMMA CanMoveIs ==
  ASSUME NEW z \in Slot, NEW ideal \in Slot, NEW hole \in Slot, NEW next \in Slot,
         Pos(z, ideal) <= Pos(z, next), Pos(z, hole) < Pos(z, next)
  PROVE  can_move(ideal, hole, next) <=> Pos(z, ideal) <= Pos(z, hole)
  BY CapacityAssumption, TableIsLargeEnough DEF Slot, Pos, can_move

(* The loop invariant of the backward shift: the table is dense but for    *)
(* the hole, which only entries that the loop has still to look at pass.   *)
PassesHoleOnly(nodes, s, z, u) ==
  /\ Pos(z, Home(nodes, s.table, u)) <= Pos(z, u)
  /\ \A t \in Slot :
       Pos(z, Home(nodes, s.table, u)) <= Pos(z, t) /\ Pos(z, t) < Pos(z, u)
         => s.table[t] # NIL \/ (t = s.hole /\ Pos(z, s.next) <= Pos(z, u))

Closing(nodes, z) ==
  {s \in ShiftState :
     /\ s.table[z] = NIL /\ s.table[s.hole] = NIL
     /\ Pos(z, s.hole) < Pos(z, s.next)
     /\ \A u \in Slot : s.table[u] # NIL => PassesHoleOnly(nodes, s, z, u)}

(* One iteration keeps the loop invariant and goes one slot further, or    *)
(* the loop has stopped.                                                   *)
LEMMA ShiftStepCloses ==
  ASSUME NEW c \in CacheType, NEW z \in Slot, NEW s \in Closing(c.nodes, z)
  PROVE  LET r == ShiftStep(c.nodes)[s]
         IN  /\ r \in Closing(c.nodes, z)
             /\ s.table[s.next] = NIL => r = s
             /\ s.table[s.next] # NIL => Pos(z, r.next) = Pos(z, s.next) + 1
<1> DEFINE nodes == c.nodes
           moved == s.table[s.next]
           T == [s.table EXCEPT ![s.hole] = moved, ![s.next] = NIL]
           r == ShiftStep(c.nodes)[s]
           home == Home(nodes, s.table, s.next)
<1>1. /\ s \in ShiftState /\ s.table \in Table /\ s.hole \in Slot /\ s.next \in Slot
      /\ s.table[z] = NIL /\ s.table[s.hole] = NIL
      /\ Pos(z, s.hole) < Pos(z, s.next)
      /\ \A u \in Slot : s.table[u] # NIL => PassesHoleOnly(nodes, s, z, u)
  BY DEF Closing, ShiftState, Table
<1>2. r \in ShiftState
  BY <1>1, ShiftStepType
<1>3. CASE moved = NIL
  BY <1>1, <1>3 DEF ShiftStep
<1>4. CASE moved # NIL
  <2>1. s.next # z /\ s.hole # s.next /\ home \in Slot /\ NextSlot(s.next) \in Slot
    <3>1. moved \in Node /\ nodes[moved].key \in Keys
      BY <1>1, <1>4 DEF Table, CacheType, NodeType
    <3> QED
      BY <1>1, <1>4, <3>1, NextSlotIs, DataAssumption DEF Home
  <2>2. PassesHoleOnly(nodes, s, z, s.next)
    BY <1>1, <1>4
  <2>3. can_move(Hash[nodes[moved].key], s.hole, s.next) <=> Pos(z, home) <= Pos(z, s.hole)
    <3>1. Pos(z, home) <= Pos(z, s.next) /\ home = Hash[nodes[moved].key]
      BY <2>2 DEF PassesHoleOnly, Home
    <3> HIDE DEF home
    <3> QED
      BY <1>1, <2>1, <3>1, CanMoveIs
  <2>4. /\ Pos(z, NextSlot(s.next)) = Pos(z, s.next) + 1
        /\ \A u \in Slot : Pos(z, u) \in Nat
        /\ \A u, t \in Slot : Pos(z, u) = Pos(z, t) => u = t
        /\ Pos(z, z) = TableSize - 1 /\ Pos(z, s.next) < TableSize - 1
    <3>1. \A u \in Slot : Pos(z, u) \in Nat
      BY PosIs, SlotsAreNumbers
    <3> QED
      BY <1>1, <2>1, <3>1, PosIs
  <2>5. CASE Pos(z, home) <= Pos(z, s.hole)
    <3>1. r = [table |-> T, hole |-> s.next, next |-> NextSlot(s.next)]
      BY <1>1, <1>4, <2>3, <2>5 DEF ShiftStep
    <3>2. \A t \in Slot : T[t] = IF t = s.next THEN NIL ELSE IF t = s.hole THEN moved ELSE s.table[t]
      BY <1>1 DEF Table
    <3>3. r.table = T /\ r.hole = s.next /\ r.next = NextSlot(s.next)
      BY <3>1
    <3> HIDE DEF T, r
    <3>4. s.hole # z
      BY <1>1, <2>1, <2>4
    <3>5. T[z] = NIL /\ T[s.next] = NIL
      BY <1>1, <2>1, <3>2, <3>4
    <3>6. ASSUME NEW u \in Slot, T[u] # NIL
          PROVE  PassesHoleOnly(nodes, r, z, u)
      <4>1. u # s.next
        BY <3>2, <3>6
      <4>2. CASE u = s.hole
        <5>1. T[u] = moved /\ Home(nodes, T, u) = home
          BY <1>1, <2>1, <3>2, <4>2 DEF Home
        <5>2. ASSUME NEW t \in Slot, Pos(z, home) <= Pos(z, t), Pos(z, t) < Pos(z, u)
              PROVE  T[t] # NIL
          <6>1. t # s.hole /\ t # s.next /\ Pos(z, t) < Pos(z, s.next)
            BY <1>1, <2>4, <4>2, <5>2
          <6>2. s.table[t] # NIL
            BY <2>2, <5>2, <6>1 DEF PassesHoleOnly
          <6> QED
            BY <3>2, <6>1, <6>2
        <5> HIDE DEF home
        <5> QED
          BY <2>5, <3>3, <4>2, <5>1, <5>2 DEF PassesHoleOnly
      <4>3. CASE u # s.hole
        <5>1. T[u] = s.table[u] /\ s.table[u] # NIL /\ Home(nodes, T, u) = Home(nodes, s.table, u)
          BY <3>2, <3>6, <4>1, <4>3 DEF Home
        <5>2. PassesHoleOnly(nodes, s, z, u)
          BY <1>1, <5>1
        <5>3. ASSUME NEW t \in Slot, Pos(z, Home(nodes, s.table, u)) <= Pos(z, t), Pos(z, t) < Pos(z, u)
              PROVE  T[t] # NIL \/ (t = s.next /\ Pos(z, NextSlot(s.next)) <= Pos(z, u))
          <6>1. CASE t = s.next
            BY <1>1, <2>4, <5>3, <6>1
          <6>2. CASE t = s.hole
            BY <1>4, <2>1, <3>2, <6>2
          <6>3. CASE t # s.next /\ t # s.hole
            BY <3>2, <5>2, <5>3, <6>3 DEF PassesHoleOnly
          <6> QED
            BY <6>1, <6>2, <6>3
        <5> QED
          BY <3>3, <5>1, <5>2, <5>3 DEF PassesHoleOnly
      <4> QED
        BY <4>2, <4>3
    <3>7. Pos(z, r.hole) < Pos(z, r.next) /\ Pos(z, r.next) = Pos(z, s.next) + 1
      BY <1>1, <2>4, <3>3
    <3>8. r.table[z] = NIL /\ r.table[r.hole] = NIL
      BY <3>3, <3>5
    <3>9. r \in ShiftState
      BY <1>2 DEF r
    <3>10. r \in Closing(nodes, z)
      BY <3>3, <3>6, <3>7, <3>8, <3>9 DEF Closing
    <3> QED
      BY <1>4, <3>7, <3>10 DEF r
  <2>6. CASE ~ Pos(z, home) <= Pos(z, s.hole)
    <3>1. r = [s EXCEPT !.next = NextSlot(s.next)]
      BY <1>1, <1>4, <2>3, <2>6 DEF ShiftStep
    <3>2. r.table = s.table /\ r.hole = s.hole /\ r.next = NextSlot(s.next)
      BY <1>1, <3>1 DEF ShiftState
    <3> HIDE DEF r
    <3>3. ASSUME NEW u \in Slot, s.table[u] # NIL
          PROVE  PassesHoleOnly(nodes, r, z, u)
      <4>1. PassesHoleOnly(nodes, s, z, u)
        BY <1>1, <3>3
      <4>2. ASSUME NEW t \in Slot, Pos(z, Home(nodes, s.table, u)) <= Pos(z, t), Pos(z, t) < Pos(z, u)
            PROVE  s.table[t] # NIL \/ (t = s.hole /\ Pos(z, NextSlot(s.next)) <= Pos(z, u))
        <5>1. s.table[t] # NIL \/ (t = s.hole /\ Pos(z, s.next) <= Pos(z, u))
          BY <4>1, <4>2 DEF PassesHoleOnly
        <5>2. CASE u = s.next
          <6>1. t # s.hole
            BY <2>6, <4>2, <5>2
          <6> QED
            BY <5>1, <6>1
        <5>3. CASE u # s.next
          BY <1>1, <2>4, <5>1, <5>3
        <5> QED
          BY <5>2, <5>3
      <4> QED
        BY <3>2, <4>1, <4>2 DEF PassesHoleOnly
    <3>4. Pos(z, r.hole) < Pos(z, r.next) /\ Pos(z, r.next) = Pos(z, s.next) + 1
      BY <1>1, <2>4, <3>2
    <3>5. r \in ShiftState
      BY <1>2 DEF r
    <3>6. r \in Closing(nodes, z)
      BY <1>1, <3>2, <3>3, <3>4, <3>5 DEF Closing
    <3> QED
      BY <1>4, <3>4, <3>6 DEF r
  <2> QED
    BY <2>5, <2>6
<1> QED
  BY <1>3, <1>4

(* The loop begins with its invariant: taking an entry out of a dense      *)
(* table opens one hole.                                                   *)
LEMMA ShiftStarts ==
  ASSUME NEW nodes \in [Node -> NodeType], NEW table \in Table, NEW z \in Slot, table[z] = NIL,
         LineReached(nodes, table, z), NEW slot \in Slot, table[slot] # NIL
  PROVE  LET s0 == [table |-> [table EXCEPT ![slot] = NIL], hole |-> slot, next |-> NextSlot(slot)]
         IN  s0 \in Closing(nodes, z) /\ Pos(z, s0.next) >= 1
<1> DEFINE T == [table EXCEPT ![slot] = NIL]
           s0 == [table |-> T, hole |-> slot, next |-> NextSlot(slot)]
<1>1. /\ slot # z /\ NextSlot(slot) \in Slot /\ T \in Table
      /\ \A t \in Slot : T[t] = IF t = slot THEN NIL ELSE table[t]
  BY NextSlotIs DEF Table
<1>2. /\ \A u \in Slot : Pos(z, u) \in Nat
      /\ \A u, t \in Slot : Pos(z, u) = Pos(z, t) => u = t
      /\ Pos(z, NextSlot(slot)) = Pos(z, slot) + 1
  <2>1. \A u \in Slot : Pos(z, u) \in Nat
    BY PosIs, SlotsAreNumbers
  <2> QED
    BY <1>1, <2>1, PosIs
<1> HIDE DEF T
<1>3. s0.table = T /\ s0.hole = slot /\ s0.next = NextSlot(slot) /\ s0 \in ShiftState
  BY <1>1 DEF ShiftState, Table
<1> HIDE DEF s0
<1>4. ASSUME NEW u \in Slot, T[u] # NIL
      PROVE  PassesHoleOnly(nodes, s0, z, u)
  <2>1. u # slot /\ table[u] # NIL /\ Home(nodes, T, u) = Home(nodes, table, u)
    BY <1>1, <1>4 DEF Home
  <2>2. /\ Pos(z, Home(nodes, table, u)) <= Pos(z, u)
        /\ \A t \in Slot : Pos(z, Home(nodes, table, u)) <= Pos(z, t) /\ Pos(z, t) < Pos(z, u)
                           => table[t] # NIL
    BY <2>1 DEF LineReached
  <2>3. ASSUME NEW t \in Slot, Pos(z, Home(nodes, table, u)) <= Pos(z, t), Pos(z, t) < Pos(z, u)
        PROVE  T[t] # NIL \/ (t = slot /\ Pos(z, NextSlot(slot)) <= Pos(z, u))
    <3>1. CASE t = slot
      BY <1>2, <2>3, <3>1
    <3>2. CASE t # slot
      BY <1>1, <2>2, <2>3, <3>2
    <3> QED
      BY <3>1, <3>2
  <2> QED
    BY <1>3, <2>1, <2>2, <2>3 DEF PassesHoleOnly
<1>5. s0.table[z] = NIL /\ s0.table[s0.hole] = NIL
  BY <1>1, <1>3
<1>6. Pos(z, s0.hole) < Pos(z, s0.next) /\ Pos(z, s0.next) >= 1
  BY <1>2, <1>3
<1>7. s0 \in Closing(nodes, z)
  BY <1>3, <1>4, <1>5, <1>6 DEF Closing
<1> QED
  BY <1>6, <1>7 DEF s0, T

(* The loop ends with a dense table: it stops at an empty slot, and no     *)
(* entry behind that slot can have its home before it.                     *)
LEMMA ShiftEnds ==
  ASSUME NEW nodes \in [Node -> NodeType], NEW z \in Slot, NEW s \in Closing(nodes, z),
         s.table[s.next] = NIL
  PROVE  LineReached(nodes, s.table, z)
<1>1. /\ s.hole \in Slot /\ s.next \in Slot /\ Pos(z, s.hole) < Pos(z, s.next)
      /\ \A u \in Slot : s.table[u] # NIL => PassesHoleOnly(nodes, s, z, u)
      /\ s.table \in Table
  BY DEF Closing, ShiftState, Table
<1> SUFFICES ASSUME NEW u \in Slot, s.table[u] # NIL
             PROVE  /\ Pos(z, Home(nodes, s.table, u)) <= Pos(z, u)
                    /\ \A t \in Slot : Pos(z, Home(nodes, s.table, u)) <= Pos(z, t) /\ Pos(z, t) < Pos(z, u)
                                       => s.table[t] # NIL
  BY DEF LineReached
<1> DEFINE home == Pos(z, Home(nodes, s.table, u))
<1>2. /\ home <= Pos(z, u)
      /\ \A t \in Slot : home <= Pos(z, t) /\ Pos(z, t) < Pos(z, u)
            => s.table[t] # NIL \/ (t = s.hole /\ Pos(z, s.next) <= Pos(z, u))
  BY <1>1 DEF PassesHoleOnly
<1>3. /\ \A t \in Slot : Pos(z, t) \in Int
      /\ \A t, v \in Slot : Pos(z, t) = Pos(z, v) => t = v
  <2>1. \A t \in Slot : Pos(z, t) \in Int
    BY PosIs, SlotsAreNumbers
  <2> QED
    BY <2>1, PosIs
<1>a. home \in Int
  <2>1. s.table[u] \in Node
    BY <1>1 DEF Table
  <2>2. nodes[s.table[u]].key \in Keys
    BY <2>1 DEF NodeType
  <2> QED
    BY <1>3, <2>2, DataAssumption DEF Home
<1> HIDE DEF home
<1>4. ASSUME home <= Pos(z, s.hole)
      PROVE  ~ Pos(z, s.next) <= Pos(z, u)
  <2> SUFFICES ASSUME Pos(z, s.next) <= Pos(z, u)
               PROVE  FALSE
    OBVIOUS
  <2>1. s.next # u /\ s.next # s.hole
    BY <1>1, <1>3
  <2>2. Pos(z, s.next) < Pos(z, u)
    BY <1>1, <1>3, <2>1
  <2>3. home <= Pos(z, s.next)
    BY <1>1, <1>3, <1>4, <1>a
  <2> QED
    BY <1>1, <1>2, <2>1, <2>2, <2>3
<1> QED
  BY <1>1, <1>2, <1>4 DEF home

(* Erasing a slot of a dense table leaves a dense table: the loop takes at *)
(* most one step for every slot after the hole, so that it has stopped     *)
(* when the table has been gone through (lru_cache.cpp:125-145, 160-178).  *)
LEMMA EraseSlotReached ==
  ASSUME NEW c \in CacheType, OneSlotEach(c), Reached(c.nodes, c.hash_table),
         NEW slot \in Slot, c.hash_table[slot] # NIL
  PROVE  Reached(c.nodes, EraseSlot(c, slot).hash_table)
<1> DEFINE nodes == c.nodes
           F == ShiftStep(nodes)
           s0 == [table |-> [c.hash_table EXCEPT ![slot] = NIL], hole |-> slot, next |-> NextSlot(slot)]
<1>1. PICK z \in Slot : c.hash_table[z] = NIL
  BY EmptySlotExists
<1>2. nodes \in [Node -> NodeType] /\ c.hash_table \in Table
  BY DEF CacheType, Table
<1>3. s0 \in Closing(nodes, z) /\ Pos(z, s0.next) >= 1
  <2>1. LineReached(nodes, c.hash_table, z)
    BY <1>1, <1>2, ReachedAlongLine
  <2> DEFINE table == c.hash_table
  <2> HIDE DEF table, nodes
  <2>2. table \in Table /\ table[z] = NIL /\ LineReached(nodes, table, z) /\ table[slot] # NIL
    BY <1>1, <1>2, <2>1 DEF table
  <2> HIDE DEF s0
  <2>3. LET r == [table |-> [table EXCEPT ![slot] = NIL], hole |-> slot, next |-> NextSlot(slot)]
        IN  r \in Closing(nodes, z) /\ Pos(z, r.next) >= 1
    BY <1>2, <2>2, ShiftStarts
  <2> QED
    BY <2>3 DEF s0, table
<1>4. PICK run : /\ run = [i \in Nat |-> IF i = 0 THEN s0 ELSE F[run[i - 1]]]
                 /\ EraseSlot(c, slot) = [c EXCEPT !.hash_table = run[TableSize].table]
  BY EraseSlotLoop
<1>5. \A s \in Closing(nodes, z) :
        /\ F[s] \in Closing(nodes, z)
        /\ s.table[s.next] = NIL => F[s] = s
        /\ s.table[s.next] # NIL => Pos(z, F[s].next) = Pos(z, s.next) + 1
  BY ShiftStepCloses
<1> HIDE DEF s0, F
<1> DEFINE J == Closing(nodes, z)
           Done(s) == s.table[s.next] = NIL
           P == {i \in Nat : run[i] \in J /\ (Done(run[i]) \/ Pos(z, run[i].next) >= i + 1)}
<1>6. \A i \in Nat : i \in P
  <2>1. 0 \in P
    BY <1>3, <1>4
  <2>2. ASSUME NEW i \in Nat, i \in P
        PROVE  i + 1 \in P
    <3>1. run[i + 1] = F[run[i]]
      <4>1. i + 1 \in Nat /\ i + 1 # 0 /\ (i + 1) - 1 = i
        OBVIOUS
      <4>2. run[i + 1] = F[run[(i + 1) - 1]]
        BY <1>4, <4>1
      <4> QED
        BY <4>1, <4>2
    <3>2. run[i] \in J
      BY <2>2
    <3>3. run[i + 1] \in J
      BY <1>5, <3>1, <3>2
    <3>4. CASE Done(run[i])
      BY <1>5, <3>1, <3>2, <3>3, <3>4
    <3>5. CASE ~ Done(run[i])
      <4>1. Pos(z, run[i].next) >= i + 1 /\ run[i].next \in Slot
        BY <2>2, <3>5 DEF Closing, ShiftState
      <4>2. Pos(z, run[i].next) \in Int
        BY <4>1, PosIs, SlotsAreNumbers
      <4>3. Pos(z, run[i + 1].next) = Pos(z, run[i].next) + 1
        BY <1>5, <3>1, <3>2, <3>5
      <4>4. Pos(z, run[i + 1].next) >= (i + 1) + 1
        BY <4>1, <4>2, <4>3
      <4> QED
        BY <3>3, <4>4
    <3> QED
      BY <3>4, <3>5
  <2> HIDE DEF P
  <2> QED
    BY <2>1, <2>2, SetInduction
<1>7. TableSize \in Nat
  BY TableIsLargeEnough
<1> DEFINE e == run[TableSize]
<1>8. e \in J /\ (Done(e) \/ Pos(z, e.next) >= TableSize + 1)
  BY <1>6, <1>7
<1> HIDE DEF e
<1>9. Done(e)
  <2>1. e.next \in Slot
    BY <1>8 DEF Closing, ShiftState
  <2>2. Pos(z, e.next) \in Slot
    BY <2>1, PosIs
  <2>3. ~ Pos(z, e.next) >= TableSize + 1
    BY <1>7, <2>2 DEF Slot
  <2> QED
    BY <1>8, <2>3
<1>10. LineReached(nodes, e.table, z)
  <2> HIDE DEF nodes
  <2> QED
    BY <1>2, <1>8, <1>9, ShiftEnds
<1>11. e.table \in Table /\ e.table[z] = NIL
  BY <1>8 DEF Closing, ShiftState, Table
<1>12. Reached(nodes, e.table)
  BY <1>2, <1>10, <1>11, ReachedAlongLine
<1>13. EraseSlot(c, slot).hash_table = e.table
  BY <1>4 DEF e, CacheType
<1> QED
  BY <1>12, <1>13

(* A key that find_node does not find is not stored in a dense table       *)
(* (lru_cache.cpp:43-55).                                                  *)
LEMMA AbsentKey ==
  ASSUME NEW c \in CacheType, OneSlotEach(c), Reached(c.nodes, c.hash_table), NEW key \in Keys,
         c.hash_table[KeySlot(c, key)] = NIL
  PROVE  /\ \A n \in Live(c) : c.nodes[n].key # key
         /\ FirstEmpty(c.hash_table, key, KeySlot(c, key))
<1>1. PICK d \in Slot : /\ KeySlot(c, key) = Probe(key, d)
                        /\ StopsAt(c, key, Probe(key, d))
                        /\ \A e \in 0 .. d - 1 : ~ StopsAt(c, key, Probe(key, e))
  BY KeySlotFirst
<1>2. ASSUME NEW s \in Slot, c.hash_table[s] # NIL, c.nodes[c.hash_table[s]].key = key
      PROVE  FALSE
  <2> DEFINE f == Steps(Hash[key], s)
  <2>1. f \in Slot /\ Probe(key, f) = s
    BY StepsIs
  <2> HIDE DEF f
  <2>2. ~ f < d
    <3>1. StopsAt(c, key, Probe(key, f))
      BY <1>2, <2>1 DEF StopsAt
    <3>2. f < d => f \in 0 .. d - 1
      BY <2>1 DEF Slot
    <3> QED
      BY <1>1, <3>1, <3>2
  <2>3. d \in 0 .. f
    BY <2>1, <2>2 DEF Slot
  <2>4. c.hash_table[Probe(key, d)] # NIL
    BY <1>2, <2>1, <2>3 DEF Reached
  <2> QED
    BY <1>1, <2>4
<1>3. \A n \in Live(c) : c.nodes[n].key # key
  BY <1>2 DEF Live
<1>4. FirstEmpty(c.hash_table, key, KeySlot(c, key))
  BY <1>1 DEF FirstEmpty, StopsAt
<1> QED
  BY <1>3, <1>4

(* Entering a node at the first empty slot of its key's probe sequence     *)
(* keeps the table dense (lru_cache.cpp:62-96).                            *)
LEMMA EnterReached ==
  ASSUME NEW nodes, NEW table \in Table, Reached(nodes, table),
         NEW slot \in Slot, NEW key \in Keys, FirstEmpty(table, key, slot),
         NEW n \in Node, NEW after, after[n].key = key,
         \A s \in Slot : table[s] # NIL => table[s] # n /\ after[table[s]].key = nodes[table[s]].key
  PROVE  Reached(after, [table EXCEPT ![slot] = n])
<1> DEFINE T == [table EXCEPT ![slot] = n]
<1>1. /\ \A s \in Slot : T[s] = IF s = slot THEN n ELSE table[s]
      /\ n # NIL
  BY CapacityAssumption DEF Table, Node, NIL
<1> HIDE DEF T
<1> SUFFICES ASSUME NEW k \in Keys, NEW d \in Slot,
                    T[Probe(k, d)] # NIL, after[T[Probe(k, d)]].key = k,
                    NEW e \in 0 .. d
             PROVE  T[Probe(k, e)] # NIL
  BY DEF Reached, T
<1>2. e \in Slot /\ Probe(k, e) \in Slot /\ Probe(k, d) \in Slot
  <2>1. e \in Slot
    BY TableIsLargeEnough, CapacityAssumption DEF Slot
  <2> QED
    BY <2>1, ProbeIs
<1>3. CASE Probe(k, d) = slot
  <2>1. k = key
    BY <1>1, <1>2, <1>3
  <2>2. PICK f \in Slot : slot = Probe(key, f) /\ \A g \in 0 .. f - 1 : table[Probe(key, g)] # NIL
    BY DEF FirstEmpty
  <2>3. d = f
    BY <1>3, <2>1, <2>2, StepsIs
  <2>4. CASE e = d
    BY <1>1, <1>2, <1>3, <2>4
  <2>5. CASE e # d
    <3>1. e \in 0 .. f - 1
      BY <2>3, <2>5 DEF Slot
    <3> QED
      BY <1>1, <1>2, <2>1, <2>2, <3>1
  <2> QED
    BY <2>4, <2>5
<1>4. CASE Probe(k, d) # slot
  <2>1. table[Probe(k, d)] # NIL /\ nodes[table[Probe(k, d)]].key = k
    BY <1>1, <1>2, <1>4
  <2>2. table[Probe(k, e)] # NIL
    BY <2>1 DEF Reached
  <2> QED
    BY <1>1, <1>2, <2>2
<1> QED
  BY <1>3, <1>4

-----------------------------------------------------------------------------
(* The structure of an object between two calls.                           *)

Struct(c) == c \in CacheType /\ PartitionOf(c) /\ OneSlotEach(c)

(* lru is the LRU list of c, and the table points to its nodes.            *)
ListOf(c, lru) == Live(c) = Image(lru) /\ \E free : PoolOf(c, lru, free, c.size)

SameKeys(c, d)   == \A m \in Node : d.nodes[m].key = c.nodes[m].key
SameValues(c, d) == \A m \in Node : d.nodes[m].value = c.nodes[m].value

(* PartitionOf in terms of PoolOf.                                         *)
LEMMA PartitionIs ==
  ASSUME NEW c \in CacheType
  PROVE  PartitionOf(c) <=> \E lru : ListOf(c, lru)
<1>1. c.size \in 0 .. Capacity
  BY DEF CacheType
<1> QED
  BY <1>1 DEF PartitionOf, PoolOf, ListOf

(* The LRU list is a sequence of the nodes of the table, without repeats.  *)
LEMMA ListIs ==
  ASSUME NEW c \in CacheType, NEW lru, ListOf(c, lru)
  PROVE  /\ c.size \in Nat /\ c.size \in 0 .. Capacity
         /\ lru \in [1 .. c.size -> Node] /\ DOMAIN lru = 1 .. c.size
         /\ Distinct(lru) /\ IsLruList(c, lru, c.size)
         /\ \A n \in Live(c) : n \in Node /\ \E k \in 1 .. c.size : n = lru[k]
         /\ \A k \in 1 .. c.size : lru[k] \in Live(c)
<1>1. /\ c.size \in 0 .. Capacity /\ c.size \in Nat
      /\ lru \in [1 .. c.size -> Node] /\ Distinct(lru) /\ IsLruList(c, lru, c.size)
  BY DEF ListOf, PoolOf, CacheType
<1>2. DOMAIN lru = 1 .. c.size
  BY <1>1
<1>3. Live(c) = {lru[k] : k \in 1 .. c.size}
  BY <1>2 DEF ListOf, Image
<1> QED
  BY <1>1, <1>2, <1>3

(* The structure does not depend on keys, values and counters.             *)
LEMMA StructKept ==
  ASSUME NEW c, Struct(c), NEW d \in CacheType,
         d.head = c.head, d.tail = c.tail, d.free_head = c.free_head, d.size = c.size,
         d.hash_table = c.hash_table,
         \A m \in Node : d.nodes[m].next = c.nodes[m].next /\ d.nodes[m].prev = c.nodes[m].prev
  PROVE  Struct(d) /\ Live(d) = Live(c) /\ \A lru : ListOf(c, lru) => ListOf(d, lru)
<1>1. c \in CacheType
  BY DEF Struct
<1>2. Live(d) = Live(c) /\ OneSlotEach(d)
  BY DEF Live, OneSlotEach, Struct
<1>3. ASSUME NEW lru, ListOf(c, lru)
      PROVE  ListOf(d, lru)
  <2>1. PICK free : PoolOf(c, lru, free, c.size)
    BY <1>3 DEF ListOf
  <2>2. PoolOf(d, lru, free, c.size)
    BY <2>1, PoolKept
  <2>3. PoolOf(d, lru, free, d.size)
    BY <2>2
  <2> QED
    BY <1>2, <1>3, <2>3 DEF ListOf
<1>4. \E lru : ListOf(c, lru)
  BY <1>1, PartitionIs DEF Struct
<1>5. PartitionOf(d)
  BY <1>3, <1>4, PartitionIs
<1> QED
  BY <1>2, <1>3, <1>5 DEF Struct

(* Density is a matter of the table and the keys alone.                    *)
LEMMA ReachedKept ==
  ASSUME NEW c \in CacheType, NEW d \in CacheType, SameKeys(c, d), d.hash_table = c.hash_table,
         Reached(c.nodes, c.hash_table)
  PROVE  Reached(d.nodes, d.hash_table)
<1> DEFINE table == c.hash_table
<1>1. \A k \in Keys, e \in Slot : table[Probe(k, e)] # NIL => table[Probe(k, e)] \in Node
  BY ProbeIs DEF CacheType
<1> HIDE DEF table
<1>2. Reached(d.nodes, table)
  <2> SUFFICES ASSUME NEW k \in Keys, NEW e \in Slot,
                      table[Probe(k, e)] # NIL, d.nodes[table[Probe(k, e)]].key = k
               PROVE  \A f \in 0 .. e : table[Probe(k, f)] # NIL
    BY DEF Reached
  <2>1. c.nodes[table[Probe(k, e)]].key = k
    BY <1>1 DEF SameKeys
  <2> QED
    BY <2>1 DEF Reached, table
<1> QED
  BY <1>2 DEF table

-----------------------------------------------------------------------------
(* What the member functions do to the structure and to the LRU list.      *)

(* d is c with the k-th node of its LRU list moved to the front.           *)
Promoted(c, d, lru, k) ==
  /\ Struct(d) /\ d.size = c.size /\ d.hash_table = c.hash_table /\ Live(d) = Live(c)
  /\ SameKeys(c, d) /\ ListOf(d, ToFront(lru, c.size, k))

(* promote keeps the structure.                                            *)
LEMMA PromoteStruct ==
  ASSUME NEW c, Struct(c), NEW lru, ListOf(c, lru), NEW k \in 1 .. c.size
  PROVE  LET d == promote(c, lru[k])
         IN  Promoted(c, d, lru, k) /\ SameValues(c, d) /\ SameCounters(c, d)
<1> DEFINE d == promote(c, lru[k])
           after == ToFront(lru, c.size, k)
<1>1. c \in CacheType /\ OneSlotEach(c)
  BY DEF Struct
<1>2. PICK free : PoolOf(c, lru, free, c.size) /\ Live(c) = Image(lru)
  BY DEF ListOf
<1>3. /\ d \in CacheType /\ d.size = c.size /\ Kept(c, d) /\ SameCounters(c, d)
      /\ PoolOf(d, after, free, c.size) /\ Image(after) = Image(lru)
  BY <1>1, <1>2, PromotePool
<1> HIDE DEF d, after
<1>4. Live(d) = Live(c) /\ OneSlotEach(d) /\ d.hash_table = c.hash_table
  BY <1>1, <1>3 DEF Live, OneSlotEach, Kept
<1>5. PoolOf(d, after, free, d.size)
  BY <1>3
<1>6. ListOf(d, after)
  BY <1>2, <1>3, <1>4, <1>5 DEF ListOf
<1>7. Struct(d)
  BY <1>3, <1>4, <1>6, PartitionIs DEF Struct
<1>8. SameKeys(c, d) /\ SameValues(c, d)
  BY <1>3 DEF Kept, SameKeys, SameValues
<1>9. Promoted(c, d, lru, k)
  BY <1>3, <1>4, <1>6, <1>7, <1>8 DEF Promoted, after
<1> QED
  BY <1>3, <1>8, <1>9 DEF d

(* d is c without the k-th node of its LRU list, which is the first free   *)
(* node.                                                                   *)
Dropped(c, d, lru, k) ==
  /\ Struct(d) /\ d.size = c.size - 1 /\ Live(d) = Live(c) \ {lru[k]}
  /\ SameKeys(c, d) /\ SameValues(c, d) /\ d.hits = c.hits /\ d.misses = c.misses
  /\ d.free_head = lru[k] /\ ListOf(d, Without(lru, c.size, k))

(* The order of the two halves of a removal does not matter to the pool:   *)
(* eviction erases the slot first, remove erases it last.                  *)
LEMMA DropStruct ==
  ASSUME NEW c \in CacheType, NEW lru, ListOf(c, lru), NEW k \in 1 .. c.size,
         NEW d \in CacheType, OneSlotEach(d), Live(d) = Live(c) \ {lru[k]},
         NEW b, b.nodes = c.nodes, b.size = c.size, b.hits = c.hits, b.misses = c.misses,
         NEW r, Released(b, r, lru, k),
         d.nodes = r.nodes, d.head = r.head, d.tail = r.tail, d.free_head = r.free_head,
         d.size = r.size, d.hits = r.hits, d.misses = r.misses
  PROVE  Dropped(c, d, lru, k)
<1> DEFINE after == Without(lru, c.size, k)
<1>1. /\ r \in CacheType /\ r.size = c.size - 1 /\ Kept(b, r) /\ SameCounters(b, r)
      /\ r.free_head = lru[k] /\ Image(after) = Image(lru) \ {lru[k]}
  BY DEF Released
<1>2. PICK rest : PoolOf(r, after, rest, r.size)
  BY DEF Released
<1> HIDE DEF after
<1>3. PoolOf(d, after, rest, r.size)
  BY <1>2, PoolKept
<1>4. PoolOf(d, after, rest, d.size)
  BY <1>3
<1>5. ListOf(d, after)
  BY <1>1, <1>4 DEF ListOf
<1>6. Struct(d)
  BY <1>5, PartitionIs DEF Struct
<1>7. SameKeys(c, d) /\ SameValues(c, d) /\ d.hits = c.hits /\ d.misses = c.misses
  BY <1>1 DEF Kept, SameKeys, SameValues, SameCounters
<1> QED
  BY <1>1, <1>5, <1>6, <1>7 DEF Dropped, after

(* evict_lru keeps the structure and removes the tail of the LRU list      *)
(* (lru_cache.cpp:152-188).                                                *)
LEMMA EvictStruct ==
  ASSUME NEW c, Struct(c), c.size # 0, NEW lru, ListOf(c, lru)
  PROVE  LET d == evict_lru(c)
         IN  /\ Dropped(c, d, lru, c.size) /\ d.evictions = Increment(c.evictions)
             /\ c.tail = lru[c.size]
             /\ \E slot \in Slot : /\ c.hash_table[slot] = c.tail /\ c.hash_table[slot] # NIL
                                   /\ d.hash_table = EraseSlot(c, slot).hash_table
<1> DEFINE n == c.tail
           slot == NodeSlot(c, n)
           e == EraseSlot(c, slot)
           r == free_node(unlink_node(e, n), n)
           d == [r EXCEPT !.evictions = Increment(r.evictions)]
<1>1. c \in CacheType /\ OneSlotEach(c)
  BY DEF Struct
<1>2. PICK free : PoolOf(c, lru, free, c.size) /\ Live(c) = Image(lru)
  BY DEF ListOf
<1>3. c.size \in 1 .. c.size /\ n = lru[c.size] /\ n \in Live(c)
  <2>1. c.size \in Nat /\ IsLruList(c, lru, c.size) /\ \A k \in 1 .. c.size : lru[k] \in Live(c)
    BY <1>1, ListIs
  <2>2. c.size \in 1 .. c.size
    BY <2>1
  <2> QED
    BY <2>1, <2>2 DEF IsLruList
<1>4. slot \in Slot /\ c.hash_table[slot] = n
  BY <1>1, <1>3, NodeSlotIs
<1>5. n # NIL
  BY <1>3 DEF Live
<1> HIDE DEF n, slot
<1>6. /\ e \in CacheType /\ OneSlotEach(e) /\ Live(e) = Live(c) \ {n}
      /\ e.nodes = c.nodes /\ e.head = c.head /\ e.tail = c.tail
      /\ e.free_head = c.free_head /\ e.size = c.size
      /\ e.hits = c.hits /\ e.misses = c.misses /\ e.evictions = c.evictions
  BY <1>1, <1>4, <1>5, EraseSlotFields
<1>a. e.hash_table = EraseSlot(c, slot).hash_table
  OBVIOUS
<1> HIDE DEF e
<1>7. PoolOf(e, lru, free, e.size)
  <2>1. PoolOf(e, lru, free, c.size)
    BY <1>2, <1>6, PoolKept
  <2> QED
    BY <1>6, <2>1
<1>8. Released(e, r, lru, c.size)
  <2>1. c.size \in 1 .. e.size
    BY <1>3, <1>6
  <2>2. Released(e, free_node(unlink_node(e, lru[c.size]), lru[c.size]), lru, c.size)
    BY <1>6, <1>7, <2>1, ReleasePool
  <2> QED
    BY <1>3, <2>2
<1> HIDE DEF r
<1>9. /\ r \in CacheType /\ OneSlotEach(r) /\ Live(r) = Live(e) /\ r.hash_table = e.hash_table
      /\ r.evictions = c.evictions
  BY <1>6, <1>8 DEF Released, Kept, SameCounters, OneSlotEach, Live
<1>10. Increment(r.evictions) \in Counter
  <2>1. r.evictions \in 0 .. SizeMod - 1
    BY <1>9 DEF CacheType, Counter
  <2> QED
    BY <2>1, DataAssumption DEF Increment, Counter
<1>11. /\ d \in CacheType /\ d.nodes = r.nodes /\ d.head = r.head /\ d.tail = r.tail
       /\ d.free_head = r.free_head /\ d.size = r.size /\ d.hash_table = r.hash_table
       /\ d.hits = r.hits /\ d.misses = r.misses /\ d.evictions = Increment(r.evictions)
  BY <1>9, <1>10 DEF CacheType
<1>12. evict_lru(c) = d
  BY DEF evict_lru, r, e, n, slot
<1> HIDE DEF d
<1>13. OneSlotEach(d) /\ Live(d) = Live(c) \ {lru[c.size]}
  BY <1>3, <1>6, <1>9, <1>11 DEF OneSlotEach, Live
<1>14. Dropped(c, d, lru, c.size)
  BY <1>1, <1>3, <1>6, <1>8, <1>11, <1>13, DropStruct
<1>15. d.evictions = Increment(c.evictions) /\ d.hash_table = EraseSlot(c, slot).hash_table
  BY <1>9, <1>11, <1>a
<1> QED
  BY <1>3, <1>4, <1>5, <1>12, <1>14, <1>15 DEF n

(* An insertion at an empty slot keeps the structure (lru_cache.cpp:89-97).*)
LEMMA InsertStruct ==
  ASSUME NEW c, Struct(c), c.size < Capacity, NEW lru, ListOf(c, lru),
         NEW slot \in Slot, c.hash_table[slot] = NIL, NEW key \in Keys, NEW value \in Values
  PROVE  LET d == InsertAt(c, slot, key, value)
         IN  /\ Inserted(c, d, lru, c.free_head, slot, key, value)
             /\ Struct(d) /\ c.free_head \notin Live(c) /\ Live(d) = Live(c) \cup {c.free_head}
             /\ ListOf(d, Prepend(lru, c.size, c.free_head)) /\ d.head = c.free_head
<1> DEFINE n == c.free_head
           d == InsertAt(c, slot, key, value)
           after == Prepend(lru, c.size, n)
<1>1. c \in CacheType /\ OneSlotEach(c) /\ c.size \in Nat
  BY DEF Struct, CacheType
<1>2. PICK free : PoolOf(c, lru, free, c.size) /\ Live(c) = Image(lru)
  BY DEF ListOf
<1>b. Inserted(c, d, lru, n, slot, key, value)
  BY <1>1, <1>2, InsertPool
<1>c. 1 \in 1 .. c.size + 1 /\ after[1] = n
  BY <1>1 DEF Prepend
<1> HIDE DEF d, n, after
<1>3. /\ d \in CacheType /\ d.size = c.size + 1
      /\ n \in Node \ Image(lru)
      /\ d.hash_table = [c.hash_table EXCEPT ![slot] = n]
      /\ Image(after) = Image(lru) \cup {n}
  BY <1>b DEF Inserted, after
<1>a. PICK rest : PoolOf(d, after, rest, d.size)
  BY <1>b DEF Inserted, after
<1>4. /\ \A s \in Slot : d.hash_table[s] = IF s = slot THEN n ELSE c.hash_table[s]
      /\ n # NIL /\ n \notin Live(c)
  BY <1>1, <1>2, <1>3, NILIs DEF CacheType
<1>5. OneSlotEach(d)
  BY <1>1, <1>4 DEF OneSlotEach, Live
<1>6. Live(d) = Live(c) \cup {n}
  BY <1>4 DEF Live
<1>7. ListOf(d, after)
  BY <1>2, <1>3, <1>6, <1>a DEF ListOf
<1>8. Struct(d)
  BY <1>3, <1>5, <1>7, PartitionIs DEF Struct
<1>9. d.head = n
  <2>1. IsLruList(d, after, d.size) /\ d.size # 0
    BY <1>1, <1>3, <1>7, ListIs
  <2> QED
    BY <1>c, <2>1 DEF IsLruList
<1> QED
  BY <1>4, <1>6, <1>7, <1>8, <1>9, <1>b DEF n, d, after

-----------------------------------------------------------------------------
(* What the public member functions do.                                    *)

(* find_node finds a node of the table that holds the key, or NIL          *)
(* (lru_cache.cpp:43-55).                                                  *)
LEMMA FindNodeIs ==
  ASSUME NEW c, Struct(c), NEW key \in Keys
  PROVE  /\ find_node(c, key) \in Live(c) \cup {NIL} /\ find_node(c, key) \in Node \cup {NIL}
         /\ find_node(c, key) # NIL => /\ find_node(c, key) \in Live(c) /\ find_node(c, key) \in Node
                                       /\ c.nodes[find_node(c, key)].key = key
<1>1. /\ KeySlot(c, key) \in Slot /\ c \in CacheType
      /\ c.hash_table[KeySlot(c, key)] = NIL \/ c.nodes[c.hash_table[KeySlot(c, key)]].key = key
  BY KeySlotIs DEF Struct
<1> QED
  BY <1>1 DEF find_node, Live, CacheType

(* put of a stored key writes the value and promotes the node              *)
(* (lru_cache.cpp:65-72).                                                  *)
LEMMA PutHit ==
  ASSUME NEW c, Struct(c), NEW lru, ListOf(c, lru), NEW key \in Keys, NEW value \in Values,
         NEW k \in 1 .. c.size, find_node(c, key) = lru[k]
  PROVE  LET d == put(c, key, value)
         IN  /\ Promoted(c, d, lru, k) /\ SameCounters(c, d)
             /\ \A m \in Node : d.nodes[m].value = IF m = lru[k] THEN value ELSE c.nodes[m].value
<1>1. c \in CacheType
  BY DEF Struct
<1>2. PICK n : n = lru[k]
  OBVIOUS
<1>3. n \in Live(c) /\ n \in Node /\ n # NIL
  <2>1. lru[k] \in Live(c) /\ lru[k] \in Node
    BY <1>1, ListIs
  <2> QED
    BY <1>2, <2>1 DEF Live
<1> DEFINE M == [c.nodes EXCEPT ![n].value = value]
           w == [c EXCEPT !.nodes[n].value = value]
           d == promote(w, n)
<1>4. put(c, key, value) = d
  BY <1>2, <1>3 DEF put, find_node
<1>5. /\ M \in [Node -> NodeType]
      /\ \A m \in Node : /\ M[m].next = c.nodes[m].next /\ M[m].prev = c.nodes[m].prev
                          /\ M[m].key = c.nodes[m].key
                          /\ M[m].value = IF m = n THEN value ELSE c.nodes[m].value
  BY <1>1, <1>3 DEF CacheType, NodeType
<1>6. w = [c EXCEPT !.nodes = M]
  BY <1>1 DEF CacheType
<1> HIDE DEF M, w
<1>7. /\ w \in CacheType /\ w.nodes = M /\ w.head = c.head /\ w.tail = c.tail
      /\ w.free_head = c.free_head /\ w.size = c.size /\ w.hash_table = c.hash_table
      /\ w.hits = c.hits /\ w.misses = c.misses /\ w.evictions = c.evictions
  BY <1>1, <1>5, <1>6 DEF CacheType
<1>8. Struct(w) /\ ListOf(w, lru) /\ Live(w) = Live(c)
  BY <1>5, <1>7, StructKept
<1>9. Promoted(w, d, lru, k) /\ SameValues(w, d) /\ SameCounters(w, d)
  BY <1>2, <1>7, <1>8, PromoteStruct
<1> HIDE DEF d
<1>10. Promoted(c, d, lru, k)
  BY <1>5, <1>7, <1>8, <1>9 DEF Promoted, SameKeys
<1>11. SameCounters(c, d)
  BY <1>7, <1>9 DEF SameCounters
<1>12. \A m \in Node : d.nodes[m].value = IF m = n THEN value ELSE c.nodes[m].value
  BY <1>5, <1>7, <1>9 DEF SameValues
<1> QED
  BY <1>2, <1>4, <1>10, <1>11, <1>12

(* get of a stored key promotes its node and returns its value             *)
(* (lru_cache.cpp:99-109).                                                 *)
LEMMA GetHit ==
  ASSUME NEW c, Struct(c), NEW lru, ListOf(c, lru), NEW key \in Keys,
         NEW k \in 1 .. c.size, find_node(c, key) = lru[k]
  PROVE  LET d == get(c, key)
         IN  /\ Promoted(c, d, lru, k) /\ SameValues(c, d)
             /\ d.hits = Increment(c.hits) /\ d.misses = c.misses /\ d.evictions = c.evictions
             /\ get_result(c, key) = [found |-> TRUE, value |-> c.nodes[lru[k]].value]
<1>1. c \in CacheType
  BY DEF Struct
<1>2. PICK n : n = lru[k]
  OBVIOUS
<1>3. n \in Node /\ n # NIL
  <2>1. lru[k] \in Live(c) /\ lru[k] \in Node
    BY <1>1, ListIs
  <2> QED
    BY <1>2, <2>1 DEF Live
<1> DEFINE h == [c EXCEPT !.hits = Increment(c.hits)]
           d == promote(h, n)
<1>4. get(c, key) = d /\ get_result(c, key) = [found |-> TRUE, value |-> d.nodes[n].value]
  BY <1>2, <1>3 DEF get, get_result
<1>5. Increment(c.hits) \in Counter
  <2>1. c.hits \in 0 .. SizeMod - 1
    BY <1>1 DEF CacheType, Counter
  <2> QED
    BY <2>1, DataAssumption DEF Increment, Counter
<1>6. /\ h \in CacheType /\ h.nodes = c.nodes /\ h.head = c.head /\ h.tail = c.tail
      /\ h.free_head = c.free_head /\ h.size = c.size /\ h.hash_table = c.hash_table
      /\ h.hits = Increment(c.hits) /\ h.misses = c.misses /\ h.evictions = c.evictions
  BY <1>1, <1>5 DEF CacheType
<1> HIDE DEF h
<1>7. Struct(h) /\ ListOf(h, lru) /\ Live(h) = Live(c)
  BY <1>6, StructKept
<1>8. Promoted(h, d, lru, k) /\ SameValues(h, d) /\ SameCounters(h, d)
  BY <1>2, <1>6, <1>7, PromoteStruct
<1> HIDE DEF d
<1>9. Promoted(c, d, lru, k) /\ SameValues(c, d)
  BY <1>6, <1>7, <1>8 DEF Promoted, SameKeys, SameValues
<1>10. d.hits = Increment(c.hits) /\ d.misses = c.misses /\ d.evictions = c.evictions
  BY <1>6, <1>8 DEF SameCounters
<1>11. d.nodes[n].value = c.nodes[n].value
  BY <1>3, <1>9 DEF SameValues
<1> QED
  BY <1>2, <1>4, <1>9, <1>10, <1>11

(* get of an absent key counts a miss and changes nothing else             *)
(* (lru_cache.cpp:101-104).                                                *)
LEMMA GetMiss ==
  ASSUME NEW c, Struct(c), NEW key \in Keys, find_node(c, key) = NIL
  PROVE  LET d == get(c, key)
         IN  /\ Struct(d) /\ d.nodes = c.nodes /\ d.hash_table = c.hash_table /\ d.size = c.size
             /\ \A lru : ListOf(c, lru) => ListOf(d, lru)
             /\ d.misses = Increment(c.misses) /\ d.hits = c.hits /\ d.evictions = c.evictions
             /\ get_result(c, key) = Void
<1> DEFINE d == [c EXCEPT !.misses = Increment(c.misses)]
<1>1. c \in CacheType
  BY DEF Struct
<1>2. get(c, key) = d /\ get_result(c, key) = Void
  BY DEF get, get_result, Void
<1>3. Increment(c.misses) \in Counter
  <2>1. c.misses \in 0 .. SizeMod - 1
    BY <1>1 DEF CacheType, Counter
  <2> QED
    BY <2>1, DataAssumption DEF Increment, Counter
<1>4. /\ d \in CacheType /\ d.nodes = c.nodes /\ d.head = c.head /\ d.tail = c.tail
      /\ d.free_head = c.free_head /\ d.size = c.size /\ d.hash_table = c.hash_table
      /\ d.misses = Increment(c.misses) /\ d.hits = c.hits /\ d.evictions = c.evictions
  BY <1>1, <1>3 DEF CacheType
<1> HIDE DEF d
<1>5. Struct(d) /\ \A lru : ListOf(c, lru) => ListOf(d, lru)
  BY <1>4, StructKept
<1> QED
  BY <1>2, <1>4, <1>5

(* remove of a stored key unlinks and frees its node, and erases its slot  *)
(* (lru_cache.cpp:111-150).                                                *)
LEMMA RemoveHit ==
  ASSUME NEW c, Struct(c), NEW lru, ListOf(c, lru), NEW key \in Keys,
         NEW k \in 1 .. c.size, find_node(c, key) = lru[k]
  PROVE  LET d == remove(c, key)
         IN  /\ Dropped(c, d, lru, k) /\ d.evictions = c.evictions
             /\ Reached(c.nodes, c.hash_table) => Reached(d.nodes, d.hash_table)
<1> DEFINE slot == KeySlot(c, key)
           r == free_node(unlink_node(c, lru[k]), lru[k])
           d == EraseSlot(r, slot)
<1>1. c \in CacheType /\ OneSlotEach(c)
  BY DEF Struct
<1>2. slot \in Slot /\ c.hash_table[slot] = lru[k]
  BY <1>1, KeySlotIs DEF find_node
<1>3. lru[k] \in Live(c) /\ lru[k] # NIL
  <2>1. lru[k] \in Live(c)
    BY <1>1, ListIs
  <2> QED
    BY <2>1 DEF Live
<1>4. remove(c, key) = d
  BY <1>2, <1>3 DEF remove
<1>5. PICK free : PoolOf(c, lru, free, c.size)
  BY DEF ListOf
<1>6. Released(c, r, lru, k)
  BY <1>1, <1>5, ReleasePool
<1> HIDE DEF r, slot
<1>7. r \in CacheType /\ r.hash_table = c.hash_table /\ SameKeys(c, r) /\ r.evictions = c.evictions
  BY <1>6 DEF Released, Kept, SameKeys, SameCounters
<1>8. OneSlotEach(r) /\ Live(r) = Live(c) /\ r.hash_table[slot] = lru[k]
  BY <1>1, <1>2, <1>7 DEF OneSlotEach, Live
<1>9. /\ d \in CacheType /\ OneSlotEach(d) /\ Live(d) = Live(r) \ {r.hash_table[slot]}
      /\ d.nodes = r.nodes /\ d.head = r.head /\ d.tail = r.tail
      /\ d.free_head = r.free_head /\ d.size = r.size
      /\ d.hits = r.hits /\ d.misses = r.misses /\ d.evictions = r.evictions
  <2>1. r.hash_table[slot] # NIL
    BY <1>3, <1>8
  <2> QED
    BY <1>2, <1>7, <1>8, <2>1, EraseSlotFields
<1>10. ASSUME Reached(c.nodes, c.hash_table)
       PROVE  Reached(d.nodes, d.hash_table)
  <2>1. Reached(r.nodes, r.hash_table)
    BY <1>1, <1>7, <1>10, ReachedKept
  <2>2. r.hash_table[slot] # NIL
    BY <1>3, <1>8
  <2>3. Reached(r.nodes, d.hash_table)
    BY <1>2, <1>7, <1>8, <2>1, <2>2, EraseSlotReached
  <2> QED
    BY <1>9, <2>3
<1> HIDE DEF d
<1>11. Live(d) = Live(c) \ {lru[k]}
  BY <1>8, <1>9
<1>12. Dropped(c, d, lru, k)
  BY <1>1, <1>6, <1>9, <1>11, DropStruct
<1> QED
  BY <1>4, <1>7, <1>9, <1>10, <1>12

(* The node n now holds key and value, and every other node what it held.  *)
Wrote(c, d, n, key, value) ==
  /\ d.nodes[n].key = key /\ d.nodes[n].value = value
  /\ \A m \in Node \ {n} :
       d.nodes[m].key = c.nodes[m].key /\ d.nodes[m].value = c.nodes[m].value

Probeable(c) == Reached(c.nodes, c.hash_table)

(* An insertion at the first empty slot keeps the table dense.             *)
LEMMA InsertReached ==
  ASSUME NEW c, Struct(c), c.size < Capacity, Probeable(c),
         NEW slot \in Slot, c.hash_table[slot] = NIL, NEW key \in Keys, NEW value \in Values,
         FirstEmpty(c.hash_table, key, slot)
  PROVE  Probeable(InsertAt(c, slot, key, value))
<1> DEFINE n == c.free_head
           d == InsertAt(c, slot, key, value)
<1>1. c \in CacheType /\ c.hash_table \in Table
  BY DEF Struct, CacheType, Table
<1>2. PICK lru : ListOf(c, lru)
  BY <1>1, PartitionIs DEF Struct
<1>3. Inserted(c, d, lru, n, slot, key, value) /\ n \notin Live(c)
  BY <1>2, InsertStruct
<1> HIDE DEF n, d
<1>4. /\ n \in Node /\ d.hash_table = [c.hash_table EXCEPT ![slot] = n]
      /\ d.nodes[n].key = key
      /\ \A m \in Node \ {n} : d.nodes[m].key = c.nodes[m].key
  BY <1>3 DEF Inserted
<1> DEFINE table == c.hash_table
           after == d.nodes
           nodes == c.nodes
<1>5. \A s \in Slot : table[s] # NIL => table[s] # n /\ after[table[s]].key = nodes[table[s]].key
  <2> SUFFICES ASSUME NEW s \in Slot, table[s] # NIL
               PROVE  table[s] # n /\ after[table[s]].key = nodes[table[s]].key
    OBVIOUS
  <2>1. table[s] \in Node /\ table[s] \in Live(c)
    BY <1>1 DEF Table, Live
  <2> QED
    BY <1>3, <1>4, <2>1
<1>6. table \in Table /\ Reached(nodes, table) /\ after[n].key = key /\ FirstEmpty(table, key, slot)
  BY <1>1, <1>4 DEF Probeable
<1> HIDE DEF table, after, nodes
<1>7. Reached(after, [table EXCEPT ![slot] = n])
  BY <1>4, <1>5, <1>6, EnterReached
<1> QED
  BY <1>4, <1>7 DEF Probeable, d, table, after

(* An eviction keeps the table dense.                                      *)
LEMMA EvictReached ==
  ASSUME NEW c, Struct(c), c.size # 0, Probeable(c)
  PROVE  Probeable(evict_lru(c))
<1> DEFINE d == evict_lru(c)
<1>1. c \in CacheType /\ OneSlotEach(c)
  BY DEF Struct
<1>2. PICK lru : ListOf(c, lru)
  BY <1>1, PartitionIs DEF Struct
<1>3. /\ Dropped(c, d, lru, c.size)
      /\ \E slot \in Slot : /\ c.hash_table[slot] # NIL
                            /\ d.hash_table = EraseSlot(c, slot).hash_table
  BY <1>2, EvictStruct
<1> HIDE DEF d
<1>4. PICK slot \in Slot : /\ c.hash_table[slot] # NIL
                          /\ d.hash_table = EraseSlot(c, slot).hash_table
  BY <1>3
<1> DEFINE e == EraseSlot(c, slot)
<1>5. e \in CacheType /\ e.nodes = c.nodes
  BY <1>1, <1>4, EraseSlotFields
<1>6. Reached(c.nodes, e.hash_table)
  BY <1>1, <1>4, EraseSlotReached DEF Probeable
<1> HIDE DEF e
<1>7. d \in CacheType /\ SameKeys(e, d) /\ d.hash_table = e.hash_table
  BY <1>3, <1>4, <1>5 DEF Dropped, Struct, SameKeys, e
<1> QED
  BY <1>5, <1>6, <1>7, ReachedKept DEF Probeable, d

(* put of a new key into a cache with room takes the first free node       *)
(* (lru_cache.cpp:89-97).                                                  *)
LEMMA PutRoom ==
  ASSUME NEW c, Struct(c), NEW lru, ListOf(c, lru), NEW key \in Keys, NEW value \in Values,
         find_node(c, key) = NIL, c.size # Capacity
  PROVE  LET d == put(c, key, value)
             n == c.free_head
         IN  /\ Struct(d) /\ d.size = c.size + 1
             /\ n \in Node /\ n \notin Live(c) /\ Live(d) = Live(c) \cup {n}
             /\ Wrote(c, d, n, key, value) /\ SameCounters(c, d)
             /\ ListOf(d, Prepend(lru, c.size, n))
             /\ Probeable(c) => Probeable(d)
<1> DEFINE slot == KeySlot(c, key)
           n == c.free_head
           d == InsertAt(c, slot, key, value)
<1>1. c \in CacheType /\ OneSlotEach(c)
  BY DEF Struct
<1>2. slot \in Slot /\ c.hash_table[slot] = NIL
  BY <1>1, KeySlotIs DEF find_node
<1>3. put(c, key, value) = d
  BY <1>2 DEF put
<1>4. c.size < Capacity
  BY <1>1, CapacityAssumption DEF CacheType
<1>5. Probeable(c) => FirstEmpty(c.hash_table, key, slot)
  BY <1>1, <1>2, AbsentKey DEF Probeable
<1> HIDE DEF slot
<1>6. Probeable(c) => Probeable(d)
  BY <1>2, <1>4, <1>5, InsertReached
<1>7. /\ Inserted(c, d, lru, n, slot, key, value)
      /\ Struct(d) /\ n \notin Live(c) /\ Live(d) = Live(c) \cup {n}
      /\ ListOf(d, Prepend(lru, c.size, n))
  BY <1>2, <1>4, InsertStruct
<1> HIDE DEF d
<1>8. d.size = c.size + 1 /\ n \in Node /\ Wrote(c, d, n, key, value) /\ SameCounters(c, d)
  BY <1>7 DEF Inserted, Wrote
<1> QED
  BY <1>3, <1>6, <1>7, <1>8

(* put of a new key into a full cache takes over the node of the least     *)
(* recently used entry (lru_cache.cpp:78-97).                              *)
LEMMA PutFull ==
  ASSUME NEW c, Struct(c), NEW lru, ListOf(c, lru), NEW key \in Keys, NEW value \in Values,
         find_node(c, key) = NIL, c.size = Capacity
  PROVE  LET d == put(c, key, value)
             n == lru[c.size]
         IN  /\ Struct(d) /\ d.size = c.size /\ Live(d) = Live(c)
             /\ n \in Node /\ c.tail = n /\ d.head = n
             /\ Wrote(c, d, n, key, value)
             /\ d.hits = c.hits /\ d.misses = c.misses /\ d.evictions = Increment(c.evictions)
             /\ ListOf(d, ToFront(lru, c.size, c.size))
             /\ Probeable(c) => Probeable(d)
<1> DEFINE e == evict_lru(c)
           slot == EmptySlot(e, key)
           d == InsertAt(e, slot, key, value)
           less == Without(lru, c.size, c.size)
<1>1. c \in CacheType /\ OneSlotEach(c) /\ c.size # 0 /\ c.size \in Nat
  BY CapacityAssumption DEF Struct
<1>2. PICK n : n = lru[c.size]
  OBVIOUS
<1>3. n \in Node /\ n \in Live(c)
  BY <1>1, <1>2, ListIs
<1>4. put(c, key, value) = d
  BY DEF put, find_node
<1>5. /\ Dropped(c, e, lru, c.size) /\ e.evictions = Increment(c.evictions) /\ c.tail = n
      /\ Probeable(c) => Probeable(e)
  BY <1>1, <1>2, EvictStruct, EvictReached
<1> HIDE DEF e
<1>6. /\ Struct(e) /\ e.size = c.size - 1 /\ Live(e) = Live(c) \ {n}
      /\ SameKeys(c, e) /\ SameValues(c, e) /\ e.hits = c.hits /\ e.misses = c.misses
      /\ e.free_head = n /\ ListOf(e, less)
  BY <1>2, <1>5 DEF Dropped
<1>7. /\ slot \in Slot /\ e.hash_table[slot] = NIL /\ FirstEmpty(e.hash_table, key, slot)
      /\ e.size < Capacity
  <2>1. e \in CacheType /\ OneSlotEach(e)
    BY <1>6 DEF Struct
  <2> QED
    BY <1>1, <1>6, <2>1, EmptySlotIs, CapacityAssumption
<1>a. ToFront(lru, c.size, c.size) = Prepend(less, c.size - 1, n)
  BY <1>2 DEF ToFront
<1> HIDE DEF slot, less
<1>8. Probeable(c) => Probeable(d)
  BY <1>5, <1>6, <1>7, InsertReached
<1>9. /\ Inserted(e, d, less, n, slot, key, value)
      /\ Struct(d) /\ Live(d) = Live(e) \cup {n}
      /\ ListOf(d, Prepend(less, e.size, n)) /\ d.head = n
  <2>1. LET x == InsertAt(e, slot, key, value)
        IN  /\ Inserted(e, x, less, e.free_head, slot, key, value)
            /\ Struct(x) /\ Live(x) = Live(e) \cup {e.free_head}
            /\ ListOf(x, Prepend(less, e.size, e.free_head)) /\ x.head = e.free_head
    BY <1>6, <1>7, InsertStruct
  <2> QED
    BY <1>6, <2>1
<1> HIDE DEF d
<1>10. Wrote(c, d, n, key, value)
  BY <1>6, <1>9 DEF Inserted, Wrote, SameKeys, SameValues
<1>11. d.hits = c.hits /\ d.misses = c.misses /\ d.evictions = Increment(c.evictions)
  BY <1>5, <1>6, <1>9 DEF Inserted, SameCounters
<1>12. d.size = c.size /\ Live(d) = Live(c)
  BY <1>1, <1>3, <1>6, <1>9 DEF Inserted
<1>13. ListOf(d, ToFront(lru, c.size, c.size))
  BY <1>6, <1>9, <1>a
<1> QED
  BY <1>2, <1>3, <1>4, <1>5, <1>8, <1>9, <1>10, <1>11, <1>12, <1>13

-----------------------------------------------------------------------------
(* The structure with a dense table, and what a call may do to the key of  *)
(* a node: together they are what every call keeps.                        *)

UniqueKeys(c) == \A n, m \in Live(c) : c.nodes[n].key = c.nodes[m].key => n = m

Sound(c) == Struct(c) /\ Probeable(c) /\ UniqueKeys(c)

(* A node that stays in the table keeps its key, or it was the tail of a   *)
(* full cache and is the new head.                                         *)
ReusesNode(c, d) ==
  \A n \in Live(c) \cap Live(d) :
    \/ d.nodes[n].key = c.nodes[n].key
    \/ c.size = Capacity /\ n = c.tail /\ n = d.head

(* Sound is the structure and DenseTable.                                  *)
LEMMA SoundIs == \A c : Sound(c) <=> Struct(c) /\ DenseTable(c)
  BY DEF Sound, Probeable, Reached, UniqueKeys, DenseTable

(* The nodes of the table are nodes.                                       *)
LEMMA LiveNodes == ASSUME NEW c, Struct(c) PROVE Live(c) \subseteq Node
  BY DEF Struct, Live, CacheType

(* A call that adds no node to the table and writes no key keeps the keys  *)
(* unique.                                                                 *)
LEMMA SameKeysSound ==
  ASSUME NEW c, Sound(c), NEW d, Live(d) \subseteq Live(c), SameKeys(c, d)
  PROVE  UniqueKeys(d) /\ ReusesNode(c, d)
<1>1. Live(c) \subseteq Node
  BY LiveNodes DEF Sound
<1> QED
  BY <1>1 DEF Sound, UniqueKeys, SameKeys, ReusesNode

(* So does a call that writes a key that was in no node of the table.      *)
LEMMA NewKeyUnique ==
  ASSUME NEW c, Sound(c), NEW d, NEW n \in Node, NEW key, NEW value, Wrote(c, d, n, key, value),
         Live(d) \subseteq Live(c) \cup {n}, \A m \in Live(c) : c.nodes[m].key # key
  PROVE  UniqueKeys(d)
<1>1. Live(c) \subseteq Node
  BY LiveNodes DEF Sound
<1>2. /\ d.nodes[n].key = key
      /\ \A m \in Live(d) : m # n => m \in Live(c) /\ d.nodes[m].key = c.nodes[m].key
  BY <1>1 DEF Wrote
<1> QED
  BY <1>2 DEF Sound, UniqueKeys

(* promote and the write of a value keep an object sound.                  *)
LEMMA PromotedSound ==
  ASSUME NEW c, Sound(c), NEW d, NEW lru, NEW k, Promoted(c, d, lru, k)
  PROVE  Sound(d) /\ ReusesNode(c, d)
<1>1. /\ Struct(d) /\ d.hash_table = c.hash_table /\ Live(d) = Live(c) /\ SameKeys(c, d)
      /\ c \in CacheType /\ d \in CacheType /\ Reached(c.nodes, c.hash_table)
  BY DEF Promoted, Sound, Struct, Probeable
<1>2. Probeable(d)
  BY <1>1, ReachedKept DEF Probeable
<1>3. UniqueKeys(d) /\ ReusesNode(c, d)
  BY <1>1, SameKeysSound
<1> QED
  BY <1>1, <1>2, <1>3 DEF Sound

(* A key that is found is in a node of the LRU list.                       *)
FoundIn(c, key, lru) ==
  /\ ListOf(c, lru)
  /\ find_node(c, key) # NIL => \E k \in 1 .. c.size : find_node(c, key) = lru[k]

(* There is a LRU list to find it in.                                      *)
LEMMA FoundInList ==
  ASSUME NEW c, Struct(c), NEW key \in Keys
  PROVE  \E lru : FoundIn(c, key, lru)
<1>1. c \in CacheType
  BY DEF Struct
<1>2. PICK lru : ListOf(c, lru)
  BY <1>1, PartitionIs DEF Struct
<1>3. find_node(c, key) # NIL => find_node(c, key) \in Live(c)
  BY FindNodeIs
<1>4. \A n \in Live(c) : \E k \in 1 .. c.size : n = lru[k]
  BY <1>1, <1>2, ListIs
<1> QED
  BY <1>2, <1>3, <1>4 DEF FoundIn

(* put keeps an object sound (lru_cache.cpp:57-97).                        *)
LEMMA PutSound ==
  ASSUME NEW c, Sound(c), NEW key \in Keys, NEW value \in Values
  PROVE  Sound(put(c, key, value)) /\ ReusesNode(c, put(c, key, value))
<1> DEFINE d == put(c, key, value)
<1>1. Struct(c) /\ c \in CacheType /\ OneSlotEach(c) /\ Probeable(c) /\ Live(c) \subseteq Node
  BY LiveNodes DEF Sound, Struct
<1>a. PICK lru : FoundIn(c, key, lru)
  BY <1>1, FoundInList
<1>2. /\ ListOf(c, lru)
      /\ find_node(c, key) # NIL => \E k \in 1 .. c.size : find_node(c, key) = lru[k]
  BY <1>a DEF FoundIn
<1>3. CASE find_node(c, key) # NIL
  <2>1. PICK k \in 1 .. c.size : find_node(c, key) = lru[k]
    BY <1>2, <1>3
  <2>2. Promoted(c, d, lru, k)
    BY <1>1, <1>2, <2>1, PutHit
  <2> HIDE DEF d
  <2> QED
    BY <2>2, PromotedSound DEF d
<1>4. find_node(c, key) = NIL => \A m \in Live(c) : c.nodes[m].key # key
  BY <1>1, AbsentKey DEF find_node, Probeable
<1>5. CASE find_node(c, key) = NIL /\ c.size # Capacity
  <2> DEFINE n == c.free_head
  <2>1. /\ Struct(d) /\ n \in Node /\ n \notin Live(c) /\ Live(d) = Live(c) \cup {n}
        /\ Wrote(c, d, n, key, value) /\ Probeable(d)
    BY <1>1, <1>2, <1>5, PutRoom
  <2> HIDE DEF d, n
  <2>2. UniqueKeys(d)
    BY <1>4, <1>5, <2>1, NewKeyUnique
  <2>3. ReusesNode(c, d)
    BY <1>1, <2>1 DEF ReusesNode, Wrote
  <2> QED
    BY <2>1, <2>2, <2>3 DEF Sound, d
<1>6. CASE find_node(c, key) = NIL /\ c.size = Capacity
  <2> DEFINE n == lru[c.size]
  <2>1. /\ Struct(d) /\ Live(d) = Live(c) /\ n \in Node /\ c.tail = n /\ d.head = n
        /\ Wrote(c, d, n, key, value) /\ Probeable(d)
    BY <1>1, <1>2, <1>6, PutFull
  <2> HIDE DEF d, n
  <2>2. UniqueKeys(d)
    BY <1>4, <1>6, <2>1, NewKeyUnique
  <2>3. ReusesNode(c, d)
    BY <1>1, <1>6, <2>1 DEF ReusesNode, Wrote
  <2> QED
    BY <2>1, <2>2, <2>3 DEF Sound, d
<1> QED
  BY <1>3, <1>5, <1>6

(* get keeps an object sound and returns a value (lru_cache.cpp:99-109).   *)
LEMMA GetSound ==
  ASSUME NEW c, Sound(c), NEW key \in Keys
  PROVE  /\ Sound(get(c, key)) /\ ReusesNode(c, get(c, key))
         /\ get_result(c, key) \in [found : BOOLEAN, value : Values]
<1> DEFINE d == get(c, key)
<1>1. Struct(c) /\ c \in CacheType
  BY DEF Sound, Struct
<1>a. PICK lru : FoundIn(c, key, lru)
  BY <1>1, FoundInList
<1>2. /\ ListOf(c, lru)
      /\ find_node(c, key) # NIL => \E k \in 1 .. c.size : find_node(c, key) = lru[k]
  BY <1>a DEF FoundIn
<1>3. CASE find_node(c, key) # NIL
  <2>1. PICK k \in 1 .. c.size : find_node(c, key) = lru[k]
    BY <1>2, <1>3
  <2>2. /\ Promoted(c, d, lru, k)
        /\ get_result(c, key) = [found |-> TRUE, value |-> c.nodes[lru[k]].value]
    BY <1>1, <1>2, <2>1, GetHit
  <2>3. c.nodes[lru[k]].value \in Values
    <3>1. lru[k] \in Node
      BY <1>1, <1>2, ListIs
    <3> QED
      BY <1>1, <3>1 DEF CacheType, NodeType
  <2> HIDE DEF d
  <2> QED
    BY <2>2, <2>3, PromotedSound DEF d
<1>4. CASE find_node(c, key) = NIL
  <2>1. /\ Struct(d) /\ d.nodes = c.nodes /\ d.hash_table = c.hash_table
        /\ get_result(c, key) = Void
    BY <1>1, <1>4, GetMiss
  <2> HIDE DEF d
  <2>2. Live(d) = Live(c) /\ SameKeys(c, d) /\ Probeable(d)
    BY <2>1 DEF Live, SameKeys, Sound, Probeable
  <2>3. UniqueKeys(d) /\ ReusesNode(c, d)
    BY <2>2, SameKeysSound
  <2> QED
    BY <2>1, <2>2, <2>3, DataAssumption DEF Sound, Void, d
<1> QED
  BY <1>3, <1>4

(* remove keeps an object sound (lru_cache.cpp:111-150).                   *)
LEMMA RemoveSound ==
  ASSUME NEW c, Sound(c), NEW key \in Keys
  PROVE  Sound(remove(c, key)) /\ ReusesNode(c, remove(c, key))
<1> DEFINE d == remove(c, key)
<1>1. Struct(c) /\ Reached(c.nodes, c.hash_table)
  BY DEF Sound, Probeable
<1>a. PICK lru : FoundIn(c, key, lru)
  BY <1>1, FoundInList
<1>2. /\ ListOf(c, lru)
      /\ find_node(c, key) # NIL => \E k \in 1 .. c.size : find_node(c, key) = lru[k]
  BY <1>a DEF FoundIn
<1>3. CASE find_node(c, key) = NIL
  BY <1>3 DEF remove, find_node, ReusesNode
<1>4. CASE find_node(c, key) # NIL
  <2>1. PICK k \in 1 .. c.size : find_node(c, key) = lru[k]
    BY <1>2, <1>4
  <2>2. Dropped(c, d, lru, k) /\ Reached(d.nodes, d.hash_table)
    BY <1>1, <1>2, <2>1, RemoveHit
  <2> HIDE DEF d
  <2>3. Struct(d) /\ Live(d) \subseteq Live(c) /\ SameKeys(c, d) /\ Probeable(d)
    BY <2>2 DEF Dropped, Probeable
  <2>4. UniqueKeys(d) /\ ReusesNode(c, d)
    BY <2>3, SameKeysSound
  <2> QED
    BY <2>3, <2>4 DEF Sound, d
<1> QED
  BY <1>3, <1>4

(* An object whose nodes are all in the free list is sound.                *)
LEMMA EmptySound ==
  ASSUME NEW c \in CacheType, c.head = NIL, c.tail = NIL, c.free_head = 0, c.size = 0,
         c.hash_table = [s \in Slot |-> NIL],
         \A i \in Node : c.nodes[i].next = FreeLink(i)
  PROVE  Sound(c) /\ Live(c) = {}
<1>1. PICK lru, free : PoolOf(c, lru, free, 0) /\ Image(lru) = {}
  BY EmptyPool
<1>2. Live(c) = {} /\ OneSlotEach(c)
  BY DEF Live, OneSlotEach
<1>3. PoolOf(c, lru, free, c.size)
  BY <1>1
<1>4. ListOf(c, lru)
  BY <1>1, <1>2, <1>3 DEF ListOf
<1>5. Struct(c)
  BY <1>2, <1>4, PartitionIs DEF Struct
<1>6. Probeable(c) /\ UniqueKeys(c)
  BY <1>2, ProbeIs DEF Probeable, Reached, UniqueKeys
<1> QED
  BY <1>2, <1>5, <1>6 DEF Sound

(* The links of a new free list are nodes or NIL.                          *)
LEMMA FreeLinkType == \A i \in Node : FreeLink(i) \in Node \cup {NIL}
  BY CapacityAssumption DEF FreeLink, Node

(* The constructor makes a sound object (lru_cache.cpp:13-31).             *)
LEMMA NewSound == Sound(NewCache)
<1> DEFINE N == [i \in Node |-> [key |-> 0, value |-> 0, prev |-> 0, next |-> FreeLink(i)]]
           T == [s \in Slot |-> NIL]
<1>1. N \in [Node -> NodeType] /\ \A i \in Node : N[i].next = FreeLink(i)
  BY FreeLinkType, NILIs, DataAssumption DEF NodeType
<1>2. T \in [Slot -> Node \cup {NIL}]
  OBVIOUS
<1>3. 0 \in Counter /\ 0 \in 0 .. Capacity /\ 0 \in Node
  BY DataAssumption, CapacityAssumption, NILIs DEF Counter
<1> HIDE DEF N
<1>4. /\ NewCache \in CacheType /\ NewCache.nodes = N /\ NewCache.head = NIL /\ NewCache.tail = NIL
      /\ NewCache.free_head = 0 /\ NewCache.size = 0 /\ NewCache.hash_table = T
  BY <1>1, <1>2, <1>3 DEF NewCache, CacheType, N
<1> QED
  BY <1>1, <1>4, EmptySound

(* clear makes a sound object anew (lru_cache.cpp:238-255).                *)
LEMMA ClearSound ==
  ASSUME NEW c, Struct(c)
  PROVE  /\ Sound(clear(c)) /\ ReusesNode(c, clear(c)) /\ clear(c).size = 0
         /\ clear(c).hits = 0 /\ clear(c).misses = 0 /\ clear(c).evictions = 0
<1> DEFINE d == clear(c)
           N == [i \in Node |-> [c.nodes[i] EXCEPT !.next = FreeLink(i)]]
           T == [s \in Slot |-> NIL]
<1>1. c \in CacheType /\ c.nodes \in [Node -> NodeType]
  BY DEF Struct, CacheType
<1>2. N \in [Node -> NodeType] /\ \A i \in Node : N[i].next = FreeLink(i)
  BY <1>1, FreeLinkType DEF NodeType
<1>3. T \in [Slot -> Node \cup {NIL}]
  OBVIOUS
<1>4. 0 \in Counter /\ 0 \in 0 .. Capacity /\ 0 \in Node
  BY DataAssumption, CapacityAssumption, NILIs DEF Counter
<1>5. d = [c EXCEPT !.size = 0, !.head = NIL, !.tail = NIL, !.free_head = 0, !.nodes = N,
                    !.hash_table = T, !.hits = 0, !.misses = 0, !.evictions = 0]
  BY <1>1 DEF clear, CacheType
<1> HIDE DEF d, N, T
<1>6. /\ d \in CacheType /\ d.nodes = N /\ d.head = NIL /\ d.tail = NIL
      /\ d.free_head = 0 /\ d.size = 0 /\ d.hash_table = T
      /\ d.hits = 0 /\ d.misses = 0 /\ d.evictions = 0
  BY <1>1, <1>2, <1>3, <1>4, <1>5 DEF CacheType
<1>7. Sound(d) /\ Live(d) = {}
  BY <1>2, <1>6, EmptySound DEF T
<1>8. ReusesNode(c, d)
  BY <1>7 DEF ReusesNode
<1> QED
  BY <1>6, <1>7, <1>8 DEF d

-----------------------------------------------------------------------------
(* The inductive invariant and the theorems.                               *)

Results == [found : BOOLEAN, value : Values]

IInv == TypeOK /\ PoolPartition /\ OneSlotPerNode /\ Dense

(* The inductive invariant says that the object is sound.                  *)
LEMMA IInvIs == IInv <=> Sound(cache) /\ ret \in Results
  BY SoundIs DEF IInv, TypeOK, PoolPartition, OneSlotPerNode, Dense, Struct, Results

(* The constructor establishes the inductive invariant.                    *)
LEMMA InitIInv == Init => IInv
<1>1. Void \in Results
  BY DataAssumption DEF Void, Results
<1> QED
  BY <1>1, NewSound, IInvIs DEF Init

(* Every call keeps the object sound, and every node that stays in the     *)
(* table keeps its key or is taken over.                                   *)
LEMMA NextSound ==
  ASSUME Sound(cache), ret \in Results, [Next]_vars
  PROVE  Sound(cache') /\ ret' \in Results /\ ReusesNode(cache, cache')
<1>1. Void \in Results
  BY DataAssumption DEF Void, Results
<1>2. ASSUME NEW k \in Keys, NEW v \in Values, Put(k, v)
      PROVE  Sound(cache') /\ ret' \in Results /\ ReusesNode(cache, cache')
  BY <1>1, <1>2, PutSound DEF Put
<1>3. ASSUME NEW k \in Keys, Get(k)
      PROVE  Sound(cache') /\ ret' \in Results /\ ReusesNode(cache, cache')
  BY <1>3, GetSound DEF Get, Results
<1>4. ASSUME NEW k \in Keys, Remove(k)
      PROVE  Sound(cache') /\ ret' \in Results /\ ReusesNode(cache, cache')
  <2>1. ret' \in Results
    BY <1>4, DataAssumption DEF Remove, remove_result, Results
  <2> QED
    BY <1>4, <2>1, RemoveSound DEF Remove
<1>5. CASE Clear
  BY <1>1, <1>5, ClearSound DEF Clear, Sound
<1>6. CASE UNCHANGED vars
  BY <1>6 DEF vars, ReusesNode
<1> QED
  BY <1>2, <1>3, <1>4, <1>5, <1>6 DEF Next

(* Every call preserves the inductive invariant.                           *)
LEMMA NextIInv == IInv /\ [Next]_vars => IInv'
<1> SUFFICES ASSUME IInv, [Next]_vars
             PROVE  IInv'
  OBVIOUS
<1>1. Sound(cache') /\ ret' \in Results
  BY IInvIs, NextSound
<1>2. Struct(cache') /\ DenseTable(cache')
  BY <1>1, SoundIs
<1> QED
  BY <1>1, <1>2 DEF IInv, TypeOK, PoolPartition, OneSlotPerNode, Dense, Struct, Results

(* Links, table entries, size_ and the counters stay in their types: the   *)
(* int32_t indices never leave the pool and size_ never exceeds capacity_  *)
(* (lru_cache.cpp:57-255), whatever the callers do.                        *)
THEOREM TypeCorrect == Spec => []TypeOK
<1>1. IInv => TypeOK
  BY DEF IInv
<1> QED
  BY <1>1, InitIInv, NextIInv, PTL DEF Spec

(* No call loses, shares or leaks a node: the LRU list, read forwards or   *)
(* backwards, and the free list share out the pool, and the table points   *)
(* to the nodes of the LRU list (lru_cache.cpp:190-236).                   *)
THEOREM PoolIsPartitioned == Spec => []PoolPartition
<1>1. IInv => PoolPartition
  BY DEF IInv
<1> QED
  BY <1>1, InitIInv, NextIInv, PTL DEF Spec

(* No node is entered in the table twice, by insertion, re-probing after   *)
(* an eviction or backward shifting (lru_cache.cpp:80-95, 125-145).        *)
THEOREM NodesHaveOneSlot == Spec => []OneSlotPerNode
<1>1. IInv => OneSlotPerNode
  BY DEF IInv
<1> QED
  BY <1>1, InitIInv, NextIInv, PTL DEF Spec

(* The table stays dense without tombstones, and no key is stored twice    *)
(* (README.md:106): backward shifting closes every gap that an erasure     *)
(* opens in a probe sequence, even across the end of the table             *)
(* (lru_cache.cpp:125-145, 160-178), and an insertion, the one after an    *)
(* eviction too, takes the first empty slot of a key that is not stored    *)
(* (lru_cache.cpp:61-96).                                                  *)
THEOREM TableIsDense == Spec => []Dense
<1>1. IInv => Dense
  BY DEF IInv
<1> QED
  BY <1>1, InitIInv, NextIInv, PTL DEF Spec

(* A node that stays in the table keeps its key, except that a put of a    *)
(* new key into a full cache takes over the tail and makes it the head     *)
(* (README.md:172, lru_cache.cpp:78-97).                                   *)
THEOREM NodesAreReused == Spec => NodeReuse
<1> DEFINE Reuse == \A n \in Live(cache) \cap Live(cache') :
                      \/ cache'.nodes[n].key = cache.nodes[n].key
                      \/ cache.size = Capacity /\ n = cache.tail /\ n = cache'.head
<1>1. IInv /\ [Next]_vars => [Reuse]_vars
  <2> SUFFICES ASSUME IInv, [Next]_vars
               PROVE  Reuse
    OBVIOUS
  <2>1. ReusesNode(cache, cache')
    BY IInvIs, NextSound
  <2> QED
    BY <2>1 DEF ReusesNode
<1> HIDE DEF Reuse
<1>2. Spec => [][Reuse]_vars
  BY <1>1, InitIInv, NextIInv, PTL DEF Spec
<1> QED
  BY <1>2 DEF NodeReuse, Reuse

-----------------------------------------------------------------------------
(* The refinement: each call changes the entries that display shows as the *)
(* abstract call does, and returns what it returns.                        *)

EntryType == [key : Keys, value : Values]

(* The entries in the nodes of a list.                                     *)
Shown(c, lru) ==
  [i \in 1 .. c.size |-> [key |-> c.nodes[lru[i]].key, value |-> c.nodes[lru[i]].value]]

(* They are a sequence of entries.                                         *)
LEMMA ShownIs ==
  ASSUME NEW c \in CacheType, NEW lru, ListOf(c, lru)
  PROVE  /\ Shown(c, lru) \in Seq(EntryType) /\ Len(Shown(c, lru)) = c.size
         /\ DOMAIN Shown(c, lru) = 1 .. c.size
         /\ \A i \in 1 .. c.size : /\ Shown(c, lru)[i].key = c.nodes[lru[i]].key
                                   /\ Shown(c, lru)[i].value = c.nodes[lru[i]].value
<1> DEFINE s == Shown(c, lru)
<1>1. c.size \in Nat /\ \A i \in 1 .. c.size : lru[i] \in Node
  BY ListIs
<1>2. \A i \in 1 .. c.size : c.nodes[lru[i]].key \in Keys /\ c.nodes[lru[i]].value \in Values
  BY <1>1 DEF CacheType, NodeType
<1>3. s \in [1 .. c.size -> EntryType]
  BY <1>2 DEF Shown, EntryType
<1>4. s \in Seq(EntryType)
  BY <1>1, <1>3, SeqDef
<1>5. DOMAIN s = 1 .. Len(s) /\ Len(s) \in Nat
  BY <1>4, LenProperties
<1>6. DOMAIN s = 1 .. c.size
  BY DEF Shown
<1> QED
  BY <1>1, <1>4, <1>5, <1>6 DEF Shown

(* The walk of display visits the LRU list from its first node to its last *)
(* (lru_cache.cpp:257-287).                                                *)
LEMMA DisplayIs ==
  ASSUME NEW c \in CacheType, NEW lru, ListOf(c, lru)
  PROVE  display(c) = Shown(c, lru)
<1> DEFINE Body(walk) == [i \in Nat |-> IF i = 0 THEN c.head
                                        ELSE IF walk[i - 1] = NIL THEN NIL
                                        ELSE c.nodes[walk[i - 1]].next]
           g == [i \in Nat |-> IF i < c.size THEN lru[i + 1] ELSE NIL]
           curr == CHOOSE walk : walk = Body(walk)
<1>1. /\ c.size \in Nat /\ c.size \in 0 .. Capacity /\ IsLruList(c, lru, c.size)
      /\ \A i \in 1 .. c.size : lru[i] \in Node /\ lru[i] # NIL
  BY ListIs, NILIs
<1>2. /\ c.head = IF c.size = 0 THEN NIL ELSE lru[1]
      /\ \A i \in 1 .. c.size : c.nodes[lru[i]].next = IF i = c.size THEN NIL ELSE lru[i + 1]
  BY <1>1 DEF IsLruList
<1>3. ASSUME NEW i \in Nat, i # 0, NEW x, x = IF i - 1 < c.size THEN lru[i - 1 + 1] ELSE NIL
      PROVE  (IF x = NIL THEN NIL ELSE c.nodes[x].next) = IF i < c.size THEN lru[i + 1] ELSE NIL
  <2>1. CASE i - 1 < c.size
    <3>1. i \in 1 .. c.size /\ i - 1 + 1 = i
      BY <1>1, <1>3, <2>1
    <3>2. x = lru[i] /\ x # NIL
      BY <1>1, <1>3, <2>1, <3>1
    <3> QED
      BY <1>1, <1>2, <3>1, <3>2
  <2>2. CASE ~ (i - 1 < c.size)
    BY <1>1, <1>3, <2>2
  <2> QED
    BY <2>1, <2>2
<1>4. g = Body(g)
  <2>1. g[0] = c.head
    BY <1>1, <1>2
  <2>2. ASSUME NEW i \in Nat, i # 0
        PROVE  g[i] = IF g[i - 1] = NIL THEN NIL ELSE c.nodes[g[i - 1]].next
    <3>1. i - 1 \in Nat
      BY <2>2
    <3>2. g[i - 1] = IF i - 1 < c.size THEN lru[i - 1 + 1] ELSE NIL
      BY <3>1
    <3>3. g[i] = IF i < c.size THEN lru[i + 1] ELSE NIL
      OBVIOUS
    <3> HIDE DEF g
    <3> QED
      BY <1>3, <2>2, <3>2, <3>3
  <2>3. \A i \in Nat : g[i] = Body(g)[i]
    <3> HIDE DEF g
    <3> QED
      BY <2>1, <2>2
  <2>4. g = [i \in Nat |-> g[i]]
    OBVIOUS
  <2> HIDE DEF g
  <2> QED
    BY <2>3, <2>4
<1>5. curr = Body(curr)
  <2> HIDE DEF g
  <2> QED
    BY <1>4
<1> HIDE DEF g, curr
<1>6. \A i \in Nat : curr[i] = IF i < c.size THEN lru[i + 1] ELSE NIL
  <2> DEFINE P == {i \in Nat : curr[i] = IF i < c.size THEN lru[i + 1] ELSE NIL}
  <2>1. 0 \in P
    BY <1>1, <1>2, <1>5
  <2>2. ASSUME NEW i \in Nat, i \in P
        PROVE  i + 1 \in P
    <3>1. i + 1 \in Nat /\ i + 1 # 0 /\ i + 1 - 1 = i
      OBVIOUS
    <3>2. curr[i + 1] = IF curr[i] = NIL THEN NIL ELSE c.nodes[curr[i]].next
      BY <1>5, <3>1
    <3>3. curr[i] = IF i + 1 - 1 < c.size THEN lru[i + 1 - 1 + 1] ELSE NIL
      BY <2>2, <3>1
    <3> QED
      BY <1>3, <3>1, <3>2, <3>3
  <2> HIDE DEF P
  <2>3. \A i \in Nat : i \in P
    BY <2>1, <2>2, SetInduction
  <2> QED
    BY <2>3 DEF P
<1>7. c.size = CHOOSE i \in 0 .. Capacity : curr[i] = NIL /\ \A j \in 0 .. i - 1 : curr[j] # NIL
  <2>1. curr[c.size] = NIL
    BY <1>1, <1>6
  <2>2. \A j \in 0 .. c.size - 1 : curr[j] # NIL
    BY <1>1, <1>6
  <2>3. ASSUME NEW i \in 0 .. Capacity, curr[i] = NIL, \A j \in 0 .. i - 1 : curr[j] # NIL
        PROVE  i = c.size
    <3>1. ~ (i < c.size)
      BY <1>1, <2>2, <2>3, CapacityAssumption
    <3>2. ~ (c.size < i)
      BY <1>1, <2>1, <2>3, CapacityAssumption
    <3> QED
      BY <1>1, <3>1, <3>2, CapacityAssumption
  <2> QED
    BY <1>1, <2>1, <2>2, <2>3
<1>8. \A i \in 1 .. c.size : curr[i - 1] = lru[i]
  <2> SUFFICES ASSUME NEW i \in 1 .. c.size PROVE curr[i - 1] = lru[i]
    OBVIOUS
  <2>1. i - 1 \in Nat /\ i - 1 < c.size /\ i - 1 + 1 = i
    BY <1>1
  <2> QED
    BY <1>6, <2>1
<1>9. display(c) = [i \in 1 .. c.size |-> [key   |-> c.nodes[curr[i - 1]].key,
                                           value |-> c.nodes[curr[i - 1]].value]]
  BY <1>7 DEF display, curr
<1> QED
  BY <1>8, <1>9 DEF Shown

-----------------------------------------------------------------------------
(* What the calls do to the entries that display shows.                    *)

(* The entry of a key and a value.                                         *)
Entry(key, value) == [key |-> key, value |-> value]

LEMMA EntryIs ==
  ASSUME NEW c \in CacheType, NEW lru, ListOf(c, lru), NEW key \in Keys, NEW value \in Values
  PROVE  /\ Entry(key, value) \in EntryType
         /\ \A i \in 1 .. c.size :
              Shown(c, lru)[i] = Entry(c.nodes[lru[i]].key, c.nodes[lru[i]].value)
  BY DEF Entry, EntryType, Shown

(* The node at position k comes to the front of the list, with this key    *)
(* and this value.                                                         *)
LEMMA FrontShown ==
  ASSUME NEW c \in CacheType, NEW lru, ListOf(c, lru), NEW k \in 1 .. c.size,
         NEW key \in Keys, NEW value \in Values,
         NEW d \in CacheType, d.size = c.size, ListOf(d, ToFront(lru, c.size, k)),
         Wrote(c, d, lru[k], key, value)
  PROVE  display(d) = <<Entry(key, value)>> \o WithoutAt(display(c), k)
<1> DEFINE after == ToFront(lru, c.size, k)
           s == Shown(c, lru)
           t == Shown(d, after)
           q == WithoutAt(s, k)
           e == Entry(key, value)
           u == <<e>> \o q
<1>1. /\ s \in Seq(EntryType) /\ Len(s) = c.size /\ display(c) = s
      /\ t \in Seq(EntryType) /\ Len(t) = c.size /\ display(d) = t
  BY ShownIs, DisplayIs
<1>2. c.size \in Nat /\ Distinct(lru) /\ DOMAIN lru = 1 .. c.size /\ \A i \in 1 .. c.size : lru[i] \in Node
  BY ListIs
<1>3. /\ e \in EntryType
      /\ \A i \in 1 .. c.size : s[i] = Entry(c.nodes[lru[i]].key, c.nodes[lru[i]].value)
      /\ \A i \in 1 .. c.size : t[i] = Entry(d.nodes[after[i]].key, d.nodes[after[i]].value)
  BY EntryIs
<1>4. /\ after[1] = lru[k]
      /\ \A i \in 2 .. c.size : after[i] = IF i - 1 < k THEN lru[i - 1] ELSE lru[i]
  <2> DEFINE w == Without(lru, c.size, k)
  <2>1. \A i \in 1 .. c.size - 1 : w[i] = IF i < k THEN lru[i] ELSE lru[i + 1]
    BY DEF Without
  <2>2. c.size - 1 + 1 = c.size
    BY <1>2
  <2>3. \A i \in 1 .. c.size : after[i] = IF i = 1 THEN lru[k] ELSE w[i - 1]
    BY <2>2 DEF ToFront, Prepend
  <2> HIDE DEF w, after
  <2>4. ASSUME NEW i \in 2 .. c.size
        PROVE  after[i] = IF i - 1 < k THEN lru[i - 1] ELSE lru[i]
    <3>1. i - 1 \in 1 .. c.size - 1 /\ i - 1 + 1 = i /\ i \in 1 .. c.size /\ i # 1
      BY <1>2
    <3>2. after[i] = w[i - 1]
      BY <2>3, <3>1
    <3> QED
      BY <2>1, <3>1, <3>2
  <2>5. 1 \in 1 .. c.size
    BY <1>2
  <2> QED
    BY <2>3, <2>4, <2>5
<1> HIDE DEF after, s, t, e
<1>5. /\ q \in Seq(EntryType) /\ Len(q) = c.size - 1
      /\ \A i \in 1 .. c.size - 1 : q[i] = IF i < k THEN s[i] ELSE s[i + 1]
  BY <1>1, WithoutAtIs
<1> HIDE DEF q
<1>6. /\ u \in Seq(EntryType) /\ Len(u) = c.size
      /\ \A i \in 1 .. c.size : u[i] = IF i = 1 THEN e ELSE q[i - 1]
  <2>1. /\ u \in Seq(EntryType) /\ Len(u) = Len(q) + 1
        /\ \A i \in 1 .. Len(q) + 1 : u[i] = IF i = 1 THEN e ELSE q[i - 1]
    BY <1>3, <1>5, InFrontIs
  <2>2. Len(q) + 1 = c.size
    BY <1>2, <1>5
  <2> QED
    BY <2>1, <2>2
<1> HIDE DEF u
<1>7. /\ d.nodes[lru[k]].key = key /\ d.nodes[lru[k]].value = value
      /\ \A i \in 1 .. c.size : i # k => /\ d.nodes[lru[i]].key = c.nodes[lru[i]].key
                                         /\ d.nodes[lru[i]].value = c.nodes[lru[i]].value
  BY <1>2 DEF Wrote, Distinct
<1>8. ASSUME NEW i \in 1 .. Len(t)
      PROVE  t[i] = u[i]
  <2>1. i \in 1 .. c.size
    BY <1>1
  <2>2. CASE i = 1
    BY <1>3, <1>4, <1>6, <1>7, <2>1, <2>2 DEF e
  <2>3. CASE i # 1
    <3>1. i \in 2 .. c.size /\ i - 1 \in 1 .. c.size - 1 /\ i - 1 + 1 = i /\ i - 1 \in 1 .. c.size
      BY <1>2, <2>1, <2>3
    <3>2. u[i] = IF i - 1 < k THEN s[i - 1] ELSE s[i]
      BY <1>5, <1>6, <2>1, <2>3, <3>1
    <3>3. CASE i - 1 < k
      <4>1. i - 1 # k
        BY <1>2, <3>1, <3>3
      <4>2. after[i] = lru[i - 1] /\ u[i] = s[i - 1]
        BY <1>4, <3>1, <3>2, <3>3
      <4> QED
        BY <1>3, <1>7, <2>1, <3>1, <4>1, <4>2
    <3>4. CASE ~ (i - 1 < k)
      <4>1. i # k
        BY <1>2, <3>1, <3>4
      <4>2. after[i] = lru[i] /\ u[i] = s[i]
        BY <1>4, <3>1, <3>2, <3>4
      <4> QED
        BY <1>3, <1>7, <2>1, <4>1, <4>2
    <3> QED
      BY <3>3, <3>4
  <2> QED
    BY <2>2, <2>3
<1>9. t = u
  BY <1>1, <1>6, <1>8, SeqEqual
<1>10. u = <<Entry(key, value)>> \o WithoutAt(s, k)
  BY DEF u, q, e
<1> QED
  BY <1>1, <1>9, <1>10

(* A new node comes to the front of the list.                              *)
LEMMA NewShown ==
  ASSUME NEW c \in CacheType, NEW lru, ListOf(c, lru), NEW n \in Node, n \notin Live(c),
         NEW key \in Keys, NEW value \in Values,
         NEW d \in CacheType, d.size = c.size + 1, ListOf(d, Prepend(lru, c.size, n)),
         Wrote(c, d, n, key, value)
  PROVE  display(d) = <<Entry(key, value)>> \o display(c)
<1> DEFINE after == Prepend(lru, c.size, n)
           s == Shown(c, lru)
           t == Shown(d, after)
           e == Entry(key, value)
           u == <<e>> \o s
<1>1. /\ s \in Seq(EntryType) /\ Len(s) = c.size /\ display(c) = s
      /\ t \in Seq(EntryType) /\ Len(t) = c.size + 1 /\ display(d) = t
  BY ShownIs, DisplayIs
<1>2. c.size \in Nat /\ \A i \in 1 .. c.size : lru[i] \in Node /\ lru[i] \in Live(c)
  BY ListIs
<1>3. /\ e \in EntryType
      /\ \A i \in 1 .. c.size : s[i] = Entry(c.nodes[lru[i]].key, c.nodes[lru[i]].value)
      /\ \A i \in 1 .. d.size : t[i] = Entry(d.nodes[after[i]].key, d.nodes[after[i]].value)
  BY EntryIs
<1>4. \A i \in 1 .. c.size + 1 : after[i] = IF i = 1 THEN n ELSE lru[i - 1]
  BY DEF Prepend
<1> HIDE DEF after, s, t, e
<1>5. /\ u \in Seq(EntryType) /\ Len(u) = c.size + 1
      /\ \A i \in 1 .. c.size + 1 : u[i] = IF i = 1 THEN e ELSE s[i - 1]
  BY <1>1, <1>3, InFrontIs
<1> HIDE DEF u
<1>6. /\ d.nodes[n].key = key /\ d.nodes[n].value = value
      /\ \A i \in 1 .. c.size : /\ d.nodes[lru[i]].key = c.nodes[lru[i]].key
                                /\ d.nodes[lru[i]].value = c.nodes[lru[i]].value
  BY <1>2 DEF Wrote
<1>7. ASSUME NEW i \in 1 .. Len(t)
      PROVE  t[i] = u[i]
  <2>1. i \in 1 .. c.size + 1 /\ i \in 1 .. d.size
    BY <1>1
  <2>2. CASE i = 1
    BY <1>3, <1>4, <1>5, <1>6, <2>1, <2>2 DEF e
  <2>3. CASE i # 1
    <3>1. i - 1 \in 1 .. c.size
      BY <1>2, <2>1, <2>3
    <3> QED
      BY <1>3, <1>4, <1>5, <1>6, <2>1, <2>3, <3>1
  <2> QED
    BY <2>2, <2>3
<1>8. t = u
  BY <1>1, <1>5, <1>7, SeqEqual
<1>9. u = <<Entry(key, value)>> \o s
  BY DEF u, e
<1> QED
  BY <1>1, <1>8, <1>9

(* The node at position k leaves the list.                                 *)
LEMMA LessShown ==
  ASSUME NEW c \in CacheType, NEW lru, ListOf(c, lru), NEW k \in 1 .. c.size,
         NEW d \in CacheType, Dropped(c, d, lru, k)
  PROVE  display(d) = WithoutAt(display(c), k)
<1> DEFINE after == Without(lru, c.size, k)
           s == Shown(c, lru)
           t == Shown(d, after)
           q == WithoutAt(s, k)
<1>1. /\ d.size = c.size - 1 /\ SameKeys(c, d) /\ SameValues(c, d) /\ ListOf(d, after)
  BY DEF Dropped
<1>2. /\ s \in Seq(EntryType) /\ Len(s) = c.size /\ display(c) = s
      /\ t \in Seq(EntryType) /\ Len(t) = c.size - 1 /\ display(d) = t
  BY <1>1, ShownIs, DisplayIs
<1>3. c.size \in Nat /\ \A i \in 1 .. c.size : lru[i] \in Node
  BY ListIs
<1>4. /\ \A i \in 1 .. c.size : s[i] = Entry(c.nodes[lru[i]].key, c.nodes[lru[i]].value)
      /\ \A i \in 1 .. d.size : t[i] = Entry(d.nodes[after[i]].key, d.nodes[after[i]].value)
  BY <1>1, EntryIs, DataAssumption
<1>5. \A i \in 1 .. c.size - 1 : after[i] = IF i < k THEN lru[i] ELSE lru[i + 1]
  BY DEF Without
<1> HIDE DEF after, s, t
<1>6. /\ q \in Seq(EntryType) /\ Len(q) = c.size - 1
      /\ \A i \in 1 .. c.size - 1 : q[i] = IF i < k THEN s[i] ELSE s[i + 1]
  BY <1>2, WithoutAtIs
<1> HIDE DEF q
<1>7. \A i \in 1 .. c.size : /\ d.nodes[lru[i]].key = c.nodes[lru[i]].key
                             /\ d.nodes[lru[i]].value = c.nodes[lru[i]].value
  BY <1>1, <1>3 DEF SameKeys, SameValues
<1>8. ASSUME NEW i \in 1 .. Len(t)
      PROVE  t[i] = q[i]
  <2>1. i \in 1 .. c.size - 1 /\ i \in 1 .. d.size /\ i \in 1 .. c.size /\ i + 1 \in 1 .. c.size
    BY <1>1, <1>2, <1>3
  <2> QED
    BY <1>4, <1>5, <1>6, <1>7, <2>1
<1> QED
  BY <1>2, <1>6, <1>8, SeqEqual DEF q

-----------------------------------------------------------------------------
(* What the calls do to the abstract cache.                                *)

LEMMA AsLruIs ==
  ASSUME NEW c
  PROVE  /\ AsLru(c).capacity = Capacity /\ AsLru(c).entries = display(c)
         /\ AsLru(c).hits = c.hits /\ AsLru(c).misses = c.misses
         /\ AsLru(c).evictions = c.evictions
  BY DEF AsLru

LEMMA IncrementIs == \A n : Increment(n) = Abstract!Increment(n)
  BY DEF Increment, Abstract!Increment

(* A key that find_node finds is the key of the entry at the position of   *)
(* its node, and of no other.                                              *)
LEMMA FoundEntry ==
  ASSUME NEW c, Sound(c), NEW lru, ListOf(c, lru), NEW key \in Keys,
         NEW k \in 1 .. c.size, find_node(c, key) = lru[k]
  PROVE  /\ Abstract!Has(AsLru(c), key)
         /\ Abstract!Value(AsLru(c), key) = c.nodes[lru[k]].value
         /\ Abstract!Others(AsLru(c), key) = WithoutAt(display(c), k)
<1> DEFINE s == display(c)
           a == AsLru(c)
<1>1. c \in CacheType /\ Struct(c) /\ UniqueKeys(c)
  BY DEF Sound, Struct
<1>2. /\ DOMAIN s = 1 .. c.size
      /\ \A i \in 1 .. c.size : /\ s[i].key = c.nodes[lru[i]].key
                                /\ s[i].value = c.nodes[lru[i]].value
  <2>1. s = Shown(c, lru)
    BY <1>1, DisplayIs
  <2> HIDE DEF s
  <2> QED
    BY <1>1, <2>1, ShownIs
<1>3. Distinct(lru) /\ DOMAIN lru = 1 .. c.size /\ \A i \in 1 .. c.size : lru[i] \in Live(c)
  BY <1>1, ListIs
<1>4. c.nodes[lru[k]].key = key
  <2>1. lru[k] # NIL
    BY <1>3 DEF Live
  <2> QED
    BY <1>1, <2>1, FindNodeIs
<1>5. a.entries = s
  BY AsLruIs
<1> HIDE DEF s, a
<1>6. \A i \in DOMAIN s : s[i].key = key <=> i = k
  BY <1>1, <1>2, <1>3, <1>4 DEF UniqueKeys, Distinct
<1>7. Abstract!Has(a, key) /\ Abstract!Position(a, key) = k
  BY <1>2, <1>5, <1>6 DEF Abstract!Has, Abstract!Position
<1>8. Abstract!Value(a, key) = c.nodes[lru[k]].value
  BY <1>2, <1>5, <1>7 DEF Abstract!Value
<1>9. Abstract!Others(a, key) = WithoutAt(s, k)
  BY <1>5, <1>7 DEF Abstract!Others, Abstract!Before, Abstract!After, WithoutAt
<1> QED
  BY <1>7, <1>8, <1>9 DEF s, a

(* A key that it does not find is the key of no entry.                     *)
LEMMA NoEntry ==
  ASSUME NEW c, Sound(c), NEW lru, ListOf(c, lru), NEW key \in Keys, find_node(c, key) = NIL
  PROVE  ~ Abstract!Has(AsLru(c), key) /\ Abstract!Others(AsLru(c), key) = display(c)
<1> DEFINE s == display(c)
           a == AsLru(c)
<1>1. c \in CacheType /\ OneSlotEach(c) /\ Reached(c.nodes, c.hash_table)
  BY DEF Sound, Struct, Probeable
<1>2. \A n \in Live(c) : c.nodes[n].key # key
  BY <1>1, AbsentKey DEF find_node
<1>3. DOMAIN s = 1 .. c.size /\ \A i \in 1 .. c.size : s[i].key = c.nodes[lru[i]].key
  <2>1. s = Shown(c, lru)
    BY <1>1, DisplayIs
  <2> HIDE DEF s
  <2> QED
    BY <1>1, <2>1, ShownIs
<1>4. \A i \in 1 .. c.size : lru[i] \in Live(c)
  BY <1>1, ListIs
<1>5. a.entries = s
  BY AsLruIs
<1> HIDE DEF s, a
<1>6. ~ Abstract!Has(a, key)
  BY <1>2, <1>3, <1>4, <1>5 DEF Abstract!Has
<1>7. Abstract!Others(a, key) = s
  BY <1>5, <1>6 DEF Abstract!Others
<1> QED
  BY <1>6, <1>7 DEF s, a

(* put does what the abstract put does (lru_cache.cpp:57-97).              *)
LEMMA PutImplements ==
  ASSUME NEW c, Sound(c), NEW key \in Keys, NEW value \in Values
  PROVE  AsLru(put(c, key, value)) = Abstract!put(AsLru(c), key, value)
<1> DEFINE d == put(c, key, value)
           e == Entry(key, value)
           a == AsLru(c)
           b == AsLru(d)
<1>1. Struct(c) /\ c \in CacheType
  BY DEF Sound, Struct
<1>a. PICK lru : FoundIn(c, key, lru)
  BY <1>1, FoundInList
<1>2. /\ ListOf(c, lru)
      /\ find_node(c, key) # NIL => \E k \in 1 .. c.size : find_node(c, key) = lru[k]
  BY <1>a DEF FoundIn
<1>3. display(c) \in Seq(EntryType) /\ Len(display(c)) = c.size /\ c.size \in 0 .. Capacity
  BY <1>1, <1>2, ShownIs, DisplayIs, ListIs
<1>4. e = [key |-> key, value |-> value] /\ e \in EntryType
  BY DEF Entry, EntryType
<1>5. /\ a = [capacity |-> Capacity, entries |-> display(c), hits |-> c.hits,
              misses |-> c.misses, evictions |-> c.evictions]
      /\ b = [capacity |-> Capacity, entries |-> display(d), hits |-> d.hits,
              misses |-> d.misses, evictions |-> d.evictions]
  BY DEF AsLru
<1>c. /\ a.entries = display(c) /\ a.capacity = Capacity
  BY AsLruIs
<1> HIDE DEF a, b
<1>6. CASE find_node(c, key) # NIL
  <2>1. PICK k \in 1 .. c.size : find_node(c, key) = lru[k]
    BY <1>2, <1>6
  <2>2. /\ Promoted(c, d, lru, k) /\ SameCounters(c, d)
        /\ \A m \in Node : d.nodes[m].value = IF m = lru[k] THEN value ELSE c.nodes[m].value
    BY <1>1, <1>2, <2>1, PutHit
  <2>3. Abstract!Has(a, key) /\ Abstract!Others(a, key) = WithoutAt(display(c), k)
    BY <1>2, <2>1, FoundEntry DEF a
  <2>4. lru[k] \in Node /\ c.nodes[lru[k]].key = key
    <3>1. lru[k] \in Live(c) /\ lru[k] \in Node /\ lru[k] # NIL
      BY <1>1, <1>2, ListIs, NILIs
    <3> QED
      BY <1>1, <2>1, <3>1, FindNodeIs
  <2> HIDE DEF d
  <2>5. /\ d \in CacheType /\ d.size = c.size /\ ListOf(d, ToFront(lru, c.size, k))
        /\ Wrote(c, d, lru[k], key, value)
    BY <2>2, <2>4 DEF Promoted, Struct, SameKeys, Wrote
  <2>6. display(d) = <<e>> \o WithoutAt(display(c), k)
    BY <1>1, <1>2, <2>5, FrontShown
  <2>7. display(d) = Abstract!Use(a, key, value)
    BY <1>4, <2>3, <2>6 DEF Abstract!Use
  <2>8. b = [capacity |-> Capacity, entries |-> Abstract!Use(a, key, value), hits |-> c.hits,
             misses |-> c.misses, evictions |-> c.evictions]
    BY <1>5, <2>2, <2>7 DEF SameCounters
  <2>9. Abstract!put(a, key, value) = [a EXCEPT !.entries = Abstract!Use(a, key, value)]
    BY <2>3 DEF Abstract!put
  <2>10. Abstract!put(a, key, value) = b
    BY <1>5, <2>8, <2>9
  <2> QED
    BY <2>10 DEF a, b, d
<1>7. CASE find_node(c, key) = NIL
  <2>1. ~ Abstract!Has(a, key) /\ Abstract!Use(a, key, value) = <<e>> \o display(c)
    <3>1. ~ Abstract!Has(a, key) /\ Abstract!Others(a, key) = display(c)
      BY <1>2, <1>7, NoEntry DEF a
    <3> QED
      BY <1>4, <3>1 DEF Abstract!Use
  <2>2. CASE c.size # Capacity
    <3> DEFINE n == c.free_head
    <3>1. /\ Struct(d) /\ d.size = c.size + 1 /\ n \in Node /\ n \notin Live(c)
          /\ Wrote(c, d, n, key, value) /\ SameCounters(c, d)
          /\ ListOf(d, Prepend(lru, c.size, n))
      BY <1>1, <1>2, <1>7, <2>2, PutRoom
    <3> HIDE DEF d, n
    <3>2. display(d) = <<e>> \o display(c)
      BY <1>1, <1>2, <3>1, NewShown DEF Struct
    <3>3. Len(a.entries) < a.capacity
      BY <1>3, <1>c, <2>2, CapacityAssumption
    <3>4. b = [capacity |-> Capacity, entries |-> Abstract!Use(a, key, value), hits |-> c.hits,
               misses |-> c.misses, evictions |-> c.evictions]
      BY <1>5, <2>1, <3>1, <3>2 DEF SameCounters
    <3>5. Abstract!put(a, key, value) = [a EXCEPT !.entries = Abstract!Use(a, key, value)]
      BY <3>3 DEF Abstract!put
    <3>6. Abstract!put(a, key, value) = b
      BY <1>5, <3>4, <3>5
    <3> QED
      BY <3>6 DEF a, b, d
  <2>3. CASE c.size = Capacity
    <3> DEFINE n == lru[c.size]
    <3>1. /\ Struct(d) /\ d.size = c.size /\ Wrote(c, d, n, key, value)
          /\ d.hits = c.hits /\ d.misses = c.misses /\ d.evictions = Increment(c.evictions)
          /\ ListOf(d, ToFront(lru, c.size, c.size))
      BY <1>1, <1>2, <1>7, <2>3, PutFull
    <3> HIDE DEF d
    <3>2. c.size \in 1 .. c.size /\ Len(display(c)) # 0
      BY <1>3, <2>3, CapacityAssumption
    <3>3. display(d) = <<e>> \o WithoutAt(display(c), c.size)
      BY <1>1, <1>2, <3>1, <3>2, FrontShown DEF Struct
    <3> HIDE DEF n
    <3>4. display(d) = SubSeq(<<e>> \o display(c), 1, Capacity)
      <4> DEFINE s == display(c)
      <4>1. s \in Seq(EntryType) /\ Len(s) = c.size /\ Len(s) # 0
        BY <1>3, <3>2
      <4> HIDE DEF s, e
      <4>2. SubSeq(<<e>> \o s, 1, Len(s)) = <<e>> \o WithoutAt(s, Len(s))
        BY <1>4, <4>1, CutLast
      <4> QED
        BY <2>3, <3>3, <4>1, <4>2 DEF s
    <3>5. ~ (Len(a.entries) < a.capacity)
      BY <1>3, <1>c, <2>3, CapacityAssumption
    <3>6. b = [capacity |-> Capacity, entries |-> SubSeq(Abstract!Use(a, key, value), 1, Capacity),
               hits |-> c.hits, misses |-> c.misses, evictions |-> Increment(c.evictions)]
      BY <1>5, <2>1, <3>1, <3>4
    <3>7. Abstract!put(a, key, value) =
            [a EXCEPT !.entries = SubSeq(Abstract!Use(a, key, value), 1, a.capacity),
                      !.evictions = Abstract!Increment(@)]
      BY <2>1, <3>5 DEF Abstract!put
    <3>8. Abstract!Increment(c.evictions) = Increment(c.evictions)
      BY IncrementIs
    <3>9. Abstract!put(a, key, value) = b
      BY <1>5, <3>6, <3>7, <3>8
    <3> QED
      BY <3>9 DEF a, b, d
  <2> QED
    BY <2>2, <2>3
<1> QED
  BY <1>6, <1>7

(* get does what the abstract get does: a hit if the key has an entry, a   *)
(* miss if it has none (lru_cache.cpp:99-109).                             *)
LEMMA GetImplements ==
  ASSUME NEW c, Sound(c), NEW key \in Keys
  PROVE  /\ AsLru(get(c, key)) = Abstract!get(AsLru(c), key)
         /\ get_result(c, key) = Abstract!get_result(AsLru(c), key)
<1> DEFINE d == get(c, key)
           r == get_result(c, key)
           a == AsLru(c)
           b == AsLru(d)
<1>1. Struct(c) /\ c \in CacheType
  BY DEF Sound, Struct
<1>a. PICK lru : FoundIn(c, key, lru)
  BY <1>1, FoundInList
<1>2. /\ ListOf(c, lru)
      /\ find_node(c, key) # NIL => \E k \in 1 .. c.size : find_node(c, key) = lru[k]
  BY <1>a DEF FoundIn
<1>3. /\ a = [capacity |-> Capacity, entries |-> display(c), hits |-> c.hits,
              misses |-> c.misses, evictions |-> c.evictions]
      /\ b = [capacity |-> Capacity, entries |-> display(d), hits |-> d.hits,
              misses |-> d.misses, evictions |-> d.evictions]
  BY DEF AsLru
<1>b. /\ Abstract!Increment(c.hits) = Increment(c.hits)
      /\ Abstract!Increment(c.misses) = Increment(c.misses)
  BY IncrementIs
<1> HIDE DEF a, b
<1>4. CASE find_node(c, key) # NIL
  <2>1. PICK k \in 1 .. c.size : find_node(c, key) = lru[k]
    BY <1>2, <1>4
  <2> DEFINE v == c.nodes[lru[k]].value
  <2>2. /\ Promoted(c, d, lru, k) /\ SameValues(c, d)
        /\ d.hits = Increment(c.hits) /\ d.misses = c.misses /\ d.evictions = c.evictions
        /\ r = [found |-> TRUE, value |-> v]
    BY <1>1, <1>2, <2>1, GetHit
  <2>3. /\ Abstract!Has(a, key) /\ Abstract!Value(a, key) = v
        /\ Abstract!Others(a, key) = WithoutAt(display(c), k)
    BY <1>2, <2>1, FoundEntry DEF a
  <2>4. lru[k] \in Node /\ c.nodes[lru[k]].key = key /\ v \in Values
    <3>1. lru[k] \in Live(c) /\ lru[k] \in Node /\ lru[k] # NIL
      BY <1>1, <1>2, ListIs, NILIs
    <3> QED
      BY <1>1, <2>1, <3>1, FindNodeIs DEF CacheType, NodeType
  <2> HIDE DEF d, r
  <2>5. /\ d \in CacheType /\ d.size = c.size /\ ListOf(d, ToFront(lru, c.size, k))
        /\ Wrote(c, d, lru[k], key, v)
    BY <2>2, <2>4 DEF Promoted, Struct, SameKeys, SameValues, Wrote
  <2> HIDE DEF v
  <2>6. display(d) = <<Entry(key, v)>> \o WithoutAt(display(c), k)
    BY <1>1, <1>2, <2>4, <2>5, FrontShown
  <2>7. display(d) = Abstract!Use(a, key, Abstract!Value(a, key))
    BY <2>3, <2>6 DEF Abstract!Use, Entry
  <2>8. b = [capacity |-> Capacity, entries |-> Abstract!Use(a, key, Abstract!Value(a, key)),
             hits |-> Increment(c.hits), misses |-> c.misses, evictions |-> c.evictions]
    BY <1>3, <2>2, <2>7
  <2>9. Abstract!get(a, key) =
          [a EXCEPT !.entries = Abstract!Use(a, key, Abstract!Value(a, key)),
                    !.hits = Abstract!Increment(@)]
    BY <2>3 DEF Abstract!get
  <2>10. Abstract!get(a, key) = b
    BY <1>3, <1>b, <2>8, <2>9
  <2>11. r = Abstract!get_result(a, key)
    BY <2>2, <2>3 DEF Abstract!get_result
  <2> QED
    BY <2>10, <2>11 DEF a, b, d, r
<1>5. CASE find_node(c, key) = NIL
  <2>1. /\ Struct(d) /\ d.nodes = c.nodes /\ d.size = c.size /\ ListOf(d, lru)
        /\ d.misses = Increment(c.misses) /\ d.hits = c.hits /\ d.evictions = c.evictions
        /\ r = Void
    BY <1>1, <1>2, <1>5, GetMiss
  <2>2. ~ Abstract!Has(a, key)
    BY <1>2, <1>5, NoEntry DEF a
  <2> HIDE DEF d, r
  <2>3. display(d) = display(c)
    <3>1. display(d) = Shown(d, lru) /\ display(c) = Shown(c, lru)
      BY <1>1, <1>2, <2>1, DisplayIs DEF Struct
    <3> QED
      BY <2>1, <3>1 DEF Shown
  <2>4. b = [capacity |-> Capacity, entries |-> display(c), hits |-> c.hits,
             misses |-> Increment(c.misses), evictions |-> c.evictions]
    BY <1>3, <2>1, <2>3
  <2>5. Abstract!get(a, key) = [a EXCEPT !.misses = Abstract!Increment(@)]
    BY <2>2 DEF Abstract!get
  <2>6. Abstract!get(a, key) = b
    BY <1>3, <1>b, <2>4, <2>5
  <2>7. r = Abstract!get_result(a, key)
    BY <2>1, <2>2 DEF Abstract!get_result, Void
  <2> QED
    BY <2>6, <2>7 DEF a, b, d, r
<1> QED
  BY <1>4, <1>5

(* remove does what the abstract remove does (lru_cache.cpp:111-150).      *)
LEMMA RemoveImplements ==
  ASSUME NEW c, Sound(c), NEW key \in Keys
  PROVE  /\ AsLru(remove(c, key)) = Abstract!remove(AsLru(c), key)
         /\ remove_result(c, key) = Abstract!Has(AsLru(c), key)
<1> DEFINE d == remove(c, key)
           a == AsLru(c)
           b == AsLru(d)
<1>1. /\ Struct(c) /\ c \in CacheType /\ remove_result(c, key) = (find_node(c, key) # NIL)
  BY DEF Sound, Struct, remove_result
<1>a. PICK lru : FoundIn(c, key, lru)
  BY <1>1, FoundInList
<1>2. /\ ListOf(c, lru)
      /\ find_node(c, key) # NIL => \E k \in 1 .. c.size : find_node(c, key) = lru[k]
  BY <1>a DEF FoundIn
<1>b. /\ a = [capacity |-> Capacity, entries |-> display(c), hits |-> c.hits,
              misses |-> c.misses, evictions |-> c.evictions]
      /\ b = [capacity |-> Capacity, entries |-> display(d), hits |-> d.hits,
              misses |-> d.misses, evictions |-> d.evictions]
  BY DEF AsLru
<1>c. Abstract!remove(a, key) =
        [capacity |-> Capacity, entries |-> Abstract!Others(a, key), hits |-> c.hits,
         misses |-> c.misses, evictions |-> c.evictions]
  <2> HIDE DEF a
  <2> QED
    BY <1>b DEF Abstract!remove
<1> HIDE DEF a, b
<1>3. CASE find_node(c, key) # NIL
  <2>1. PICK k \in 1 .. c.size : find_node(c, key) = lru[k]
    BY <1>2, <1>3
  <2>2. Dropped(c, d, lru, k) /\ d.evictions = c.evictions
    BY <1>1, <1>2, <2>1, RemoveHit
  <2>3. Abstract!Has(a, key) /\ Abstract!Others(a, key) = WithoutAt(display(c), k)
    BY <1>2, <2>1, FoundEntry DEF a
  <2> HIDE DEF d
  <2>4. d \in CacheType /\ d.hits = c.hits /\ d.misses = c.misses
    BY <2>2 DEF Dropped, Struct
  <2>5. display(d) = WithoutAt(display(c), k)
    BY <1>1, <1>2, <2>2, <2>4, LessShown
  <2>6. b = Abstract!remove(a, key)
    BY <1>b, <1>c, <2>2, <2>3, <2>4, <2>5
  <2>7. remove_result(c, key) = Abstract!Has(a, key)
    BY <1>1, <1>3, <2>3
  <2> QED
    BY <2>6, <2>7 DEF a, b, d
<1>4. CASE find_node(c, key) = NIL
  <2>1. ~ Abstract!Has(a, key) /\ Abstract!Others(a, key) = display(c)
    BY <1>2, <1>4, NoEntry DEF a
  <2>2. d = c
    BY <1>4 DEF remove, find_node
  <2>3. remove_result(c, key) = Abstract!Has(a, key)
    BY <1>1, <1>4, <2>1 DEF Abstract!Has
  <2> HIDE DEF d
  <2>4. b = Abstract!remove(a, key)
    BY <1>b, <1>c, <2>1, <2>2
  <2> QED
    BY <2>3, <2>4 DEF a, b, d
<1> QED
  BY <1>3, <1>4

(* An object of size zero whose counters are zero is a new cache.          *)
LEMMA NewAsLru ==
  ASSUME NEW c, Sound(c), c.size = 0, c.hits = 0, c.misses = 0, c.evictions = 0
  PROVE  AsLru(c) = Abstract!NewLru(Capacity)
<1>1. c \in CacheType
  BY DEF Sound, Struct
<1>2. PICK lru : ListOf(c, lru)
  BY <1>1, PartitionIs DEF Sound, Struct
<1>3. display(c) \in Seq(EntryType) /\ Len(display(c)) = 0
  BY <1>1, <1>2, ShownIs, DisplayIs
<1>4. display(c) = <<>>
  BY <1>3, EmptySeq
<1> QED
  BY <1>4 DEF AsLru, Abstract!NewLru

-----------------------------------------------------------------------------
(* The steps.                                                              *)

LEMMA InitImplements == Init => Abstract!Init
<1>1. /\ NewCache.size = 0 /\ NewCache.hits = 0 /\ NewCache.misses = 0 /\ NewCache.evictions = 0
  BY DEF NewCache
<1>2. AsLru(NewCache) = Abstract!NewLru(Capacity)
  BY <1>1, NewSound, NewAsLru
<1> QED
  BY <1>2 DEF Init, Void, Abstract!Init, Abstract!Void

LEMMA NextImplements == IInv /\ [Next]_vars => [Abstract!Next]_(Abstract!vars)
<1> SUFFICES ASSUME IInv, [Next]_vars
             PROVE  [Abstract!Next]_(Abstract!vars)
  OBVIOUS
<1>1. Sound(cache)
  BY IInvIs
<1>2. AsLru(cache)' = AsLru(cache') /\ Void = Abstract!Void
  BY DEF AsLru, display, Void, Abstract!Void
<1>3. ASSUME NEW k \in Keys, NEW v \in Values, Put(k, v)
      PROVE  Abstract!Next
  <2>1. Abstract!Put(k, v)
    BY <1>1, <1>2, <1>3, PutImplements DEF Put, Abstract!Put
  <2> QED
    BY <2>1 DEF Abstract!Next
<1>4. ASSUME NEW k \in Keys, Get(k)
      PROVE  Abstract!Next
  <2>1. Abstract!Get(k)
    BY <1>1, <1>2, <1>4, GetImplements DEF Get, Abstract!Get
  <2> QED
    BY <2>1 DEF Abstract!Next
<1>5. ASSUME NEW k \in Keys, Remove(k)
      PROVE  Abstract!Next
  <2>1. Abstract!Remove(k)
    BY <1>1, <1>2, <1>5, RemoveImplements DEF Remove, Abstract!Remove
  <2> QED
    BY <2>1 DEF Abstract!Next
<1>6. CASE Clear
  <2>1. /\ Sound(clear(cache)) /\ clear(cache).size = 0 /\ clear(cache).hits = 0
        /\ clear(cache).misses = 0 /\ clear(cache).evictions = 0
    BY <1>1, ClearSound DEF Sound
  <2>2. AsLru(clear(cache)) = Abstract!NewLru(Capacity)
    BY <2>1, NewAsLru
  <2>3. Abstract!clear(AsLru(cache)) = Abstract!NewLru(Capacity)
    BY AsLruIs DEF Abstract!clear
  <2>4. Abstract!Clear
    BY <1>2, <1>6, <2>2, <2>3 DEF Clear, Abstract!Clear
  <2> QED
    BY <2>4 DEF Abstract!Next
<1>7. CASE UNCHANGED vars
  <2>1. AsLru(cache)' = AsLru(cache) /\ ret' = ret
    BY <1>2, <1>7 DEF vars
  <2> QED
    BY <2>1 DEF Abstract!vars
<1> QED
  BY <1>3, <1>4, <1>5, <1>6, <1>7 DEF Next

(* Every call returns what the abstract LRU cache returns, evicts the      *)
(* entry it evicts and leaves the entries in the order it leaves them in,  *)
(* for every capacity, hash function and sequence of calls                 *)
(* (lru_cache.cpp:57-255).                                                 *)
THEOREM LruRefines == Spec => ImplementsLru
<1>1. IInv /\ [Next]_vars => [Abstract!Next]_(Abstract!vars)
  BY NextImplements
<1> QED
  BY <1>1, InitImplements, InitIInv, NextIInv, PTL DEF Spec, ImplementsLru, Abstract!Spec
=============================================================================
