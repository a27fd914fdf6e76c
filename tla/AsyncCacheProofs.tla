-------------------------- MODULE AsyncCacheProofs --------------------------
(***************************************************************************)
(* Proofs about async_cache for every size of its queues and of its cache, *)
(* any number of requests and any client: variables keep their types, and  *)
(* the answers come out complete, in order and right until the worker sees *)
(* the end.                                                                *)
(***************************************************************************)
EXTENDS AsyncCache, BasicLemmas

Core == INSTANCE LruCacheProofs WITH cache <- cache_, ret <- [found |-> FALSE, value |-> 0]

-----------------------------------------------------------------------------
(* The cache of the worker is an lru_cache: its operations keep it sound.  *)

LEMMA SameList ==
  /\ \A c, n : LRU!unlink_node(c, n) = Core!unlink_node(c, n)
  /\ \A c, n : LRU!link_node(c, n) = Core!link_node(c, n)
  /\ \A c, n : LRU!free_node(c, n) = Core!free_node(c, n)
  /\ \A c : LRU!allocate_node(c) = Core!allocate_node(c)
<1>1. \A c, n : LRU!unlink_node(c, n) = Core!unlink_node(c, n)
  BY Zenon DEF LRU!unlink_node, Core!unlink_node, LRU!NIL, Core!NIL
<1>2. \A c, n : LRU!link_node(c, n) = Core!link_node(c, n)
  <2> TAKE c, n
  <2> QED
    BY DEF LRU!link_node, Core!link_node, LRU!NIL, Core!NIL
<1>3. \A c, n : LRU!free_node(c, n) = Core!free_node(c, n)
  BY Zenon DEF LRU!free_node, Core!free_node
<1>4. \A c : LRU!allocate_node(c) = Core!allocate_node(c)
  BY Zenon DEF LRU!allocate_node, Core!allocate_node
<1> QED
  BY <1>1, <1>2, <1>3, <1>4

LEMMA SameTable ==
  /\ \A c, s : LRU!EraseSlot(c, s) = Core!EraseSlot(c, s)
  /\ \A c, k : LRU!KeySlot(c, k) = Core!KeySlot(c, k)
  /\ \A c, k : LRU!EmptySlot(c, k) = Core!EmptySlot(c, k)
  /\ \A c, n : LRU!NodeSlot(c, n) = Core!NodeSlot(c, n)
<1>1. \A c, s : LRU!EraseSlot(c, s) = Core!EraseSlot(c, s)
  BY Zenon DEF LRU!EraseSlot, LRU!ShiftStep, LRU!ShiftState, LRU!can_move, LRU!NextSlot, LRU!Slot, LRU!Node, LRU!NIL,
               Core!EraseSlot, Core!ShiftStep, Core!ShiftState, Core!can_move, Core!NextSlot, Core!Slot, Core!Node, Core!NIL
<1>2. \A c, k : LRU!KeySlot(c, k) = Core!KeySlot(c, k)
  BY Zenon DEF LRU!KeySlot, LRU!FirstSlot, LRU!Probe, LRU!Slot, LRU!NIL,
               Core!KeySlot, Core!FirstSlot, Core!Probe, Core!Slot, Core!NIL
<1>3. \A c, k : LRU!EmptySlot(c, k) = Core!EmptySlot(c, k)
  BY Zenon DEF LRU!EmptySlot, LRU!FirstSlot, LRU!Probe, LRU!Slot, LRU!NIL,
               Core!EmptySlot, Core!FirstSlot, Core!Probe, Core!Slot, Core!NIL
<1>4. \A c, n : LRU!NodeSlot(c, n) = Core!NodeSlot(c, n)
  BY Zenon DEF LRU!NodeSlot, LRU!FirstSlot, LRU!Probe, LRU!Slot,
               Core!NodeSlot, Core!FirstSlot, Core!Probe, Core!Slot
<1> QED
  BY <1>1, <1>2, <1>3, <1>4

LEMMA SameCalls ==
  /\ LRU!NewCache = Core!NewCache /\ LRU!CacheType = Core!CacheType
  /\ \A c, k, v : LRU!put(c, k, v) = Core!put(c, k, v)
  /\ \A c, k : LRU!get(c, k) = Core!get(c, k)
  /\ \A c, k : LRU!get_result(c, k) = Core!get_result(c, k)
<1>1. LRU!NewCache = Core!NewCache
  BY Zenon DEF LRU!NewCache, LRU!FreeLink, LRU!Slot, LRU!Node, LRU!NIL,
               Core!NewCache, Core!FreeLink, Core!Slot, Core!Node, Core!NIL
<1>2. LRU!CacheType = Core!CacheType
  BY Zenon DEF LRU!CacheType, LRU!NodeType, LRU!Counter, LRU!Slot, LRU!Node, LRU!NIL,
               Core!CacheType, Core!NodeType, Core!Counter, Core!Slot, Core!Node, Core!NIL
<1>3. \A c, n : LRU!promote(c, n) = Core!promote(c, n)
  BY SameList, Zenon DEF LRU!promote, Core!promote
<1>4. \A c : LRU!evict_lru(c) = Core!evict_lru(c)
  BY SameList, SameTable, Zenon DEF LRU!evict_lru, LRU!Increment, Core!evict_lru, Core!Increment
<1>5. \A c, s, k, v : LRU!InsertAt(c, s, k, v) = Core!InsertAt(c, s, k, v)
  <2> TAKE c, s, k, v
  <2> DEFINE n == c.free_head
             a == Core!allocate_node(c)
             b == [a EXCEPT !.nodes[n].key = k, !.nodes[n].value = v, !.hash_table[s] = n]
  <2>1. LRU!allocate_node(c) = a
    BY SameList
  <2>2. Core!InsertAt(c, s, k, v) = Core!link_node(b, n)
    BY DEF Core!InsertAt
  <2>3. LRU!InsertAt(c, s, k, v) = LRU!link_node(b, n)
    <3> HIDE DEF a
    <3> QED
      BY <2>1, Zenon DEF LRU!InsertAt
  <2> HIDE DEF b
  <2> QED
    BY <2>2, <2>3, SameList
<1>6. \A c, k : LRU!find_node(c, k) = Core!find_node(c, k)
  BY SameTable, Zenon DEF LRU!find_node, Core!find_node
<1>7. \A c, k, v : LRU!put(c, k, v) = Core!put(c, k, v)
  <2> TAKE c, k, v
  <2> DEFINE s == Core!KeySlot(c, k)
             n == c.hash_table[s]
             w == [c EXCEPT !.nodes[n].value = v]
             e == Core!evict_lru(c)
             p == Core!put(c, k, v)
  <2>1. p = IF n # Core!NIL THEN Core!promote(w, n)
            ELSE IF c.size = Capacity THEN Core!InsertAt(e, Core!EmptySlot(e, k), k, v)
            ELSE Core!InsertAt(c, s, k, v)
    BY Zenon DEF Core!put
  <2>2. LRU!KeySlot(c, k) = s /\ LRU!evict_lru(c) = e /\ LRU!NIL = Core!NIL
    BY <1>4, SameTable DEF LRU!NIL, Core!NIL
  <2> HIDE DEF s, e, p
  <2>3. LRU!put(c, k, v) = IF n # Core!NIL THEN LRU!promote(w, n)
                           ELSE IF c.size = Capacity THEN LRU!InsertAt(e, LRU!EmptySlot(e, k), k, v)
                           ELSE LRU!InsertAt(c, s, k, v)
    BY <2>2, Zenon DEF LRU!put
  <2> HIDE DEF n, w
  <2>4. LRU!put(c, k, v) = p
    BY <1>3, <1>5, SameTable, <2>1, <2>3
  <2> QED
    BY <2>4 DEF p
<1>8. \A c, k : LRU!get(c, k) = Core!get(c, k)
  BY <1>3, <1>6, Zenon DEF LRU!get, LRU!Increment, LRU!NIL, Core!get, Core!Increment, Core!NIL
<1>9. \A c, k : LRU!get_result(c, k) = Core!get_result(c, k)
  BY <1>6, <1>8, Zenon DEF LRU!get_result, LRU!NIL, Core!get_result, Core!NIL
<1> QED
  BY <1>1, <1>2, <1>7, <1>8, <1>9

(* The caches that calls lead to.                                          *)
Caches == {c \in LRU!CacheType : Core!Sound(c)}

Results == [found : BOOLEAN, value : Values]

LEMMA CoreAssumptions ==
  /\ Capacity \in Nat \ {0}
  /\ TableSize = Core!next_power_of_two(2 * Capacity)
  /\ Keys \subseteq Nat /\ 0 \in Keys
  /\ Values \subseteq Nat /\ 0 \in Values
  /\ Hash \in [Keys -> Core!Slot]
  /\ SizeMod \in Nat \ {0}
<1>1. TableSize = Core!next_power_of_two(2 * Capacity)
  BY CacheAssumption, Zenon DEF LRU!next_power_of_two, Core!next_power_of_two
<1>2. LRU!Slot = Core!Slot
  BY DEF LRU!Slot, Core!Slot
<1> QED
  BY <1>1, <1>2, CacheAssumption

LEMMA CallsAreSound ==
  /\ LRU!NewCache \in Caches
  /\ \A c \in Caches, key \in Keys, value \in Values : LRU!put(c, key, value) \in Caches
  /\ \A c \in Caches, key \in Keys : LRU!get(c, key) \in Caches /\ LRU!get_result(c, key) \in Results
<1>1. \A c : Core!Sound(c) => c \in Core!CacheType
  BY Zenon DEF Core!Sound, Core!Struct
<1>2. Core!Sound(Core!NewCache)
  BY CoreAssumptions, Core!NewSound
<1>3. ASSUME NEW c, Core!Sound(c), NEW key \in Keys, NEW value \in Values
      PROVE  Core!Sound(Core!put(c, key, value))
  BY <1>3, CoreAssumptions, Core!PutSound
<1>4. ASSUME NEW c, Core!Sound(c), NEW key \in Keys
      PROVE  Core!Sound(Core!get(c, key)) /\ Core!get_result(c, key) \in Results
  BY <1>4, CoreAssumptions, Core!GetSound DEF Results
<1> QED
  BY <1>1, <1>2, <1>3, <1>4, SameCalls DEF Caches

-----------------------------------------------------------------------------
(* The cache that executes requests one after another.                     *)

Machines == [cache : Caches, answers : Seq(cache_response)]

Start == [cache |-> LRU!NewCache, answers |-> <<>>]

LEMMA StartIs == Start \in Machines
  BY CallsAreSound, EmptySeq DEF Start, Machines

LEMMA ExecuteIs ==
  ASSUME NEW s \in Machines, NEW req \in cache_request
  PROVE  Execute(s, req) \in Machines
<1>1. s.cache \in Caches /\ s.answers \in Seq(cache_response)
  BY DEF Machines
<1>2. req.key \in Keys /\ req.value \in Values /\ req.req_id \in 0 .. MaxRequests
  BY DEF cache_request
<1>3. CASE req.type = "PUT"
  BY <1>1, <1>2, <1>3, CallsAreSound DEF Execute, Machines
<1>4. CASE req.type # "PUT"
  <2> DEFINE res == LRU!get_result(s.cache, req.key)
             answer == [req_id |-> req.req_id, found |-> res.found, value |-> res.value]
  <2>1. res \in Results /\ LRU!get(s.cache, req.key) \in Caches
    BY <1>1, <1>2, CallsAreSound
  <2> HIDE DEF res
  <2>2. answer \in cache_response
    BY <1>2, <2>1 DEF Results, cache_response
  <2>3. Execute(s, req) = [cache |-> LRU!get(s.cache, req.key), answers |-> Append(s.answers, answer)]
    BY <1>4 DEF Execute, res
  <2> HIDE DEF answer
  <2> QED
    BY <1>1, <2>1, <2>2, <2>3 DEF Machines
<1> QED
  BY <1>3, <1>4

(* The recursive function of Executed exists and runs through the          *)
(* requests.                                                               *)
RunsThrough(requests, after) ==
  /\ after[0] = Start
  /\ \A i \in 1 .. Len(requests) : after[i] = Execute(after[i - 1], requests[i])
  /\ Executed(requests) = after[Len(requests)]

LEMMA ExecutedIs ==
  ASSUME NEW requests \in Seq(cache_request)
  PROVE  \E after \in [0 .. Len(requests) -> Machines] : RunsThrough(requests, after)
<1> DEFINE n == Len(requests)
           Body(g) == [i \in 0 .. n |-> IF i = 0 THEN Start ELSE Execute(g[i - 1], requests[i])]
           F == [i \in 1 .. n |-> [s \in Machines |-> Execute(s, requests[i])]]
           after == CHOOSE g : g = Body(g)
<1>1. n \in Nat /\ \A i \in 1 .. n : requests[i] \in cache_request
  BY LenProperties, ElementOfSeq
<1>2. F \in [1 .. n -> [Machines -> Machines]]
  BY <1>1, ExecuteIs
<1>3. PICK run \in [0 .. n -> Machines] : StepRun(F, Start, n, run)
  <2> HIDE DEF F, n
  <2> QED
    BY <1>1, <1>2, StartIs, StepsDefined
<1>4. \A i \in 1 .. n : run[i] = Execute(run[i - 1], requests[i])
  <2> TAKE i \in 1 .. n
  <2>1. i - 1 \in 0 .. n
    BY <1>1
  <2> HIDE DEF n
  <2> QED
    BY <1>3, <2>1 DEF StepRun
<1>s. run[0] = Start
  BY <1>3 DEF StepRun
<1> HIDE DEF n, F
<1>5. run = Body(run)
  <2>1. \A i \in 0 .. n : run[i] = Body(run)[i]
    BY <1>1, <1>s, <1>4
  <2> QED
    BY <2>1
<1>6. after = Body(after)
  BY <1>5
<1> HIDE DEF after
<1>7. \A i \in Nat : i <= n => after[i] = run[i]
  <2> DEFINE P == {i \in Nat : i <= n => after[i] = run[i]}
  <2>1. 0 \in P
    BY <1>1, <1>s, <1>6
  <2>2. ASSUME NEW i \in Nat, i \in P
        PROVE  i + 1 \in P
    <3> SUFFICES ASSUME i + 1 <= n
                 PROVE  after[i + 1] = run[i + 1]
      OBVIOUS
    <3>1. i + 1 \in 0 .. n /\ i + 1 \in 1 .. n /\ i + 1 # 0 /\ i + 1 - 1 = i /\ i <= n
      BY <1>1
    <3>2. after[i + 1] = Execute(after[i], requests[i + 1])
      BY <1>6, <3>1
    <3>3. run[i + 1] = Execute(run[i], requests[i + 1])
      BY <1>4, <3>1
    <3> QED
      BY <2>2, <3>1, <3>2, <3>3
  <2> HIDE DEF P
  <2>3. \A i \in Nat : i \in P
    BY <2>1, <2>2, SetInduction
  <2> QED
    BY <2>3 DEF P
<1>8. Executed(requests) = after[n]
  BY DEF Executed, after, Start, n
<1> QED
  BY <1>1, <1>s, <1>4, <1>7, <1>8 DEF RunsThrough, n

(* No request, and one more request.                                       *)
LEMMA ExecutedNone == Executed(<<>>) = Start
<1>1. <<>> \in Seq(cache_request) /\ Len(<<>>) = 0
  BY EmptySeq
<1>2. PICK requests : requests = <<>>
  OBVIOUS
<1>3. PICK after \in [0 .. Len(requests) -> Machines] : RunsThrough(requests, after)
  BY <1>1, <1>2, ExecutedIs
<1> QED
  BY <1>1, <1>2, <1>3 DEF RunsThrough

LEMMA ExecutedMore ==
  ASSUME NEW requests \in Seq(cache_request), NEW req \in cache_request
  PROVE  /\ Executed(requests) \in Machines
         /\ Executed(Append(requests, req)) = Execute(Executed(requests), req)
<1> DEFINE more == Append(requests, req)
           n == Len(requests)
<1>1. /\ more \in Seq(cache_request) /\ Len(more) = n + 1 /\ n \in Nat
      /\ \A i \in 1 .. n : more[i] = requests[i]
      /\ more[n + 1] = req
  BY AppendProperties, LenProperties
<1> HIDE DEF more
<1>2. PICK a \in [0 .. Len(requests) -> Machines] : RunsThrough(requests, a)
  BY ExecutedIs
<1>3. PICK b \in [0 .. Len(more) -> Machines] : RunsThrough(more, b)
  BY <1>1, ExecutedIs
<1>4. \A i \in Nat : i <= n => b[i] = a[i]
  <2> DEFINE P == {i \in Nat : i <= n => b[i] = a[i]}
  <2>1. 0 \in P
    BY <1>2, <1>3 DEF RunsThrough
  <2>2. ASSUME NEW i \in Nat, i \in P
        PROVE  i + 1 \in P
    <3> SUFFICES ASSUME i + 1 <= n
                 PROVE  b[i + 1] = a[i + 1]
      OBVIOUS
    <3>1. i + 1 \in 1 .. n /\ i + 1 \in 1 .. Len(more) /\ i + 1 - 1 = i /\ i <= n
      BY <1>1
    <3>2. a[i + 1] = Execute(a[i], requests[i + 1])
      BY <1>2, <3>1 DEF RunsThrough
    <3>3. b[i + 1] = Execute(b[i], more[i + 1])
      BY <1>3, <3>1 DEF RunsThrough
    <3> QED
      BY <1>1, <2>2, <3>1, <3>2, <3>3
  <2> HIDE DEF P
  <2>3. \A i \in Nat : i \in P
    BY <2>1, <2>2, SetInduction
  <2> QED
    BY <2>3 DEF P
<1>5. Executed(requests) = a[n] /\ a[n] \in Machines
  BY <1>1, <1>2 DEF RunsThrough
<1>6. Executed(more) = b[n + 1] /\ b[n + 1] = Execute(b[n], req)
  <2>1. n + 1 \in 1 .. Len(more) /\ n + 1 - 1 = n
    BY <1>1
  <2> QED
    BY <1>1, <1>3, <2>1 DEF RunsThrough
<1>7. b[n] = a[n]
  BY <1>1, <1>4
<1> QED
  BY <1>5, <1>6, <1>7 DEF more

-----------------------------------------------------------------------------
(* Channels of items of one type.                                          *)

ChannelsOf(T) == [sent : Seq(T), ready : Seq(T), freed : Nat]

Load(ch) == Len(ch.sent) + Len(ch.ready) + ch.freed

LEMMA ContentsIs ==
  ASSUME NEW T, NEW ch \in ChannelsOf(T)
  PROVE  /\ Contents(ch) \in Seq(T) /\ Len(Contents(ch)) = Len(ch.ready) + Len(ch.sent)
         /\ Len(ch.ready) \in Nat /\ Len(ch.sent) \in Nat /\ ch.freed \in Nat
         /\ Len(Contents(ch)) + ch.freed = Load(ch)
<1> DEFINE r == ch.ready
           s == ch.sent
           f == ch.freed
<1>1. r \in Seq(T) /\ s \in Seq(T) /\ f \in Nat /\ Load(ch) = Len(s) + Len(r) + f
  BY DEF ChannelsOf, Load
<1>2. Contents(ch) = r \o s
  BY DEF Contents
<1> HIDE DEF r, s, f
<1>3. Len(r) \in Nat /\ Len(s) \in Nat
  BY <1>1, LenProperties
<1>4. r \o s \in Seq(T) /\ Len(r \o s) = Len(r) + Len(s)
  BY <1>1, ConcatProperties
<1>5. Len(r \o s) + f = Load(ch)
  BY <1>1, <1>3, <1>4
<1> QED
  BY <1>1, <1>2, <1>3, <1>4, <1>5 DEF r, s, f

LEMMA PushedIs ==
  ASSUME NEW T, NEW ch \in ChannelsOf(T), NEW item \in T
  PROVE  /\ Pushed(ch, item) \in ChannelsOf(T) /\ Load(Pushed(ch, item)) = Load(ch) + 1
         /\ Contents(Pushed(ch, item)) = Append(Contents(ch), item)
<1> DEFINE p == Pushed(ch, item)
           r == ch.ready
           s == ch.sent
           f == ch.freed
           more == Append(s, item)
<1>1. r \in Seq(T) /\ s \in Seq(T) /\ f \in Nat
  BY DEF ChannelsOf
<1>2. more \in Seq(T) /\ Len(more) = Len(s) + 1 /\ more = s \o <<item>>
  BY <1>1, AppendProperties, AppendIsConcat
<1>3. p \in ChannelsOf(T) /\ p.sent = more /\ p.ready = r /\ p.freed = f
  BY <1>2 DEF Pushed, ChannelsOf
<1>4. /\ Load(ch) = Len(s) + Len(r) + f /\ Load(p) = Len(more) + Len(r) + f
      /\ Contents(ch) = r \o s /\ Contents(p) = r \o more
  <2> HIDE DEF p, more
  <2> QED
    BY <1>3 DEF Load, Contents
<1>5. PICK t : t = <<item>>
  OBVIOUS
<1>6. t \in Seq(T)
  BY <1>5
<1> HIDE DEF p, r, s, f, more
<1>7. r \o (s \o t) = (r \o s) \o t
  BY <1>1, <1>6, ConcatAssociative
<1>8. Append(r \o s, item) = (r \o s) \o t
  <2>1. r \o s \in Seq(T)
    BY <1>1, ConcatProperties
  <2> QED
    BY <1>5, <2>1, AppendIsConcat
<1>9. Len(more) + Len(r) + f = Len(s) + Len(r) + f + 1
  <2>1. Len(s) \in Nat /\ Len(r) \in Nat
    BY <1>1, LenProperties
  <2> QED
    BY <1>1, <1>2, <2>1
<1>10. Contents(p) = Append(Contents(ch), item)
  BY <1>2, <1>4, <1>5, <1>7, <1>8
<1> QED
  BY <1>3, <1>4, <1>9, <1>10 DEF p

LEMMA PoppedIs ==
  ASSUME NEW T, NEW ch \in ChannelsOf(T), ~ Empty(ch)
  PROVE  /\ Popped(ch) \in ChannelsOf(T) /\ Load(Popped(ch)) = Load(ch)
         /\ Contents(ch) # <<>> /\ Head(ch.ready) = Head(Contents(ch)) /\ Head(ch.ready) \in T
         /\ Contents(Popped(ch)) = Tail(Contents(ch))
<1> DEFINE p == Popped(ch)
           r == ch.ready
           s == ch.sent
           f == ch.freed
           q == Tail(r)
<1>1. r \in Seq(T) /\ s \in Seq(T) /\ f \in Nat /\ r # <<>>
  BY DEF ChannelsOf, Empty
<1>2. Head(r) \in T /\ q \in Seq(T) /\ Len(q) = Len(r) - 1
  BY <1>1, HeadTailProperties
<1>3. p \in ChannelsOf(T) /\ p.sent = s /\ p.ready = q /\ p.freed = f + 1
  BY <1>1, <1>2 DEF Popped, ChannelsOf
<1>4. /\ Load(ch) = Len(s) + Len(r) + f /\ Load(p) = Len(s) + Len(q) + (f + 1)
      /\ Contents(ch) = r \o s /\ Contents(p) = q \o s
  <2> HIDE DEF p, q
  <2> QED
    BY <1>3 DEF Load, Contents
<1> HIDE DEF p, r, s, f
<1>5. r \o s # <<>> /\ Head(r \o s) = Head(r) /\ Tail(r \o s) = q \o s
  BY <1>1, TailOfConcat
<1> HIDE DEF q
<1>6. Len(s) + Len(q) + (f + 1) = Len(s) + Len(r) + f
  <2>1. Len(s) \in Nat /\ Len(r) \in Nat
    BY <1>1, LenProperties
  <2> QED
    BY <1>1, <1>2, <2>1
<1> QED
  BY <1>2, <1>3, <1>4, <1>5, <1>6 DEF p, r

(* News on its way changes neither the items nor the load, room that is    *)
(* seen only the load.                                                     *)
LEMMA ArrivedIs ==
  ASSUME NEW T, NEW ch \in ChannelsOf(T), NEW d \in Arrivals(ch)
  PROVE  d \in ChannelsOf(T) /\ Contents(d) = Contents(ch) /\ Load(d) = Load(ch)
<1> DEFINE r == ch.ready
           s == ch.sent
           f == ch.freed
           a(n) == SubSeq(s, 1, n)
           b(n) == SubSeq(s, n + 1, Len(s))
<1>1. r \in Seq(T) /\ s \in Seq(T) /\ f \in Nat /\ Len(s) \in Nat
  BY LenProperties DEF ChannelsOf
<1>2. PICK n \in 1 .. Len(s) : d = [sent |-> b(n), ready |-> r \o a(n), freed |-> f]
  BY DEF Arrivals
<1>3. Contents(ch) = r \o s
  BY DEF Contents
<1> HIDE DEF r, s, f
<1>4. a(n) \in Seq(T) /\ b(n) \in Seq(T)
  <2>1. \A i \in 1 .. Len(s) : s[i] \in T
    BY <1>1, ElementOfSeq
  <2>2. /\ 1 \in Int /\ n \in Int /\ n + 1 \in Int /\ Len(s) \in Int
        /\ \A i \in 1 .. n : s[i] \in T
        /\ \A i \in n + 1 .. Len(s) : s[i] \in T
    BY <1>1, <2>1
  <2>3. a(n) \in Seq(T)
    BY <2>2, SubSeqProperties
  <2>4. b(n) \in Seq(T)
    BY <2>2, SubSeqProperties
  <2> QED
    BY <2>3, <2>4
<1>5. s = a(n) \o b(n)
  <2>1. CASE n = Len(s)
    <3>1. SubSeq(s, 1, Len(s)) = s
      BY <1>1, SubSeqFull
    <3>2. SubSeq(s, n + 1, Len(s)) = <<>>
      <4>1. n + 1 \in Int /\ Len(s) \in Int /\ Len(s) < n + 1
        BY <1>1, <2>1
      <4> QED
        BY <4>1, SubSeqEmpty
    <3> QED
      BY <1>1, <2>1, <3>1, <3>2, ConcatEmptySeq
  <2>2. CASE n # Len(s)
    <3>1. SubSeq(s, 1, Len(s)) = s
      BY <1>1, SubSeqFull
    <3>2. 1 \in 1 .. Len(s) + 1 /\ Len(s) \in 1 - 1 .. Len(s) /\ n \in 1 - 1 .. Len(s)
      BY <1>1
    <3>3. SubSeq(s, 1, n) \o SubSeq(s, n + 1, Len(s)) = SubSeq(s, 1, Len(s))
      BY <1>1, <3>2, ConcatAdjacentSubSeq
    <3> QED
      BY <3>1, <3>3
  <2> QED
    BY <2>1, <2>2
<1> HIDE DEF a, b
<1>6. /\ r \o a(n) \in Seq(T) /\ Len(r \o a(n)) = Len(r) + Len(a(n))
      /\ (r \o a(n)) \o b(n) = r \o s
      /\ Len(s) = Len(a(n)) + Len(b(n))
  BY <1>1, <1>4, <1>5, ConcatProperties, ConcatAssociative
<1>7. /\ d.sent = b(n) /\ d.ready = r \o a(n) /\ d.freed = f
      /\ d \in ChannelsOf(T)
  BY <1>1, <1>2, <1>4, <1>6 DEF ChannelsOf
<1>8. Contents(d) = r \o s
  BY <1>6, <1>7 DEF Contents
<1>9. Load(d) = Len(b(n)) + Len(r \o a(n)) + f /\ Load(ch) = Len(s) + Len(r) + f
  BY <1>7 DEF Load, s, r, f
<1>10. Load(d) = Load(ch)
  <2>1. Len(r) \in Nat /\ Len(a(n)) \in Nat /\ Len(b(n)) \in Nat
    BY <1>1, <1>4, LenProperties
  <2> QED
    BY <1>1, <1>6, <1>9, <2>1
<1> QED
  BY <1>3, <1>7, <1>8, <1>10

LEMMA ReturnedIs ==
  ASSUME NEW T, NEW ch \in ChannelsOf(T), NEW d \in Returns(ch)
  PROVE  d \in ChannelsOf(T) /\ Contents(d) = Contents(ch) /\ Load(d) <= Load(ch)
<1> DEFINE r == ch.ready
           s == ch.sent
           f == ch.freed
<1>1. r \in Seq(T) /\ s \in Seq(T) /\ f \in Nat /\ Load(ch) = Len(s) + Len(r) + f
  BY DEF ChannelsOf, Load
<1>2. PICK n \in 0 .. f - 1 : d = [ch EXCEPT !.freed = n]
  BY DEF Returns
<1>3. d \in ChannelsOf(T) /\ d.ready = r /\ d.sent = s /\ d.freed = n
  BY <1>1, <1>2 DEF ChannelsOf
<1>4. Contents(d) = Contents(ch)
  BY <1>3 DEF Contents
<1> HIDE DEF r, s, f
<1>5. Load(d) = Len(s) + Len(r) + n
  BY <1>3 DEF Load
<1>6. Len(s) \in Nat /\ Len(r) \in Nat
  BY <1>1, LenProperties
<1>7. Load(d) <= Load(ch)
  BY <1>1, <1>5, <1>6
<1> QED
  BY <1>3, <1>4, <1>7

(* A log that ends with the items on their way: it grows with them, and    *)
(* the part before them grows when one is taken.                           *)
Before(requests, c) == SubSeq(requests, 1, Len(requests) - Len(c))

EndsWith(requests, c) == Len(c) <= Len(requests) /\ requests = Before(requests, c) \o c

LEMMA BeforeIs ==
  ASSUME NEW T, NEW l \in Seq(T), NEW c \in Seq(T), EndsWith(l, c)
  PROVE  /\ Len(l) \in Nat /\ Len(c) \in Nat /\ Len(l) - Len(c) \in 0 .. Len(l)
         /\ Before(l, c) \in Seq(T) /\ Len(Before(l, c)) = Len(l) - Len(c)
<1>1. Len(l) \in Nat /\ Len(c) \in Nat /\ Len(c) <= Len(l)
  BY LenProperties DEF EndsWith
<1>2. Len(l) - Len(c) \in 0 .. Len(l)
  BY <1>1
<1>3. Before(l, c) \in Seq(T)
  BY <1>2, FirstOnes DEF Before
<1>4. Len(l) = Len(Before(l, c)) + Len(c) /\ Len(Before(l, c)) \in Nat
  <2> DEFINE b == Before(l, c)
  <2>1. l = b \o c
    BY DEF EndsWith
  <2> HIDE DEF b
  <2> QED
    BY <1>3, <2>1, ConcatProperties, LenProperties DEF b
<1> QED
  BY <1>1, <1>2, <1>3, <1>4

LEMMA OneSent ==
  ASSUME NEW T, NEW l \in Seq(T), NEW c \in Seq(T), EndsWith(l, c), NEW e \in T
  PROVE  /\ EndsWith(Append(l, e), Append(c, e))
         /\ Before(Append(l, e), Append(c, e)) = Before(l, c)
<1> DEFINE l2 == Append(l, e)
           c2 == Append(c, e)
           b == Before(l, c)
<1>1. /\ Len(l) \in Nat /\ Len(c) \in Nat /\ Len(l) - Len(c) \in 0 .. Len(l)
      /\ b \in Seq(T)
  BY BeforeIs
<1>2. Len(l2) = Len(l) + 1 /\ Len(c2) = Len(c) + 1 /\ c2 \in Seq(T)
  BY AppendProperties
<1>3. SubSeq(l2, 1, Len(l) - Len(c)) = SubSeq(l, 1, Len(l) - Len(c))
  BY <1>1, FirstOnes
<1>4. l2 = b \o c2
  <2>1. PICK t : t = <<e>>
    OBVIOUS
  <2>2. t \in Seq(T)
    BY <2>1
  <2>3. l = b \o c
    BY DEF EndsWith
  <2> HIDE DEF b
  <2>4. (b \o c) \o t = b \o (c \o t)
    BY <1>1, <2>2, ConcatAssociative
  <2>5. l2 = l \o t /\ c2 = c \o t
    BY <2>1, AppendIsConcat
  <2> QED
    BY <2>3, <2>4, <2>5
<1> HIDE DEF l2, c2
<1>5. Len(l2) - Len(c2) = Len(l) - Len(c) /\ Len(c2) <= Len(l2)
  BY <1>1, <1>2
<1>6. Before(l2, c2) = b
  BY <1>3, <1>5 DEF Before
<1>7. EndsWith(l2, c2)
  BY <1>4, <1>5, <1>6 DEF EndsWith
<1> QED
  BY <1>6, <1>7 DEF l2, c2

LEMMA OneTaken ==
  ASSUME NEW T, NEW l \in Seq(T), NEW c \in Seq(T), EndsWith(l, c), c # <<>>
  PROVE  /\ EndsWith(l, Tail(c))
         /\ Before(l, Tail(c)) = Append(Before(l, c), Head(c))
<1> DEFINE q == Tail(c)
           h == Head(c)
           b == Before(l, c)
           m == Len(l) - Len(c)
<1>1. /\ Len(l) \in Nat /\ Len(c) \in Nat /\ m \in 0 .. Len(l)
      /\ b \in Seq(T) /\ Len(b) = m
  BY BeforeIs
<1>2. h = c[1] /\ h \in T /\ q \in Seq(T) /\ Len(q) = Len(c) - 1 /\ Len(c) # 0
  BY HeadTailProperties, EmptySeq
<1>3. l = b \o c
  BY DEF EndsWith
<1>4. b = SubSeq(l, 1, m)
  BY DEF Before
<1> HIDE DEF b, q, h
<1>5. m < Len(l) /\ m + 1 \in 1 .. Len(l) /\ Len(l) - Len(q) = m + 1 /\ Len(q) <= Len(l)
  BY <1>1, <1>2
<1>6. l[m + 1] = h
  <2>1. m + 1 \in 1 .. Len(b) + Len(c) /\ ~ (m + 1 <= Len(b)) /\ m + 1 - Len(b) = 1
    BY <1>1, <1>5
  <2>2. (b \o c)[m + 1] = IF m + 1 <= Len(b) THEN b[m + 1] ELSE c[m + 1 - Len(b)]
    BY <1>1, <2>1, ConcatProperties
  <2> QED
    BY <1>2, <1>3, <2>1, <2>2
<1>7. SubSeq(l, 1, m + 1) = Append(SubSeq(l, 1, m), l[m + 1])
  BY <1>1, <1>5, FirstOnes
<1>8. Before(l, q) = Append(b, h)
  BY <1>4, <1>5, <1>6, <1>7 DEF Before
<1>9. l = Append(b, h) \o q
  BY <1>1, <1>3, HeadMoves DEF h, q
<1> QED
  BY <1>5, <1>8, <1>9 DEF EndsWith, b, q, h

-----------------------------------------------------------------------------
(* The inductive invariant.                                                *)

Responses == received \o Contents(outbox_) \o Pending

(* The cache and the answers as they are: what the worker has executed.    *)
Done == [cache |-> cache_, answers |-> Responses]

Typed ==
  /\ cache_ \in Caches
  /\ inbox_ \in ChannelsOf(cache_request) /\ Load(inbox_) <= QueueCapacity
  /\ outbox_ \in ChannelsOf(cache_response) /\ Load(outbox_) <= QueueCapacity
  /\ running_ \in [stored : BOOLEAN, visible : BOOLEAN]
  /\ worker \in [pc : {"check", "pop", "respond", "drain", "done"}, response : cache_response]
  /\ client \in [pc : {"idle", "push", "join", "joined"}, request : cache_request]
  /\ log \in Seq(cache_request) /\ received \in Seq(cache_response)

(* The requests in inbox_ are the last that were sent, the end is not seen *)
(* before it comes, and the worker that has not seen it is in its loop and *)
(* has executed the requests that it took.                                 *)
IInv ==
  /\ Typed
  /\ EndsWith(log, Contents(inbox_))
  /\ running_.stored => running_.visible
  /\ running_.visible => worker.pc \in {"check", "pop", "respond"} /\ Done = Executed(Taken)

(* A client that sends any requests.                                       *)
AnyClient ==
  \/ \E request \in cache_request : Call(request)
  \/ Send \/ poll_response \/ Destroy \/ Join \/ Gone

AnyNext == AnyClient \/ Worker \/ Visibility

AnySpec == Init /\ [][AnyNext]_vars

LEMMA NoMessages == NoRequest \in cache_request /\ NoResponse \in cache_response
<1>1. 0 \in 0 .. MaxRequests /\ 0 \in Keys /\ 0 \in Values
  BY CacheAssumption, ClientAssumption
<1> QED
  BY <1>1 DEF NoRequest, NoResponse, cache_request, cache_response

LEMMA Basics ==
  ASSUME IInv
  PROVE  /\ Contents(inbox_) \in Seq(cache_request) /\ Contents(outbox_) \in Seq(cache_response)
         /\ Pending \in Seq(cache_response) /\ received \o Contents(outbox_) \in Seq(cache_response)
         /\ Responses \in Seq(cache_response) /\ Done \in Machines
         /\ Taken = Before(log, Contents(inbox_)) /\ Taken \in Seq(cache_request)
<1>1. Contents(inbox_) \in Seq(cache_request) /\ Contents(outbox_) \in Seq(cache_response)
  BY ContentsIs DEF IInv, Typed
<1>2. Pending \in Seq(cache_response)
  <2>1. worker.response \in cache_response
    BY DEF IInv, Typed
  <2> QED
    BY <2>1, EmptySeq DEF Pending
<1>3. received \o Contents(outbox_) \in Seq(cache_response) /\ Responses \in Seq(cache_response)
  BY <1>1, <1>2, ConcatProperties DEF Responses, IInv, Typed
<1>4. Done \in Machines
  BY <1>3 DEF Done, Machines, IInv, Typed
<1>5. Taken = Before(log, Contents(inbox_))
  BY DEF Taken, Before
<1>6. Taken \in Seq(cache_request)
  BY <1>1, <1>5, BeforeIs DEF IInv, Typed
<1> QED
  BY <1>1, <1>2, <1>3, <1>4, <1>5, <1>6

(* Steps that take no request.                                             *)
LEMMA NothingTaken ==
  ASSUME IInv, Typed', log' = log, Contents(inbox_') = Contents(inbox_),
         running_'.stored => running_'.visible,
         running_'.visible => /\ running_.visible /\ worker'.pc \in {"check", "pop", "respond"}
                              /\ Done' = Done
  PROVE  IInv'
<1>1. EndsWith(log, Contents(inbox_))'
  BY DEF IInv
<1>2. Taken' = Taken
  BY DEF Taken
<1>3. ASSUME running_'.visible
      PROVE  Done' = Executed(Taken)'
  BY <1>2, <1>3 DEF IInv
<1> QED
  BY <1>1, <1>3 DEF IInv

LEMMA Init_IInv == Init => IInv
<1> SUFFICES ASSUME Init
             PROVE  IInv
  OBVIOUS
<1>1. /\ cache_ = LRU!NewCache /\ inbox_ = NewChannel /\ outbox_ = NewChannel
      /\ running_ = [stored |-> TRUE, visible |-> TRUE]
      /\ worker = [pc |-> "check", response |-> NoResponse]
      /\ client = [pc |-> "idle", request |-> NoRequest]
      /\ log = <<>> /\ received = <<>>
  BY DEF Init
<1>2. /\ \A T : NewChannel \in ChannelsOf(T)
      /\ Load(NewChannel) = 0 /\ Contents(NewChannel) = <<>>
  <2> DEFINE c == NewChannel
  <2>1. c.sent = <<>> /\ c.ready = <<>> /\ c.freed = 0 /\ \A T : c \in ChannelsOf(T)
    BY EmptySeq DEF NewChannel, ChannelsOf
  <2> HIDE DEF c
  <2>2. <<>> \o <<>> = <<>> /\ Len(<<>>) = 0
    BY EmptySeq, ConcatEmptySeq
  <2>3. Load(c) = Len(<<>>) + Len(<<>>) + 0 /\ Contents(c) = <<>> \o <<>>
    BY <2>1 DEF Load, Contents
  <2>4. Load(c) = 0
    BY <2>2, <2>3
  <2> QED
    BY <2>1, <2>2, <2>3, <2>4 DEF c
<1>3. Typed
  <2>1. 0 <= QueueCapacity
    BY QueueCapacityAssumption
  <2>2. <<>> \in Seq(cache_request) /\ <<>> \in Seq(cache_response)
    BY EmptySeq
  <2> QED
    BY <1>1, <1>2, <2>1, <2>2, NoMessages, CallsAreSound DEF Typed
<1>4. EndsWith(log, Contents(inbox_)) /\ Taken = <<>>
  <2>1. Len(<<>>) = 0 /\ SubSeq(<<>>, 1, 0) = <<>> /\ <<>> \o <<>> = <<>>
    BY EmptySeq, SubSeqEmpty, ConcatEmptySeq
  <2> QED
    BY <1>1, <1>2, <2>1 DEF EndsWith, Before, Taken
<1>5. Done = Start
  <2>1. <<>> \o <<>> = <<>>
    BY EmptySeq, ConcatEmptySeq
  <2>2. Pending = <<>>
    BY <1>1 DEF Pending
  <2>3. Responses = <<>>
    BY <1>1, <1>2, <2>1, <2>2 DEF Responses
  <2> QED
    BY <1>1, <2>3 DEF Done, Start
<1> QED
  BY <1>1, <1>3, <1>4, <1>5, ExecutedNone DEF IInv

(* The client's steps.                                                     *)
LEMMA Call_IInv ==
  ASSUME IInv, NEW request \in cache_request, Call(request)
  PROVE  IInv'
<1>1. Typed' /\ Done' = Done
  BY DEF IInv, Typed, Call, Done, Responses, Pending
<1> QED
  BY <1>1, NothingTaken DEF Call, IInv

LEMMA Send_IInv ==
  ASSUME IInv, Send
  PROVE  IInv'
<1> DEFINE request == client.request
           c == Contents(inbox_)
<1>1. /\ request \in cache_request /\ ~ Full(inbox_)
      /\ inbox_' = Pushed(inbox_, request) /\ log' = Append(log, request)
      /\ client' = [client EXCEPT !.pc = "idle"]
      /\ cache_' = cache_ /\ outbox_' = outbox_ /\ running_' = running_
      /\ worker' = worker /\ received' = received
  BY DEF Send, IInv, Typed
<1>2. c \in Seq(cache_request) /\ log \in Seq(cache_request) /\ EndsWith(log, c)
  BY Basics DEF IInv, Typed
<1> HIDE DEF request
<1>3. /\ inbox_' \in ChannelsOf(cache_request) /\ Load(inbox_') = Load(inbox_) + 1
      /\ Contents(inbox_') = Append(c, request)
  BY <1>1, PushedIs DEF IInv, Typed
<1>4. Load(inbox_') <= QueueCapacity
  <2>1. Load(inbox_) # QueueCapacity /\ Load(inbox_) <= QueueCapacity
    BY <1>1 DEF Full, Load, IInv, Typed
  <2>2. Load(inbox_) \in Nat /\ QueueCapacity \in Nat
    <3>1. Len(Contents(inbox_)) \in Nat /\ inbox_.freed \in Nat /\ Len(Contents(inbox_)) + inbox_.freed = Load(inbox_)
      BY <1>2, ContentsIs, LenProperties DEF IInv, Typed
    <3> QED
      BY <3>1, QueueCapacityAssumption
  <2> QED
    BY <1>3, <2>1, <2>2
<1>5. Typed'
  <2>1. log' \in Seq(cache_request)
    BY <1>1, <1>2, AppendProperties
  <2>2. client' \in [pc : {"idle", "push", "join", "joined"}, request : cache_request]
    BY <1>1 DEF IInv, Typed
  <2> QED
    BY <1>1, <1>3, <1>4, <2>1, <2>2 DEF IInv, Typed
<1>6. EndsWith(log', Contents(inbox_')) /\ Before(log', Contents(inbox_')) = Before(log, c)
  <2> HIDE DEF c
  <2> QED
    BY <1>1, <1>2, <1>3, OneSent
<1>7. Taken' = Taken
  BY <1>6 DEF Taken, Before
<1>8. Done' = Done
  BY <1>1 DEF Done, Responses, Pending
<1> QED
  BY <1>1, <1>5, <1>6, <1>7, <1>8 DEF IInv

LEMMA poll_response_IInv ==
  ASSUME IInv, poll_response
  PROVE  IInv'
<1> DEFINE c == Contents(outbox_)
<1>1. /\ ~ Empty(outbox_) /\ outbox_' = Popped(outbox_)
      /\ received' = Append(received, Head(outbox_.ready))
      /\ cache_' = cache_ /\ inbox_' = inbox_ /\ running_' = running_
      /\ worker' = worker /\ client' = client /\ log' = log
  BY DEF poll_response
<1>2. /\ outbox_' \in ChannelsOf(cache_response) /\ Load(outbox_') = Load(outbox_)
      /\ c # <<>> /\ Head(outbox_.ready) = Head(c) /\ Head(c) \in cache_response
      /\ Contents(outbox_') = Tail(c)
  BY <1>1, PoppedIs DEF IInv, Typed
<1>3. c \in Seq(cache_response) /\ received \in Seq(cache_response)
  BY Basics DEF IInv, Typed
<1>4. Typed'
  <2>1. received' \in Seq(cache_response)
    <3> HIDE DEF c
    <3> QED
      BY <1>1, <1>2, <1>3, AppendProperties
  <2> QED
    BY <1>1, <1>2, <2>1 DEF IInv, Typed
<1>5. received' \o Contents(outbox_') = received \o c
  <2> HIDE DEF c
  <2> QED
    BY <1>1, <1>2, <1>3, HeadMoves
<1>6. Done' = Done
  BY <1>1, <1>5 DEF Done, Responses, Pending
<1> QED
  BY <1>1, <1>4, <1>6, NothingTaken DEF IInv

LEMMA AnyClient_IInv ==
  ASSUME IInv, AnyClient
  PROVE  IInv'
<1>1. ASSUME NEW request \in cache_request, Call(request)
      PROVE  IInv'
  BY <1>1, Call_IInv
<1>2. CASE Send
  BY <1>2, Send_IInv
<1>3. CASE poll_response
  BY <1>3, poll_response_IInv
<1>4. CASE Destroy
  <2>1. Typed' /\ Done' = Done /\ running_'.visible = running_.visible /\ running_'.stored = FALSE
    BY <1>4 DEF IInv, Typed, Destroy, Done, Responses, Pending
  <2> QED
    BY <1>4, <2>1, NothingTaken DEF Destroy, IInv
<1>5. CASE Join
  <2>1. Typed' /\ Done' = Done
    BY <1>5 DEF IInv, Typed, Join, Done, Responses, Pending
  <2> QED
    BY <1>5, <2>1, NothingTaken DEF Join, IInv
<1>6. CASE Gone
  <2>1. Typed' /\ Done' = Done
    BY <1>6 DEF IInv, Typed, Gone, vars, Done, Responses, Pending
  <2> QED
    BY <1>6, <2>1, NothingTaken DEF Gone, vars, IInv
<1> QED
  BY <1>1, <1>2, <1>3, <1>4, <1>5, <1>6 DEF AnyClient

(* The worker's steps.  A request that it takes joins those taken.         *)
TakesOne ==
  /\ inbox_' \in ChannelsOf(cache_request) /\ Load(inbox_') <= QueueCapacity
  /\ EndsWith(log, Contents(inbox_'))
  /\ Head(inbox_.ready) \in cache_request
  /\ log' = log => Taken' = Append(Taken, Head(inbox_.ready))

LEMMA OneRequestTaken ==
  ASSUME IInv, ~ Empty(inbox_), inbox_' = Popped(inbox_)
  PROVE  TakesOne
<1> DEFINE c == Contents(inbox_)
<1>1. /\ inbox_' \in ChannelsOf(cache_request) /\ Load(inbox_') = Load(inbox_)
      /\ c # <<>> /\ Head(inbox_.ready) = Head(c) /\ Head(inbox_.ready) \in cache_request
      /\ Contents(inbox_') = Tail(c)
  BY PoppedIs DEF IInv, Typed
<1>2. /\ c \in Seq(cache_request) /\ log \in Seq(cache_request) /\ EndsWith(log, c)
      /\ Taken = Before(log, c)
  BY Basics DEF IInv, Typed
<1> HIDE DEF c
<1>3. EndsWith(log, Tail(c)) /\ Before(log, Tail(c)) = Append(Before(log, c), Head(c))
  BY <1>1, <1>2, OneTaken
<1>4. ASSUME log' = log
      PROVE  Taken' = Before(log, Tail(c))
  BY <1>1, <1>4 DEF Taken, Before
<1>5. Load(inbox_') <= QueueCapacity
  BY <1>1 DEF IInv, Typed
<1> QED
  BY <1>1, <1>2, <1>3, <1>4, <1>5 DEF TakesOne

LEMMA Serve_IInv ==
  ASSUME IInv, Serve
  PROVE  IInv'
<1> DEFINE req == Head(inbox_.ready)
           res == LRU!get_result(cache_, req.key)
           answer == [req_id |-> req.req_id, found |-> res.found, value |-> res.value]
           x == received \o Contents(outbox_)
<1>1. /\ worker.pc = "pop" /\ ~ Empty(inbox_) /\ inbox_' = Popped(inbox_)
      /\ outbox_' = outbox_ /\ running_' = running_ /\ client' = client
      /\ log' = log /\ received' = received
  BY DEF Serve
<1>2. \/ /\ req.type = "PUT" /\ cache_' = LRU!put(cache_, req.key, req.value)
         /\ worker' = [worker EXCEPT !.pc = "check"]
      \/ /\ req.type = "GET" /\ cache_' = LRU!get(cache_, req.key)
         /\ worker' = [pc |-> "respond", response |-> answer]
  BY DEF Serve
<1>3. TakesOne
  BY <1>1, OneRequestTaken
<1>4. /\ req.key \in Keys /\ req.value \in Values /\ req.req_id \in 0 .. MaxRequests
      /\ req \in cache_request
  BY <1>3 DEF TakesOne, cache_request
<1>5. Executed(Append(Taken, req)) = Execute(Executed(Taken), req)
  BY <1>4, Basics, ExecutedMore
<1>6. x \in Seq(cache_response) /\ Responses = x
  <2>1. Pending = <<>>
    BY <1>1 DEF Pending
  <2>2. x \in Seq(cache_response)
    BY Basics
  <2>3. Responses = x \o <<>>
    BY <2>1 DEF Responses
  <2> HIDE DEF x
  <2> QED
    BY <2>2, <2>3, ConcatEmptySeq
<1>7. cache_ \in Caches
  BY DEF IInv, Typed
<1>8. res \in Results /\ answer \in cache_response
  <2>1. res \in Results
    BY <1>4, <1>7, CallsAreSound
  <2> HIDE DEF res
  <2> QED
    BY <1>4, <2>1 DEF Results, cache_response
<1> HIDE DEF req, answer
<1>9. /\ cache_' \in Caches
      /\ worker' \in [pc : {"check", "pop", "respond", "drain", "done"}, response : cache_response]
      /\ worker'.pc \in {"check", "pop", "respond"}
      /\ Done' = Execute(Done, req)
  <2>1. CASE /\ req.type = "PUT" /\ cache_' = LRU!put(cache_, req.key, req.value)
             /\ worker' = [worker EXCEPT !.pc = "check"]
    <3>1. cache_' \in Caches
      BY <1>4, <1>7, <2>1, CallsAreSound
    <3>2. worker'.pc = "check" /\ worker' \in [pc : {"check", "pop", "respond", "drain", "done"}, response : cache_response]
      BY <2>1 DEF IInv, Typed
    <3>3. Responses' = x \o <<>>
      BY <1>1, <3>2 DEF Responses, Pending
    <3>4. Responses' = Responses
      <4> HIDE DEF x
      <4> QED
        BY <1>6, <3>3, ConcatEmptySeq
    <3>5. Execute(Done, req) = [cache |-> LRU!put(cache_, req.key, req.value), answers |-> Responses]
      BY <2>1 DEF Execute, Done
    <3>6. Done' = [cache |-> cache_', answers |-> Responses']
      BY DEF Done
    <3> QED
      BY <2>1, <3>1, <3>2, <3>4, <3>5, <3>6
  <2>2. CASE /\ req.type = "GET" /\ cache_' = LRU!get(cache_, req.key)
             /\ worker' = [pc |-> "respond", response |-> answer]
    <3>1. cache_' \in Caches
      BY <1>4, <1>7, <2>2, CallsAreSound
    <3>2. /\ worker'.pc = "respond" /\ worker'.response = answer
          /\ worker' \in [pc : {"check", "pop", "respond", "drain", "done"}, response : cache_response]
      BY <1>8, <2>2
    <3>3. Responses' = x \o <<answer>>
      BY <1>1, <3>2 DEF Responses, Pending
    <3>4. Responses' = Append(Responses, answer)
      <4> HIDE DEF x
      <4> QED
        BY <1>6, <1>8, <3>3, AppendIsConcat
    <3>5. Execute(Done, req) = [cache |-> LRU!get(cache_, req.key), answers |-> Append(Responses, answer)]
      BY <2>2 DEF Execute, Done, answer
    <3>6. Done' = [cache |-> cache_', answers |-> Responses']
      BY DEF Done
    <3> QED
      BY <2>2, <3>1, <3>2, <3>4, <3>5, <3>6
  <2> QED
    BY <1>2, <2>1, <2>2
<1>10. Typed'
  BY <1>1, <1>3, <1>9 DEF IInv, Typed, TakesOne
<1>11. EndsWith(log, Contents(inbox_))' /\ Taken' = Append(Taken, req)
  BY <1>1, <1>3 DEF TakesOne, req
<1>12. ASSUME running_'.visible
       PROVE  Done' = Executed(Taken)'
  BY <1>1, <1>5, <1>9, <1>11, <1>12 DEF IInv
<1> QED
  BY <1>1, <1>9, <1>10, <1>11, <1>12 DEF IInv

LEMMA Respond_IInv ==
  ASSUME IInv, Respond
  PROVE  IInv'
<1> DEFINE c == Contents(outbox_)
           r == worker.response
<1>1. /\ worker.pc = "respond" /\ ~ Full(outbox_) /\ outbox_' = Pushed(outbox_, r)
      /\ worker' = [pc |-> "check", response |-> NoResponse]
      /\ cache_' = cache_ /\ inbox_' = inbox_ /\ running_' = running_
      /\ client' = client /\ log' = log /\ received' = received
  BY DEF Respond
<1>2. r \in cache_response
  BY DEF IInv, Typed
<1>3. c \in Seq(cache_response) /\ received \in Seq(cache_response)
  BY Basics DEF IInv, Typed
<1> HIDE DEF r
<1>4. /\ outbox_' \in ChannelsOf(cache_response) /\ Load(outbox_') = Load(outbox_) + 1
      /\ Contents(outbox_') = Append(c, r)
  BY <1>1, <1>2, PushedIs DEF IInv, Typed
<1>5. Load(outbox_') <= QueueCapacity
  <2>1. Load(outbox_) # QueueCapacity /\ Load(outbox_) <= QueueCapacity
    BY <1>1 DEF Full, Load, IInv, Typed
  <2>2. Load(outbox_) \in Nat /\ QueueCapacity \in Nat
    <3>1. Len(Contents(outbox_)) \in Nat /\ outbox_.freed \in Nat /\ Len(Contents(outbox_)) + outbox_.freed = Load(outbox_)
      BY <1>3, ContentsIs, LenProperties DEF IInv, Typed
    <3> QED
      BY <3>1, QueueCapacityAssumption
  <2> QED
    BY <1>4, <2>1, <2>2
<1>6. Typed'
  BY <1>1, <1>4, <1>5, NoMessages DEF IInv, Typed
<1>7. Responses' = Responses
  <2>1. PICK t : t = <<r>>
    OBVIOUS
  <2>2. t \in Seq(cache_response)
    BY <1>2, <2>1
  <2>3. Responses = (received \o c) \o t
    BY <1>1, <2>1 DEF Responses, Pending, r
  <2>4. Responses' = (received \o Append(c, r)) \o <<>>
    BY <1>1, <1>4 DEF Responses, Pending
  <2> HIDE DEF c
  <2>5. Append(c, r) = c \o t /\ c \o t \in Seq(cache_response)
    BY <1>2, <1>3, <2>1, <2>2, AppendIsConcat, ConcatProperties
  <2>6. (received \o c) \o t = received \o (c \o t)
    BY <1>3, <2>2, ConcatAssociative
  <2>7. (received \o (c \o t)) \o <<>> = received \o (c \o t)
    <3>1. received \o (c \o t) \in Seq(cache_response)
      BY <1>3, <2>5, ConcatProperties
    <3> QED
      BY <3>1, ConcatEmptySeq
  <2> QED
    BY <2>3, <2>4, <2>5, <2>6, <2>7
<1>8. Done' = Done
  BY <1>1, <1>7 DEF Done
<1> QED
  BY <1>1, <1>6, <1>8, NothingTaken DEF IInv

LEMMA Drain_IInv ==
  ASSUME IInv, Drain
  PROVE  IInv'
<1> DEFINE req == Head(inbox_.ready)
<1>1. /\ worker.pc = "drain" /\ ~ Empty(inbox_) /\ inbox_' = Popped(inbox_)
      /\ outbox_' = outbox_ /\ running_' = running_ /\ worker' = worker /\ client' = client
      /\ log' = log /\ received' = received
      /\ cache_' = IF req.type = "PUT" THEN LRU!put(cache_, req.key, req.value) ELSE cache_
  BY DEF Drain
<1>2. TakesOne
  BY <1>1, OneRequestTaken
<1>3. req.key \in Keys /\ req.value \in Values /\ cache_ \in Caches
  BY <1>2 DEF TakesOne, cache_request, IInv, Typed
<1>4. cache_' \in Caches
  BY <1>1, <1>3, CallsAreSound
<1>5. Typed'
  BY <1>1, <1>2, <1>4 DEF IInv, Typed, TakesOne
<1>6. EndsWith(log, Contents(inbox_))'
  BY <1>1, <1>2 DEF TakesOne
<1>7. ~ running_.visible
  BY <1>1 DEF IInv
<1> QED
  BY <1>1, <1>5, <1>6, <1>7 DEF IInv

LEMMA Worker_IInv ==
  ASSUME IInv, Worker
  PROVE  IInv'
<1>1. CASE CheckRunning
  <2>1. Typed' /\ (running_.visible => worker'.pc = "pop")
    BY <1>1 DEF IInv, Typed, CheckRunning
  <2>2. Done' = Done
    BY <1>1, <2>1 DEF CheckRunning, Done, Responses, Pending, IInv, Typed
  <2> QED
    BY <1>1, <2>1, <2>2, NothingTaken DEF CheckRunning, IInv
<1>2. CASE Serve
  BY <1>2, Serve_IInv
<1>3. CASE Idle
  <2>1. Typed' /\ worker'.pc = "check" /\ Done' = Done
    BY <1>3 DEF IInv, Typed, Idle, Done, Responses, Pending
  <2> QED
    BY <1>3, <2>1, NothingTaken DEF Idle, IInv
<1>4. CASE Respond
  BY <1>4, Respond_IInv
<1>5. CASE DropResponse
  <2>1. Typed' /\ ~ running_'.visible /\ ~ running_.visible
    BY <1>5, NoMessages DEF IInv, Typed, DropResponse
  <2> QED
    BY <1>5, <2>1, NothingTaken DEF DropResponse, IInv
<1>6. CASE Drain
  BY <1>6, Drain_IInv
<1>7. CASE EndDrain
  <2>1. Typed' /\ ~ running_.visible
    BY <1>7 DEF IInv, Typed, EndDrain
  <2> QED
    BY <1>7, <2>1, NothingTaken DEF EndDrain, IInv
<1> QED
  BY <1>1, <1>2, <1>3, <1>4, <1>5, <1>6, <1>7 DEF Worker

(* Stores that become visible.                                             *)
LEMMA Visibility_IInv ==
  ASSUME IInv, Visibility
  PROVE  IInv'
<1> DEFINE Rest == /\ cache_' = cache_ /\ worker' = worker /\ client' = client
                   /\ log' = log /\ received' = received
<1>1. /\ QueueCapacity \in Nat /\ Load(inbox_) <= QueueCapacity /\ Load(outbox_) <= QueueCapacity
      /\ inbox_ \in ChannelsOf(cache_request) /\ outbox_ \in ChannelsOf(cache_response)
  BY QueueCapacityAssumption DEF IInv, Typed
<1>2. \A T, ch : ch \in ChannelsOf(T) => Load(ch) \in Nat
  <2> TAKE T, ch
  <2> SUFFICES ASSUME ch \in ChannelsOf(T)
               PROVE  Load(ch) \in Nat
    OBVIOUS
  <2>1. /\ Len(Contents(ch)) \in Nat /\ ch.freed \in Nat
        /\ Len(Contents(ch)) + ch.freed = Load(ch)
    BY ContentsIs, LenProperties
  <2> QED
    BY <2>1
<1>3. ASSUME NEW T, NEW ch \in ChannelsOf(T), Load(ch) <= QueueCapacity,
             NEW d \in Arrivals(ch) \cup Returns(ch)
      PROVE  d \in ChannelsOf(T) /\ Load(d) <= QueueCapacity /\ Contents(d) = Contents(ch)
  <2>1. d \in ChannelsOf(T) /\ Contents(d) = Contents(ch) /\ Load(d) <= Load(ch)
    <3>1. CASE d \in Arrivals(ch)
      <4>1. d \in ChannelsOf(T) /\ Contents(d) = Contents(ch) /\ Load(d) = Load(ch)
        BY <3>1, ArrivedIs
      <4>2. Load(ch) \in Nat
        BY <1>2
      <4> QED
        BY <4>1, <4>2
    <3>2. CASE d \in Returns(ch)
      BY <3>2, ReturnedIs
    <3> QED
      BY <3>1, <3>2
  <2>2. Load(d) \in Nat /\ Load(ch) \in Nat
    BY <1>2, <2>1
  <2> QED
    BY <1>1, <1>3, <2>1, <2>2
<1>4. CASE RequestsArrive \/ InboxReturns
  <2>1. /\ inbox_' \in Arrivals(inbox_) \cup Returns(inbox_) /\ outbox_' = outbox_
        /\ running_' = running_ /\ Rest
    BY <1>4 DEF RequestsArrive, InboxReturns
  <2>2. /\ inbox_' \in ChannelsOf(cache_request) /\ Load(inbox_') <= QueueCapacity
        /\ Contents(inbox_') = Contents(inbox_)
    BY <1>1, <1>3, <2>1
  <2>3. Typed' /\ Done' = Done
    BY <2>1, <2>2 DEF IInv, Typed, Done, Responses, Pending
  <2> QED
    BY <2>1, <2>2, <2>3, NothingTaken DEF IInv
<1>5. CASE ResponsesArrive \/ OutboxReturns
  <2>1. /\ outbox_' \in Arrivals(outbox_) \cup Returns(outbox_) /\ inbox_' = inbox_
        /\ running_' = running_ /\ Rest
    BY <1>5 DEF ResponsesArrive, OutboxReturns
  <2>2. /\ outbox_' \in ChannelsOf(cache_response) /\ Load(outbox_') <= QueueCapacity
        /\ Contents(outbox_') = Contents(outbox_)
    BY <1>1, <1>3, <2>1
  <2>3. Typed'
    BY <2>1, <2>2 DEF IInv, Typed
  <2>4. Done' = Done
    BY <2>1, <2>2 DEF Done, Responses, Pending
  <2> QED
    BY <2>1, <2>3, <2>4, NothingTaken DEF IInv
<1>6. CASE StopArrives
  <2>1. /\ running_' = [running_ EXCEPT !.visible = running_.stored] /\ Rest
        /\ inbox_' = inbox_ /\ outbox_' = outbox_
        /\ running_.visible # running_.stored
    BY <1>6 DEF StopArrives
  <2>2. /\ running_.stored \in BOOLEAN /\ running_.visible \in BOOLEAN
        /\ running_' \in [stored : BOOLEAN, visible : BOOLEAN]
        /\ running_'.visible = running_.stored
        /\ running_'.stored = running_.stored
        /\ running_.stored => running_.visible
    BY <2>1 DEF IInv, Typed
  <2>3. ~ running_'.visible
    BY <2>1, <2>2
  <2>4. Typed'
    BY <2>1, <2>2 DEF IInv, Typed
  <2> QED
    BY <2>1, <2>2, <2>3, <2>4, NothingTaken DEF IInv
<1> QED
  BY <1>4, <1>5, <1>6 DEF Visibility

LEMMA AnyNext_IInv == IInv /\ [AnyNext]_vars => IInv'
<1>1. ASSUME IInv, UNCHANGED vars
      PROVE  IInv'
  <2>1. Typed' /\ Done' = Done
    BY <1>1 DEF IInv, Typed, vars, Done, Responses, Pending
  <2> QED
    BY <1>1, <2>1, NothingTaken DEF vars, IInv
<1> QED
  BY <1>1, AnyClient_IInv, Worker_IInv, Visibility_IInv DEF AnyNext

(* The client of the module is such a client.                              *)
LEMMA ClientIsAny == IInv /\ [Next]_vars => [AnyNext]_vars
<1> SUFFICES ASSUME IInv, NEW key \in Keys, async_put(key, Number) \/ async_get(Number, key)
             PROVE  \E request \in cache_request : Call(request)
  BY DEF Next, Client, AnyNext, AnyClient
<1>1. Len(log) < MaxRequests /\ Len(log) \in Nat /\ MaxRequests \in Nat
  BY ClientAssumption, LenProperties DEF async_put, async_get, Call, IInv, Typed
<1>2. Number \in 0 .. MaxRequests /\ Number \in Values /\ 0 \in Values /\ 0 \in 0 .. MaxRequests
  BY <1>1, CacheAssumption, ClientAssumption DEF Number
<1>3. /\ [req_id |-> 0, type |-> "PUT", key |-> key, value |-> Number] \in cache_request
      /\ [req_id |-> Number, type |-> "GET", key |-> key, value |-> 0] \in cache_request
  BY <1>2 DEF cache_request
<1> QED
  BY <1>3 DEF async_put, async_get

LEMMA IInvInvariant == (AnySpec => []IInv) /\ (Spec => []IInv)
<1>1. AnySpec => []IInv
  BY Init_IInv, AnyNext_IInv, PTL DEF AnySpec
<1>2. IInv /\ [Next]_vars => IInv'
  BY ClientIsAny, AnyNext_IInv
<1>3. Spec => []IInv
  BY <1>2, Init_IInv, PTL DEF Spec
<1> QED
  BY <1>1, <1>3

LEMMA IInvTypes == IInv => TypeOK
<1> SUFFICES ASSUME IInv
             PROVE  TypeOK
  OBVIOUS
<1>1. cache_ \in LRU!CacheType
  BY DEF IInv, Typed, Caches
<1>2. ASSUME NEW T, NEW ch \in ChannelsOf(T), Load(ch) <= QueueCapacity
      PROVE  ch.freed \in Nat /\ Len(Contents(ch)) + ch.freed \in 0 .. QueueCapacity
  <2>1. /\ Len(Contents(ch)) \in Nat /\ ch.freed \in Nat
        /\ Len(Contents(ch)) + ch.freed = Load(ch)
    BY ContentsIs, LenProperties
  <2>2. QueueCapacity \in Nat
    BY QueueCapacityAssumption
  <2> DEFINE n == Len(Contents(ch))
             f == ch.freed
  <2>3. n \in Nat /\ f \in Nat /\ n + f <= QueueCapacity
    BY <1>2, <2>1
  <2> HIDE DEF n, f
  <2>4. n + f \in 0 .. QueueCapacity
    BY <2>2, <2>3
  <2> QED
    BY <2>1, <2>4 DEF n, f
<1>3. /\ inbox_ \in ChannelsOf(cache_request) /\ Load(inbox_) <= QueueCapacity
      /\ outbox_ \in ChannelsOf(cache_response) /\ Load(outbox_) <= QueueCapacity
  BY DEF IInv, Typed
<1>4. \A ch \in {inbox_, outbox_} :
        ch.freed \in Nat /\ Len(Contents(ch)) + ch.freed \in 0 .. QueueCapacity
  BY <1>2, <1>3
<1>5. /\ inbox_.ready \in Seq(cache_request) /\ inbox_.sent \in Seq(cache_request)
      /\ outbox_.ready \in Seq(cache_response) /\ outbox_.sent \in Seq(cache_response)
  BY <1>3 DEF ChannelsOf
<1> QED
  BY <1>1, <1>4, <1>5 DEF TypeOK, IInv, Typed

LEMMA IInvAnswers == IInv => NoAnswerLost
<1> SUFFICES ASSUME IInv, running_.visible
             PROVE  Responses = Executed(Taken).answers
  BY DEF NoAnswerLost, Responses
<1>1. Done = Executed(Taken)
  BY DEF IInv
<1>2. Done.answers = Responses
  BY DEF Done
<1> QED
  BY <1>1, <1>2

-----------------------------------------------------------------------------
(* Every operation of async_cache and of its worker keeps the types, and   *)
(* no queue is ever given more than its capacity, however the stores of    *)
(* one thread reach the other (async_cache.h:73-152).                      *)
THEOREM TypeCorrect == Spec => []TypeOK
  BY IInvInvariant, IInvTypes, PTL

(* Until the worker sees running_ turn false, the responses are, in order  *)
(* and without a gap, those of a cache that executes the requests in the   *)
(* order in which they were sent (async_cache.h:84-101).                   *)
THEOREM NoAnswerIsLost == Spec => []NoAnswerLost
  BY IInvAnswers, IInvInvariant, PTL

(* The same for a thread that sends whatever requests it likes, as         *)
(* benchmarks/benchmark_async_cache.cpp does.                              *)
THEOREM AnyClientIsAnswered == AnySpec => [](TypeOK /\ NoAnswerLost)
  BY IInvAnswers, IInvTypes, IInvInvariant, PTL
=============================================================================
