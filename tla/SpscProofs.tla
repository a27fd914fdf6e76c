----------------------------- MODULE SpscProofs -----------------------------
(***************************************************************************)
(* Proofs about spsc_queue for every capacity.  The indices of the model   *)
(* count stores, those of the code are their remainders: the proofs rest   *)
(* on a window of at most capacity_ numbers, in which no two have the same *)
(* remainder.  The steps that publish an index are those of the channel    *)
(* that the queue implements, the others stutter.                          *)
(***************************************************************************)
EXTENDS SpscRefinement, SequenceTheorems, TLAPS

(* Quotient and remainder.                                                 *)
LEMMA DivMod ==
  ASSUME NEW c \in Nat \ {0}, NEW a \in Nat
  PROVE  /\ a \div c \in Int /\ a % c \in 0 .. c - 1
         /\ a = c * (a \div c) + (a % c)
  OBVIOUS

(* They are unique: a smaller quotient leaves a remainder of at least c.   *)
LEMMA Remainder ==
  ASSUME NEW c \in Nat \ {0}, NEW q \in Int, NEW p \in Int,
         NEW r \in 0 .. c - 1, NEW s \in 0 .. c - 1,
         c * q + r = c * p + s
  PROVE  q = p /\ r = s
<1>1. ~ (q < p)
  <2> SUFFICES ASSUME q + 1 <= p PROVE FALSE
    OBVIOUS
  <2>1. c * (p - q - 1) >= 0
    OBVIOUS
  <2>2. c * (p - q - 1) = c * p - c * q - c
    OBVIOUS
  <2> QED
    BY <2>1, <2>2
<1>2. ~ (p < q)
  <2> SUFFICES ASSUME p + 1 <= q PROVE FALSE
    OBVIOUS
  <2>1. c * (q - p - 1) >= 0
    OBVIOUS
  <2>2. c * (q - p - 1) = c * q - c * p - c
    OBVIOUS
  <2> QED
    BY <2>1, <2>2
<1> QED
  BY <1>1, <1>2

(* buffer_ is never accessed outside of its bounds.                        *)
LEMMA IndexInRange ==
  ASSUME NEW n \in Nat
  PROVE  Index(n) \in 0 .. capacity_ - 1
  BY QueueCapacityAssumption, DivMod DEF Index, capacity_

(* Two numbers less than capacity_ apart have different slots.             *)
LEMMA SameIndex ==
  ASSUME NEW m \in Nat, NEW n \in Nat, m <= n, n - m < capacity_, Index(m) = Index(n)
  PROVE  m = n
<1> DEFINE c == capacity_
<1>1. c \in Nat \ {0}
  BY QueueCapacityAssumption DEF capacity_
<1>2. /\ m \div c \in Int /\ m = c * (m \div c) + Index(m)
      /\ n \div c \in Int /\ n = c * (n \div c) + Index(n)
      /\ Index(m) \in 0 .. c - 1
  BY <1>1, DivMod DEF Index
<1> DEFINE q == n \div c
           p == m \div c
           d == n - m
<1>3. q \in Int /\ p \in Int /\ d \in 0 .. c - 1 /\ 0 \in 0 .. c - 1
  BY <1>1, <1>2
<1> HIDE DEF c, q, p
<1>4. c * q + 0 = c * p + d
  BY <1>1, <1>2 DEF q, p
<1> HIDE DEF d
<1>5. 0 = d
  BY <1>1, <1>3, <1>4, Remainder
<1> QED
  BY <1>5 DEF d

(* The code advances the remainder, the model the number.                  *)
LEMMA NextIndex ==
  ASSUME NEW n \in Nat
  PROVE  Index(Index(n) + 1) = Index(n + 1)
<1> DEFINE c == capacity_
           r == n % c
           s == (r + 1) % c
<1>1. c \in Nat \ {0}
  BY QueueCapacityAssumption DEF capacity_
<1>2. n \div c \in Int /\ r \in 0 .. c - 1 /\ n = c * (n \div c) + r
  BY <1>1, DivMod
<1>3. (r + 1) \div c \in Int /\ s \in 0 .. c - 1 /\ r + 1 = c * ((r + 1) \div c) + s
  BY <1>1, <1>2, DivMod
<1>4. (n + 1) \div c \in Int /\ (n + 1) % c \in 0 .. c - 1
      /\ n + 1 = c * ((n + 1) \div c) + ((n + 1) % c)
  BY <1>1, DivMod
<1> DEFINE q == n \div c
           p == (r + 1) \div c
           t == (n + 1) \div c
           u == (n + 1) % c
<1> HIDE DEF c, r, s, q, p, t, u
<1>5. c * (q + p) = c * q + c * p
  BY <1>1, <1>2, <1>3 DEF q, p
<1>6. c * (q + p) + s = c * t + u
  BY <1>1, <1>2, <1>3, <1>4, <1>5 DEF q, p, t, u
<1>7. q + p \in Int /\ t \in Int /\ s \in 0 .. c - 1 /\ u \in 0 .. c - 1
  BY <1>2, <1>3, <1>4 DEF q, p, t, u
<1> DEFINE v == q + p
<1> HIDE DEF v
<1>8. c * v + s = c * t + u /\ v \in Int
  BY <1>6, <1>7 DEF v
<1>9. s = u
  BY <1>1, <1>7, <1>8, Remainder
<1> QED
  BY <1>9 DEF s, u, r, c, Index
(* A whole round leads back to the same slot.                              *)
LEMMA OneRound ==
  ASSUME NEW n \in Nat
  PROVE  Index(n + capacity_) = Index(n)
<1> DEFINE c == capacity_
           q == n \div c
           p == (n + c) \div c
           r == n % c
           s == (n + c) % c
<1>1. c \in Nat \ {0} /\ n + c \in Nat
  BY QueueCapacityAssumption DEF capacity_
<1>2. /\ q \in Int /\ r \in 0 .. c - 1 /\ n = c * q + r
      /\ p \in Int /\ s \in 0 .. c - 1 /\ n + c = c * p + s
  BY <1>1, DivMod
<1> HIDE DEF c, q, p, r, s
<1>3. c * (q + 1) = c * q + c
  BY <1>1, <1>2
<1> DEFINE v == q + 1
<1>4. v \in Int
  BY <1>2
<1> HIDE DEF v
<1>5. c * v + r = c * p + s
  BY <1>1, <1>2, <1>3 DEF v
<1>6. r = s
  BY <1>1, <1>2, <1>4, <1>5, Remainder
<1> QED
  BY <1>6 DEF r, s, c, Index

-----------------------------------------------------------------------------
(* The inductive invariant.  A call under way has found room, or an item,  *)
(* and still has it; it has put its item, or got it from, where it should. *)

InFlight ==
  /\ producer.pc # "idle" => tail_.stores < MaxPushes /\ tail_.stores < head_.visible + QueueCapacity
  /\ consumer.pc # "idle" => head_.stores < tail_.visible

ItemsInPlace ==
  /\ producer.pc = "publish" => buffer_[Index(tail_.stores)] = producer.item
  /\ consumer.pc = "release" => buffer_[Index(head_.stores)] = consumer.item

IInv == TypeOK /\ NoDataRace /\ InFlight /\ ItemsInPlace

(* The producer sees a full queue when all of its capacity lies between    *)
(* its tail_ and the head_ it sees.                                        *)
LEMMA SeesFullMeans ==
  ASSUME TypeOK
  PROVE  SeesFull <=> tail_.stores = head_.visible + QueueCapacity
<1>1. /\ tail_.stores \in Nat /\ head_.visible \in Nat
      /\ head_.visible <= tail_.stores /\ tail_.stores <= head_.visible + QueueCapacity
  BY MaxPushesAssumption, QueueCapacityAssumption DEF TypeOK, IndexType
<1>2. SeesFull <=> Index(tail_.stores + 1) = Index(head_.visible)
  BY <1>1, NextIndex DEF SeesFull
<1>3. ASSUME Index(tail_.stores + 1) = Index(head_.visible)
      PROVE  tail_.stores = head_.visible + QueueCapacity
  <2> SUFFICES ASSUME tail_.stores < head_.visible + QueueCapacity
               PROVE  FALSE
    BY <1>1, QueueCapacityAssumption
  <2> DEFINE n == tail_.stores + 1
             m == head_.visible
  <2>1. m \in Nat /\ n \in Nat /\ m <= n /\ n - m < capacity_ /\ m # n
    BY <1>1, QueueCapacityAssumption DEF capacity_
  <2>2. Index(m) = Index(n)
    BY <1>3
  <2> HIDE DEF m, n
  <2> QED
    BY <2>1, <2>2, SameIndex
<1>4. ASSUME tail_.stores = head_.visible + QueueCapacity
      PROVE  Index(tail_.stores + 1) = Index(head_.visible)
  <2>1. tail_.stores + 1 = head_.visible + capacity_
    BY <1>1, <1>4, QueueCapacityAssumption DEF capacity_
  <2> QED
    BY <1>1, <2>1, OneRound
<1> QED
  BY <1>2, <1>3, <1>4

(* The consumer sees an empty queue when its head_ is the tail_ it sees.   *)
LEMMA SeesEmptyMeans ==
  ASSUME TypeOK
  PROVE  SeesEmpty <=> head_.stores = tail_.visible
<1>1. /\ head_.stores \in Nat /\ tail_.visible \in Nat
      /\ head_.stores <= tail_.visible /\ tail_.visible - head_.stores < capacity_
  BY MaxPushesAssumption, QueueCapacityAssumption DEF TypeOK, IndexType, capacity_
<1> QED
  BY <1>1, SameIndex DEF SeesEmpty

LEMMA InitIInv == Init => IInv
<1> SUFFICES ASSUME Init PROVE IInv
  OBVIOUS
<1>1. 0 <= QueueCapacity /\ 0 \in 0 .. MaxPushes
  BY QueueCapacityAssumption, MaxPushesAssumption
<1>2. TypeOK
  <2>1. /\ buffer_ \in [0 .. capacity_ - 1 -> Items]
        /\ head_ \in IndexType /\ tail_ \in IndexType
        /\ head_.visible <= head_.stores /\ head_.stores <= tail_.visible
        /\ tail_.visible <= tail_.stores /\ tail_.stores <= head_.visible + QueueCapacity
    BY <1>1, QueueCapacityAssumption, ItemsAssumption DEF Init, IndexType
  <2>2. /\ producer \in [pc : {"idle", "write", "publish"}, item : Items, synced : 0 .. MaxPushes]
        /\ consumer \in [pc : {"idle", "read", "release"}, item : Items, synced : 0 .. MaxPushes]
    BY <1>1, ItemsAssumption DEF Init
  <2>3. pushed \in BOOLEAN /\ popped \in [ok : BOOLEAN, item : Items]
    BY ItemsAssumption DEF Init
  <2> QED
    BY <2>1, <2>2, <2>3 DEF TypeOK
<1> QED
  BY <1>2 DEF Init, IInv, NoDataRace, InFlight, ItemsInPlace

(* Every access keeps the invariant.  The producer's write spares the item *)
(* that the consumer holds because the two numbers lie in one window.      *)
LEMMA NextIInv == IInv /\ [Next]_vars => IInv'
<1> SUFFICES ASSUME IInv, [Next]_vars PROVE IInv'
  OBVIOUS
<1> USE QueueCapacityAssumption, MaxPushesAssumption
<1>0. /\ TypeOK /\ tail_.stores \in Nat /\ head_.stores \in Nat
      /\ head_.visible \in Nat /\ tail_.visible \in Nat
  BY DEF IInv, TypeOK, IndexType
<1>1. CASE PushFails
  BY <1>0, <1>1 DEF PushFails, IInv, TypeOK, IndexType, NoDataRace, InFlight, ItemsInPlace, acquire
<1>2. ASSUME NEW item \in Items, PushStarts(item)
      PROVE  IInv'
  <2>1. tail_.stores < head_.visible + QueueCapacity
    BY <1>0, <1>2, SeesFullMeans DEF PushStarts, TypeOK
  <2> QED
    BY <1>0, <1>2, <2>1
    DEF PushStarts, IInv, TypeOK, IndexType, NoDataRace, InFlight, ItemsInPlace, acquire, capacity_
<1>3. CASE PushWrites
  <2>1. Index(tail_.stores) \in 0 .. capacity_ - 1 /\ Index(head_.stores) \in 0 .. capacity_ - 1
    BY <1>0, IndexInRange
  <2>2. TypeOK'
    BY <1>0, <1>3, <2>1 DEF PushWrites, TypeOK, IndexType
  <2>3. consumer.pc = "release" => Index(head_.stores) # Index(tail_.stores)
    <3> SUFFICES ASSUME consumer.pc = "release"
                 PROVE  Index(head_.stores) # Index(tail_.stores)
      OBVIOUS
    <3>1. head_.stores < tail_.stores /\ tail_.stores - head_.stores < capacity_
      BY <1>0 DEF IInv, TypeOK, InFlight, capacity_
    <3> QED
      BY <1>0, <3>1, SameIndex
  <2>4. ItemsInPlace'
    BY <1>0, <1>3, <2>1, <2>3 DEF PushWrites, IInv, TypeOK, ItemsInPlace
  <2> QED
    BY <1>3, <2>2, <2>4, <1>0 DEF PushWrites, IInv, TypeOK, NoDataRace, InFlight
<1>4. CASE PushPublishes
  BY <1>0, <1>4 DEF PushPublishes, Store, IInv, TypeOK, IndexType, NoDataRace, InFlight, ItemsInPlace
<1>5. CASE PopFails
  BY <1>0, <1>5 DEF PopFails, IInv, TypeOK, IndexType, NoDataRace, InFlight, ItemsInPlace, acquire
<1>6. CASE PopStarts
  <2>1. head_.stores < tail_.visible
    BY <1>0, <1>6, SeesEmptyMeans DEF PopStarts, TypeOK
  <2> QED
    BY <1>0, <1>6, <2>1
    DEF PopStarts, IInv, TypeOK, IndexType, NoDataRace, InFlight, ItemsInPlace, acquire
<1>7. CASE PopReads
  <2>1. Index(head_.stores) \in 0 .. capacity_ - 1
    BY <1>0, IndexInRange
  <2> QED
    BY <1>0, <1>7, <2>1 DEF PopReads, IInv, TypeOK, IndexType, NoDataRace, InFlight, ItemsInPlace
<1>8. CASE PopReleases
  BY <1>0, <1>8 DEF PopReleases, Store, IInv, TypeOK, IndexType, NoDataRace, InFlight, ItemsInPlace
<1>9. CASE TailArrives
  BY <1>0, <1>9 DEF TailArrives, IInv, TypeOK, IndexType, NoDataRace, InFlight, ItemsInPlace
<1>10. CASE HeadArrives
  BY <1>0, <1>10 DEF HeadArrives, IInv, TypeOK, IndexType, NoDataRace, InFlight, ItemsInPlace
<1>11. CASE UNCHANGED vars
  BY <1>11 DEF vars, IInv, TypeOK, NoDataRace, InFlight, ItemsInPlace
<1> QED
  BY <1>1, <1>2, <1>3, <1>4, <1>5, <1>6, <1>7, <1>8, <1>9, <1>10, <1>11
  DEF Next, Producer, Consumer

LEMMA Inductive == Spec => []IInv
  BY InitIInv, NextIInv, PTL DEF Spec

(* The indices keep their order and their distance: the consumer never     *)
(* passes the producer, and the producer never laps the consumer, however  *)
(* late their stores become visible (spsc_queue.h:29-57).                  *)
THEOREM TypeCorrect == Spec => []TypeOK
<1>1. IInv => TypeOK
  BY DEF IInv
<1> QED
  BY <1>1, Inductive, PTL

(* The accesses of the two threads to a slot are ordered by the acquire    *)
(* loads and release stores of the indices, for every capacity             *)
(* (spsc_queue.h:33-40, 48-55).                                            *)
THEOREM RaceFree == Spec => []NoDataRace
<1>1. IInv => NoDataRace
  BY DEF IInv
<1> QED
  BY <1>1, Inductive, PTL

-----------------------------------------------------------------------------
(* The queue implements the channel.                                       *)

(* The slots of b from number f up to number l, as in ItemsBetween.        *)
Window(b, f, l) == [i \in 1 .. l - f |-> b[Index(f + i - 1)]]

Buffers == [0 .. capacity_ - 1 -> Items]

(* Only the slot of number n may differ.                                   *)
SameBut(b, c, n) == \A i \in 0 .. capacity_ - 1 : i # Index(n) => c[i] = b[i]

(* The window from m on is cut at k: its first part joins the window that  *)
(* ends at m, the second is left.                                          *)
CutAt(b, f, m, k, l) ==
  /\ SubSeq(Window(b, m, l), k - m + 1, Len(Window(b, m, l))) = Window(b, k, l)
  /\ Window(b, f, m) \o SubSeq(Window(b, m, l), 1, k - m) = Window(b, f, k)

LEMMA WindowIsSeq ==
  ASSUME NEW b \in Buffers, NEW f \in Nat, NEW l \in Nat, f <= l
  PROVE  /\ Window(b, f, l) \in Seq(Items) /\ Len(Window(b, f, l)) = l - f
         /\ \A i \in 1 .. l - f : Window(b, f, l)[i] = b[Index(f + i - 1)]
<1>1. \A i \in 1 .. l - f : b[Index(f + i - 1)] \in Items
  <2> SUFFICES ASSUME NEW i \in 1 .. l - f PROVE b[Index(f + i - 1)] \in Items
    OBVIOUS
  <2>1. f + i - 1 \in Nat
    OBVIOUS
  <2> QED
    BY <2>1, IndexInRange DEF Buffers
<1>2. Window(b, f, l) \in [1 .. l - f -> Items]
  BY <1>1, Zenon DEF Window
<1>3. l - f \in Nat
  OBVIOUS
<1>4. Window(b, f, l) \in Seq(Items)
  BY <1>2, <1>3, SeqDef
<1>5. DOMAIN Window(b, f, l) = 1 .. Len(Window(b, f, l)) /\ Len(Window(b, f, l)) \in Nat
  BY <1>4, LenProperties
<1>6. DOMAIN Window(b, f, l) = 1 .. l - f
  BY DEF Window
<1> QED
  BY <1>3, <1>4, <1>5, <1>6 DEF Window

(* The window that is one longer at its end.                               *)
LEMMA WindowAppend ==
  ASSUME NEW b \in Buffers, NEW f \in Nat, NEW l \in Nat, f <= l
  PROVE  Window(b, f, l + 1) = Append(Window(b, f, l), b[Index(l)])
<1> DEFINE s == Window(b, f, l)
           t == Window(b, f, l + 1)
           e == b[Index(l)]
<1>1. /\ s \in Seq(Items) /\ Len(s) = l - f
      /\ \A i \in 1 .. l - f : s[i] = b[Index(f + i - 1)]
  BY WindowIsSeq
<1>2. /\ t \in Seq(Items) /\ Len(t) = l - f + 1
      /\ \A i \in 1 .. l - f + 1 : t[i] = b[Index(f + i - 1)]
  <2>1. l + 1 \in Nat /\ f <= l + 1 /\ l + 1 - f = l - f + 1
    OBVIOUS
  <2> QED
    BY <2>1, WindowIsSeq
<1>3. e \in Items
  BY IndexInRange DEF Buffers
<1> HIDE DEF s, t
<1>4. /\ Append(s, e) \in Seq(Items) /\ Len(Append(s, e)) = l - f + 1
      /\ \A i \in 1 .. l - f : Append(s, e)[i] = s[i]
      /\ Append(s, e)[l - f + 1] = e
  BY <1>1, <1>3, AppendProperties
<1>5. \A i \in 1 .. Len(t) : t[i] = Append(s, e)[i]
  <2> SUFFICES ASSUME NEW i \in 1 .. l - f + 1
               PROVE  t[i] = Append(s, e)[i]
    BY <1>2
  <2>1. CASE i = l - f + 1
    <3>1. f + i - 1 = l
      BY <2>1
    <3> QED
      BY <1>2, <1>4, <2>1, <3>1
  <2>2. CASE i # l - f + 1
    BY <1>1, <1>2, <1>4, <2>2
  <2> QED
    BY <2>1, <2>2
<1>6. t = Append(s, e)
  BY <1>2, <1>4, <1>5, SeqEqual
<1> QED
  BY <1>6 DEF s, t

(* The window that is one shorter at its start.                            *)
LEMMA WindowTail ==
  ASSUME NEW b \in Buffers, NEW f \in Nat, NEW l \in Nat, f < l
  PROVE  /\ Window(b, f, l) # <<>> /\ Head(Window(b, f, l)) = b[Index(f)]
         /\ Tail(Window(b, f, l)) = Window(b, f + 1, l)
<1> DEFINE s == Window(b, f, l)
           t == Window(b, f + 1, l)
<1>1. /\ s \in Seq(Items) /\ Len(s) = l - f
      /\ \A i \in 1 .. l - f : s[i] = b[Index(f + i - 1)]
  BY WindowIsSeq
<1>2. /\ t \in Seq(Items) /\ Len(t) = l - f - 1
      /\ \A i \in 1 .. l - f - 1 : t[i] = b[Index(f + 1 + i - 1)]
  <2>1. f + 1 \in Nat /\ f + 1 <= l /\ l - (f + 1) = l - f - 1
    OBVIOUS
  <2> QED
    BY <2>1, WindowIsSeq
<1> HIDE DEF s, t
<1>3. s # <<>>
  BY <1>1, EmptySeq
<1>4. /\ Tail(s) \in Seq(Items) /\ Len(Tail(s)) = l - f - 1
      /\ \A i \in 1 .. l - f - 1 : Tail(s)[i] = s[i + 1]
  BY <1>1, <1>3, HeadTailProperties
<1>5. Head(s) = b[Index(f)]
  <2>1. Head(s) = s[1]
    BY <1>1, <1>3
  <2>2. 1 \in 1 .. l - f /\ f + 1 - 1 = f
    OBVIOUS
  <2> QED
    BY <1>1, <2>1, <2>2
<1>6. \A i \in 1 .. Len(t) : t[i] = Tail(s)[i]
  <2> SUFFICES ASSUME NEW i \in 1 .. l - f - 1
               PROVE  t[i] = Tail(s)[i]
    BY <1>2
  <2>1. i + 1 \in 1 .. l - f /\ f + 1 + i - 1 = f + (i + 1) - 1
    OBVIOUS
  <2> QED
    BY <1>1, <1>2, <1>4, <2>1
<1>7. t = Tail(s)
  BY <1>2, <1>4, <1>6, SeqEqual
<1> QED
  BY <1>3, <1>5, <1>7 DEF s, t

(* Nothing lies between a number and itself.                               *)
LEMMA WindowEmpty ==
  ASSUME NEW b \in Buffers, NEW f \in Nat
  PROVE  Window(b, f, f) = <<>>
<1>1. Window(b, f, f) \in Seq(Items) /\ Len(Window(b, f, f)) = 0
  BY WindowIsSeq
<1> QED
  BY <1>1, EmptySeq

(* A window in two parts, the first of which is arriving.                  *)
LEMMA WindowSplit ==
  ASSUME NEW b \in Buffers, NEW f \in Nat, NEW m \in Nat, NEW k \in Nat, NEW l \in Nat,
         f <= m, m < k, k <= l
  PROVE  CutAt(b, f, m, k, l)
<1> DEFINE s == Window(b, m, l)
           t == Window(b, k, l)
           u == Window(b, f, m)
           v == Window(b, f, k)
<1>0. m <= l /\ f <= k
  OBVIOUS
<1>1. /\ s \in Seq(Items) /\ Len(s) = l - m
      /\ \A i \in 1 .. l - m : s[i] = b[Index(m + i - 1)]
  BY <1>0, WindowIsSeq
<1>2. /\ t \in Seq(Items) /\ Len(t) = l - k
      /\ \A i \in 1 .. l - k : t[i] = b[Index(k + i - 1)]
  BY <1>0, WindowIsSeq
<1>3. /\ u \in Seq(Items) /\ Len(u) = m - f
      /\ \A i \in 1 .. m - f : u[i] = b[Index(f + i - 1)]
  BY <1>0, WindowIsSeq
<1>4. /\ v \in Seq(Items) /\ Len(v) = k - f
      /\ \A i \in 1 .. k - f : v[i] = b[Index(f + i - 1)]
  BY <1>0, WindowIsSeq
<1> HIDE DEF s, t, u, v
<1> DEFINE x == SubSeq(s, k - m + 1, l - m)
           y == SubSeq(s, 1, k - m)
<1>5. \A i \in 1 .. l - m : s[i] \in Items
  BY <1>1, ElementOfSeq
<1>6. /\ x \in Seq(Items) /\ Len(x) = l - k
      /\ \A i \in 1 .. l - k : x[i] = s[k - m + i]
  <2>1. \A i \in k - m + 1 .. l - m : s[i] \in Items
    BY <1>5
  <2>2. /\ x \in Seq(Items)
        /\ Len(x) = IF k - m + 1 <= l - m THEN l - m - (k - m + 1) + 1 ELSE 0
        /\ \A i \in 1 .. l - m - (k - m + 1) + 1 : x[i] = s[k - m + 1 + i - 1]
    BY <2>1, SubSeqProperties
  <2>3. l - m - (k - m + 1) + 1 = l - k /\ \A i \in Int : k - m + 1 + i - 1 = k - m + i
    OBVIOUS
  <2> HIDE DEF x
  <2> QED
    BY <2>2, <2>3
<1>7. /\ y \in Seq(Items) /\ Len(y) = k - m
      /\ \A i \in 1 .. k - m : y[i] = s[i]
  <2>1. \A i \in 1 .. k - m : s[i] \in Items
    BY <1>5
  <2>2. /\ y \in Seq(Items) /\ Len(y) = IF 1 <= k - m THEN k - m - 1 + 1 ELSE 0
        /\ \A i \in 1 .. k - m - 1 + 1 : y[i] = s[1 + i - 1]
    BY <2>1, SubSeqProperties
  <2>3. k - m - 1 + 1 = k - m /\ \A i \in Int : 1 + i - 1 = i
    OBVIOUS
  <2> HIDE DEF y
  <2> QED
    BY <2>2, <2>3
<1> HIDE DEF x, y
<1>8. x = t
  <2>1. ASSUME NEW i \in 1 .. l - k PROVE x[i] = t[i]
    <3>1. k - m + i \in 1 .. l - m /\ m + (k - m + i) - 1 = k + i - 1
      OBVIOUS
    <3> QED
      BY <1>1, <1>2, <1>6, <3>1
  <2> QED
    BY <1>2, <1>6, <2>1, SeqEqual
<1>9. u \o y = v
  <2>1. /\ u \o y \in Seq(Items) /\ Len(u \o y) = Len(u) + Len(y)
        /\ \A i \in 1 .. Len(u) + Len(y) :
             (u \o y)[i] = IF i <= Len(u) THEN u[i] ELSE y[i - Len(u)]
    BY <1>3, <1>7, ConcatProperties
  <2>2. Len(u) + Len(y) = k - f
    BY <1>3, <1>7
  <2>3. ASSUME NEW i \in 1 .. k - f PROVE (u \o y)[i] = v[i]
    <3>1. CASE i <= m - f
      BY <1>3, <1>4, <2>1, <2>2, <3>1
    <3>2. CASE ~ (i <= m - f)
      <4>1. /\ i - (m - f) \in 1 .. k - m /\ i - (m - f) \in 1 .. l - m
            /\ m + (i - (m - f)) - 1 = f + i - 1
        BY <3>2
      <4>2. (u \o y)[i] = y[i - (m - f)]
        BY <1>3, <2>1, <2>2, <3>2
      <4> QED
        BY <1>1, <1>4, <1>7, <4>1, <4>2
    <3> QED
      BY <3>1, <3>2
  <2> QED
    BY <1>4, <2>1, <2>2, <2>3, SeqEqual
<1> QED
  BY <1>1, <1>8, <1>9 DEF CutAt, s, t, u, v, x, y

(* A write behind the window does not touch it.                            *)
LEMMA WindowSpared ==
  ASSUME NEW b, NEW c, NEW f \in Nat, NEW l \in Nat, NEW n \in Nat,
         f <= l, l <= n, n - f < capacity_,
         SameBut(b, c, n)
  PROVE  Window(c, f, l) = Window(b, f, l)
<1> SUFFICES ASSUME NEW i \in 1 .. l - f
             PROVE  c[Index(f + i - 1)] = b[Index(f + i - 1)]
  BY DEF Window
<1> DEFINE j == f + i - 1
<1>1. j \in Nat /\ j < n /\ n - j < capacity_
  BY QueueCapacityAssumption DEF capacity_
<1> HIDE DEF j
<1>2. Index(j) # Index(n)
  BY <1>1, SameIndex
<1>3. Index(j) \in 0 .. capacity_ - 1
  BY <1>1, IndexInRange
<1> QED
  BY <1>2, <1>3 DEF j, SameBut
-----------------------------------------------------------------------------
(* The refinement.                                                         *)

(* What the invariant says of the windows that make up the channel.        *)
LEMMA ChannelFacts ==
  ASSUME IInv
  PROVE  /\ buffer_ \in Buffers
         /\ head_.visible \in Nat /\ head_.stores \in Nat
         /\ tail_.visible \in Nat /\ tail_.stores \in Nat
         /\ head_.visible <= head_.stores /\ head_.stores <= tail_.visible
         /\ tail_.visible <= tail_.stores /\ tail_.stores <= head_.visible + QueueCapacity
         /\ channel.sent = Window(buffer_, tail_.visible, tail_.stores)
         /\ channel.ready = Window(buffer_, head_.stores, tail_.visible)
         /\ channel.freed = head_.stores - head_.visible
         /\ Len(channel.sent) = tail_.stores - tail_.visible
         /\ Len(channel.ready) = tail_.visible - head_.stores
<1>1. /\ buffer_ \in Buffers
      /\ head_.visible \in Nat /\ head_.stores \in Nat
      /\ tail_.visible \in Nat /\ tail_.stores \in Nat
      /\ head_.visible <= head_.stores /\ head_.stores <= tail_.visible
      /\ tail_.visible <= tail_.stores /\ tail_.stores <= head_.visible + QueueCapacity
  BY MaxPushesAssumption DEF IInv, TypeOK, IndexType, Buffers
<1>2. /\ channel.sent = Window(buffer_, tail_.visible, tail_.stores)
      /\ channel.ready = Window(buffer_, head_.stores, tail_.visible)
      /\ channel.freed = head_.stores - head_.visible
  BY DEF channel, ItemsBetween, Window
<1>3. /\ Len(channel.sent) = tail_.stores - tail_.visible
      /\ Len(channel.ready) = tail_.visible - head_.stores
  BY <1>1, <1>2, WindowIsSeq
<1> QED
  BY <1>1, <1>2, <1>3

(* The channel's operations on a record whose fields are known.            *)
ChannelOf(s, r, f) == [sent |-> s, ready |-> r, freed |-> f]

LEMMA PushedSends ==
  ASSUME NEW s, NEW r, NEW f, NEW item
  PROVE  Abstract!Pushed(ChannelOf(s, r, f), item) = ChannelOf(Append(s, item), r, f)
  BY DEF Abstract!Pushed, ChannelOf

LEMMA PoppedFrees ==
  ASSUME NEW s, NEW r, NEW f
  PROVE  Abstract!Popped(ChannelOf(s, r, f)) = ChannelOf(s, Tail(r), f + 1)
<1>1. /\ ChannelOf(s, r, f).sent = s /\ ChannelOf(s, r, f).ready = r
      /\ ChannelOf(s, r, f).freed = f
  BY DEF ChannelOf
<1> QED
  BY <1>1, Zenon DEF Abstract!Popped, ChannelOf

LEMMA Arrived ==
  ASSUME NEW s, NEW r, NEW f, NEW n \in 1 .. Len(s)
  PROVE  ChannelOf(SubSeq(s, n + 1, Len(s)), r \o SubSeq(s, 1, n), f)
           \in Abstract!Arrivals(ChannelOf(s, r, f))
<1> DEFINE ch == ChannelOf(s, r, f)
<1>1. ch.sent = s /\ ch.ready = r /\ ch.freed = f
  BY DEF ChannelOf
<1> HIDE DEF ch
<1> QED
  BY <1>1, Zenon DEF Abstract!Arrivals, ChannelOf, ch

LEMMA Returned ==
  ASSUME NEW s, NEW r, NEW f, NEW n \in 0 .. f - 1
  PROVE  ChannelOf(s, r, n) \in Abstract!Returns(ChannelOf(s, r, f))
<1>1. ChannelOf(s, r, n) = [ChannelOf(s, r, f) EXCEPT !.freed = n] /\ ChannelOf(s, r, f).freed = f
  BY DEF ChannelOf
<1> QED
  BY <1>1, Zenon DEF Abstract!Returns

(* The channel is full to its producer when the queue looks full, and      *)
(* empty to its consumer when the queue looks empty.                       *)
LEMMA FullAndEmpty ==
  ASSUME IInv
  PROVE  (SeesFull <=> Abstract!Full(channel)) /\ (SeesEmpty <=> Abstract!Empty(channel))
<1> DEFINE hv == head_.visible
           hs == head_.stores
           tv == tail_.visible
           ts == tail_.stores
           S == channel.sent
           R == channel.ready
           F == channel.freed
<1>1. /\ buffer_ \in Buffers /\ hv \in Nat /\ hs \in Nat /\ tv \in Nat /\ ts \in Nat
      /\ hs <= tv /\ R = Window(buffer_, hs, tv)
      /\ Len(S) = ts - tv /\ Len(R) = tv - hs /\ F = hs - hv
  BY ChannelFacts
<1>2. SeesFull <=> ts = hv + QueueCapacity
  BY SeesFullMeans DEF IInv
<1>3. SeesEmpty <=> hs = tv
  BY SeesEmptyMeans DEF IInv
<1>4. Abstract!Full(channel) <=> Len(S) + Len(R) + F = QueueCapacity
  BY DEF Abstract!Full
<1>5. Abstract!Empty(channel) <=> R = <<>>
  BY DEF Abstract!Empty
<1> HIDE DEF hv, hs, tv, ts, S, R, F
<1>6. Len(S) + Len(R) + F = ts - hv
  BY <1>1
<1>7. ts = hv + QueueCapacity <=> Len(S) + Len(R) + F = QueueCapacity
  BY <1>1, <1>6, QueueCapacityAssumption
<1>8. hs = tv <=> R = <<>>
  BY <1>1, WindowEmpty, WindowTail
<1> QED
  BY <1>2, <1>3, <1>4, <1>5, <1>7, <1>8, Zenon

LEMMA InitRefines == Init => Abstract!Init
<1> SUFFICES ASSUME Init PROVE Abstract!Init
  OBVIOUS
<1>1. IInv
  BY InitIInv
<1>2. channel.sent = <<>> /\ channel.ready = <<>> /\ channel.freed = 0
  BY <1>1, ChannelFacts, WindowEmpty DEF Init
<1>3. channel = [sent |-> channel.sent, ready |-> channel.ready, freed |-> channel.freed]
  BY DEF channel
<1> QED
  BY <1>2, <1>3 DEF Init, Abstract!Init, Abstract!NewChannel

(* Steps that publish nothing and touch no item stutter; the write of a    *)
(* push is one because the windows end before it.                          *)
LEMMA StepRefines == IInv /\ [Next]_vars => [Abstract!Next]_(Abstract!vars)
<1> SUFFICES ASSUME IInv, [Next]_vars
             PROVE  Abstract!Next \/ UNCHANGED <<channel, pushed, popped>>
  BY DEF Abstract!vars
<1> DEFINE hv == head_.visible
           hs == head_.stores
           tv == tail_.visible
           ts == tail_.stores
           S == channel.sent
           R == channel.ready
           F == channel.freed
<1>f. /\ buffer_ \in Buffers /\ hv \in Nat /\ hs \in Nat /\ tv \in Nat /\ ts \in Nat
      /\ hv <= hs /\ hs <= tv /\ tv <= ts /\ ts <= hv + QueueCapacity
      /\ S = Window(buffer_, tv, ts) /\ R = Window(buffer_, hs, tv) /\ F = hs - hv
      /\ Len(S) = ts - tv /\ Len(R) = tv - hs
  BY ChannelFacts
<1>w. /\ (SeesFull <=> Abstract!Full(channel))
      /\ (SeesEmpty <=> Abstract!Empty(channel))
  BY FullAndEmpty
<1>c. channel = ChannelOf(S, R, F)
  BY DEF channel, ChannelOf
<1>n. channel' = ChannelOf(Window(buffer_', tail_'.visible, tail_'.stores),
                           Window(buffer_', head_'.stores, tail_'.visible),
                           head_'.stores - head_'.visible)
  BY DEF channel, ItemsBetween, Window, ChannelOf
<1>s. ASSUME UNCHANGED <<buffer_, head_, tail_>>
      PROVE  channel' = channel
  BY <1>s DEF channel, ItemsBetween, Index
<1>1. CASE PushFails
  <2>1. Abstract!PushFails
    BY <1>s, <1>1, <1>w DEF PushFails, Abstract!PushFails
  <2> QED
    BY <2>1 DEF Abstract!Next
<1>2. ASSUME NEW item \in Items, PushStarts(item)
      PROVE  UNCHANGED <<channel, pushed, popped>>
  BY <1>s, <1>2 DEF PushStarts
<1>3. CASE PushWrites
  <2>1. /\ SameBut(buffer_, buffer_', ts)
        /\ tail_' = tail_ /\ head_' = head_ /\ UNCHANGED <<pushed, popped>>
    BY <1>3, <1>f DEF PushWrites, Buffers, SameBut
  <2>2. channel' = ChannelOf(Window(buffer_', tv, ts), Window(buffer_', hs, tv), F)
    BY <1>n, <1>f, <2>1
  <2> HIDE DEF hv, hs, tv, ts, S, R, F
  <2>3. ts - tv < capacity_ /\ ts - hs < capacity_ /\ hs <= ts /\ ts <= ts
    BY <1>f, QueueCapacityAssumption DEF capacity_
  <2>4. tv \in Nat /\ ts \in Nat /\ hs \in Nat /\ tv <= ts /\ hs <= tv
    BY <1>f
  <2>5. Window(buffer_', tv, ts) = Window(buffer_, tv, ts)
    BY <2>1, <2>3, <2>4, WindowSpared
  <2>6. Window(buffer_', hs, tv) = Window(buffer_, hs, tv)
    BY <2>1, <2>3, <2>4, WindowSpared
  <2> QED
    BY <1>c, <1>f, <2>1, <2>2, <2>5, <2>6, Zenon
<1>4. CASE PushPublishes
  <2>1. producer.item \in Items /\ buffer_[Index(ts)] = producer.item
    BY <1>4 DEF PushPublishes, IInv, TypeOK, ItemsInPlace
  <2>2. ~ Abstract!Full(channel)
    <3>1. ts < hv + QueueCapacity
      BY <1>4 DEF PushPublishes, IInv, InFlight
    <3>2. SeesFull <=> ts = hv + QueueCapacity
      BY SeesFullMeans DEF IInv
    <3> HIDE DEF hv, ts
    <3>3. ts # hv + QueueCapacity
      BY <1>f, <3>1, QueueCapacityAssumption
    <3> QED
      BY <1>w, <3>2, <3>3, Zenon
  <2>3. /\ tail_'.stores = ts + 1 /\ tail_'.visible = tv
        /\ buffer_' = buffer_ /\ head_' = head_ /\ pushed' = TRUE /\ popped' = popped
    BY <1>4 DEF PushPublishes, Store, IInv, TypeOK, IndexType
  <2>4. channel' = ChannelOf(Window(buffer_, tv, ts + 1), R, F)
    BY <1>n, <1>f, <2>3
  <2> HIDE DEF hv, hs, tv, ts, S, R, F
  <2>5. Window(buffer_, tv, ts + 1) = Append(S, producer.item)
    BY <1>f, <2>1, WindowAppend
  <2>6. channel' = Abstract!Pushed(channel, producer.item)
    <3>1. Abstract!Pushed(ChannelOf(S, R, F), producer.item)
            = ChannelOf(Append(S, producer.item), R, F)
      BY PushedSends, Zenon
    <3> QED
      BY <1>c, <2>4, <2>5, <3>1, Zenon
  <2>7. Abstract!Push(producer.item)
    BY <2>2, <2>3, <2>6 DEF Abstract!Push
  <2> QED
    BY <2>1, <2>7 DEF Abstract!Next
<1>5. CASE PopFails
  <2>1. Abstract!PopFails
    BY <1>s, <1>5, <1>w DEF PopFails, Abstract!PopFails
  <2> QED
    BY <2>1 DEF Abstract!Next
<1>6. CASE PopStarts
  BY <1>s, <1>6 DEF PopStarts
<1>7. CASE PopReads
  BY <1>s, <1>7 DEF PopReads
<1>8. CASE PopReleases
  <2>1. hs < tv /\ buffer_[Index(hs)] = consumer.item
    BY <1>8 DEF PopReleases, IInv, InFlight, ItemsInPlace
  <2>2. /\ head_'.stores = hs + 1 /\ head_'.visible = hv
        /\ buffer_' = buffer_ /\ tail_' = tail_ /\ pushed' = pushed
        /\ popped' = [ok |-> TRUE, item |-> consumer.item]
    BY <1>8 DEF PopReleases, Store, IInv, TypeOK, IndexType
  <2>3. ~ Abstract!Empty(channel) <=> R # <<>>
    BY DEF Abstract!Empty
  <2>4. tail_'.visible = tv /\ tail_'.stores = ts
    BY <2>2
  <2> HIDE DEF hv, hs, tv, ts, S, R, F
  <2>5. channel' = ChannelOf(S, Window(buffer_, hs + 1, tv), hs + 1 - hv)
    <3>1. Window(buffer_', tail_'.visible, tail_'.stores) = S
      BY <1>f, <2>2, <2>4, Zenon
    <3>2. Window(buffer_', head_'.stores, tail_'.visible) = Window(buffer_, hs + 1, tv)
      BY <2>2, <2>4, Zenon
    <3>3. head_'.stores - head_'.visible = hs + 1 - hv
      BY <1>f, <2>2
    <3> QED
      BY <1>n, <3>1, <3>2, <3>3, Zenon
  <2>6. hs + 1 - hv = F + 1
    BY <1>f
  <2>7. R # <<>> /\ Head(R) = consumer.item /\ Tail(R) = Window(buffer_, hs + 1, tv)
    BY <1>f, <2>1, WindowTail
  <2>8. channel' = Abstract!Popped(channel)
    <3>1. Abstract!Popped(ChannelOf(S, R, F)) = ChannelOf(S, Tail(R), F + 1)
      BY PoppedFrees, Zenon
    <3> QED
      BY <1>c, <2>5, <2>6, <2>7, <3>1, Zenon
  <2>9. Abstract!Pop
    BY <2>2, <2>3, <2>7, <2>8 DEF Abstract!Pop, R
  <2> QED
    BY <2>9 DEF Abstract!Next
<1>9. CASE TailArrives
  <2>1. PICK n \in tv + 1 .. ts : tail_' = [tail_ EXCEPT !.visible = n]
    BY <1>9 DEF TailArrives
  <2>2. /\ tail_'.visible = n /\ tail_'.stores = ts
        /\ buffer_' = buffer_ /\ head_' = head_ /\ pushed' = pushed /\ popped' = popped
    BY <1>9, <2>1 DEF TailArrives, IInv, TypeOK, IndexType
  <2>3. channel' = ChannelOf(Window(buffer_, n, ts), Window(buffer_, hs, n), F)
    BY <1>n, <1>f, <2>2
  <2> DEFINE k == n - tv
  <2> HIDE DEF hv, hs, tv, ts, S, R, F
  <2>4. n \in Nat /\ hs <= tv /\ tv < n /\ n <= ts /\ k \in 1 .. Len(S)
    BY <1>f
  <2>5. /\ SubSeq(S, k + 1, Len(S)) = Window(buffer_, n, ts)
        /\ R \o SubSeq(S, 1, k) = Window(buffer_, hs, n)
    <3>1. buffer_ \in Buffers /\ hs \in Nat /\ tv \in Nat /\ n \in Nat /\ ts \in Nat
      BY <1>f, <2>4
    <3>2. hs <= tv /\ tv < n /\ n <= ts
      BY <2>4
    <3>3. CutAt(buffer_, hs, tv, n, ts)
      BY <3>1, <3>2, WindowSplit, Zenon
    <3> QED
      BY <1>f, <3>3 DEF CutAt
  <2> HIDE DEF k
  <2>6. channel' \in Abstract!Arrivals(channel)
    BY <1>c, <2>3, <2>4, <2>5, Arrived
  <2>7. Abstract!Visibility
    BY <2>2, <2>6 DEF Abstract!Visibility
  <2> QED
    BY <2>7 DEF Abstract!Next
<1>10. CASE HeadArrives
  <2>1. PICK n \in hv + 1 .. hs : head_' = [head_ EXCEPT !.visible = n]
    BY <1>10 DEF HeadArrives
  <2>2. /\ head_'.visible = n /\ head_'.stores = hs
        /\ buffer_' = buffer_ /\ tail_' = tail_ /\ pushed' = pushed /\ popped' = popped
    BY <1>10, <2>1 DEF HeadArrives, IInv, TypeOK, IndexType
  <2>3. channel' = ChannelOf(S, R, hs - n)
    BY <1>n, <1>f, <2>2
  <2> HIDE DEF hv, hs, tv, ts, S, R, F
  <2>4. hs - n \in 0 .. F - 1
    BY <1>f
  <2>5. channel' \in Abstract!Returns(channel)
    BY <1>c, <2>3, <2>4, Returned
  <2>6. Abstract!Visibility
    BY <2>2, <2>5 DEF Abstract!Visibility
  <2> QED
    BY <2>6 DEF Abstract!Next
<1>11. CASE UNCHANGED vars
  BY <1>s, <1>11 DEF vars
<1> QED
  BY <1>1, <1>2, <1>3, <1>4, <1>5, <1>6, <1>7, <1>8, <1>9, <1>10, <1>11
  DEF Next, Producer, Consumer

(* Items come out once, unchanged and in order, and a call fails only when *)
(* the channel is full or empty to its caller, for every capacity and any  *)
(* number of items (spsc_queue.h:29-57).                                   *)
THEOREM Refinement == Spec => ImplementsChannel
<1>1. IInv /\ [Next]_vars => [Abstract!Next]_(Abstract!vars)
  BY StepRefines
<1> QED
  BY <1>1, InitRefines, Inductive, PTL DEF Spec, ImplementsChannel, Abstract!Spec
=============================================================================
