-------------------------- MODULE StringCacheProofs -------------------------
(***************************************************************************)
(* Lemmas about the cache and the registry that the terminal simulator and *)
(* the web server have in common: the entries that an operation leaves in  *)
(* the cache, and what to_uint64 does to the registry.  Then, about the    *)
(* handlers of the web server: whatever the request, a batch of any length *)
(* included, they leave a cache whose keys and values the registry knows.  *)
(***************************************************************************)
EXTENDS WebApi, BasicLemmas

-----------------------------------------------------------------------------
(* Sequences of entries.                                                   *)

(* No key comes twice in the entries that are left when one is taken out.  *)
LEMMA LessUnique ==
  ASSUME NEW s \in Seq(EntryType), UniqueKeys(s), NEW k \in 1 .. Len(s)
  PROVE  LET r == WithoutAt(s, k)
         IN  /\ r \in Seq(EntryType) /\ Len(r) = Len(s) - 1 /\ UniqueKeys(r)
             /\ \A i \in DOMAIN r : r[i].key # s[k].key /\ \E j \in DOMAIN s : r[i] = s[j]
<1> DEFINE r == WithoutAt(s, k)
<1>1. /\ r \in Seq(EntryType) /\ Len(r) = Len(s) - 1
      /\ \A i \in 1 .. Len(s) - 1 : r[i] = IF i < k THEN s[i] ELSE s[i + 1]
  BY WithoutAtIs
<1> HIDE DEF r
<1>2. DOMAIN s = 1 .. Len(s) /\ Len(s) \in Nat /\ DOMAIN r = 1 .. Len(s) - 1
  BY <1>1, LenProperties
<1> DEFINE from(i) == IF i < k THEN i ELSE i + 1
<1>3. \A i \in DOMAIN r : from(i) \in DOMAIN s /\ from(i) # k /\ r[i] = s[from(i)]
  BY <1>1, <1>2
<1>4. \A i, j \in DOMAIN r : from(i) = from(j) => i = j
  BY <1>2
<1> HIDE DEF from
<1>5. UniqueKeys(r)
  BY <1>3, <1>4 DEF UniqueKeys
<1>6. \A i \in DOMAIN r : r[i].key # s[k].key
  BY <1>2, <1>3 DEF UniqueKeys
<1> QED
  BY <1>1, <1>3, <1>5, <1>6 DEF r

(* Nor when one with a new key comes to the front.                         *)
LEMMA MoreUnique ==
  ASSUME NEW s \in Seq(EntryType), UniqueKeys(s), NEW e \in EntryType,
         \A i \in DOMAIN s : s[i].key # e.key
  PROVE  LET r == <<e>> \o s
         IN  /\ r \in Seq(EntryType) /\ Len(r) = Len(s) + 1 /\ UniqueKeys(r)
             /\ \A i \in DOMAIN r : r[i] = e \/ \E j \in DOMAIN s : r[i] = s[j]
<1> DEFINE r == <<e>> \o s
<1>1. /\ r \in Seq(EntryType) /\ Len(r) = Len(s) + 1
      /\ \A i \in 1 .. Len(s) + 1 : r[i] = IF i = 1 THEN e ELSE s[i - 1]
  BY InFrontIs
<1> HIDE DEF r
<1>2. DOMAIN s = 1 .. Len(s) /\ Len(s) \in Nat /\ DOMAIN r = 1 .. Len(s) + 1
  BY <1>1, LenProperties
<1>3. \A i \in DOMAIN r : i # 1 => i - 1 \in DOMAIN s /\ r[i] = s[i - 1]
  BY <1>1, <1>2
<1>4. \A i \in DOMAIN r : i = 1 => r[i] = e
  BY <1>1, <1>2
<1>5. ASSUME NEW i \in DOMAIN r, NEW j \in DOMAIN r, r[i].key = r[j].key
      PROVE  i = j
  <2>1. CASE i = 1 /\ j # 1
    BY <1>3, <1>4, <1>5, <2>1
  <2>2. CASE i # 1 /\ j = 1
    BY <1>3, <1>4, <1>5, <2>2
  <2>3. CASE i # 1 /\ j # 1
    <3>1. i - 1 = j - 1
      BY <1>3, <1>5, <2>3 DEF UniqueKeys
    <3> QED
      BY <1>2, <3>1
  <2> QED
    BY <2>1, <2>2, <2>3
<1> QED
  BY <1>1, <1>3, <1>4, <1>5 DEF UniqueKeys, r

(* Nor in the first ones.                                                  *)
LEMMA FirstUnique ==
  ASSUME NEW s \in Seq(EntryType), UniqueKeys(s), NEW m \in 0 .. Len(s)
  PROVE  LET r == SubSeq(s, 1, m)
         IN  /\ r \in Seq(EntryType) /\ Len(r) = m /\ UniqueKeys(r)
             /\ \A i \in DOMAIN r : \E j \in DOMAIN s : r[i] = s[j]
<1> DEFINE r == SubSeq(s, 1, m)
<1>1. Len(s) \in Nat /\ DOMAIN s = 1 .. Len(s)
  BY LenProperties
<1>2. r \in Seq(EntryType)
  BY FirstOnes
<1>3. Len(r) = m /\ \A i \in 1 .. m : r[i] = s[i]
  BY <1>1
<1> HIDE DEF r
<1>4. DOMAIN r = 1 .. m
  BY <1>2, <1>3, LenProperties
<1>5. \A i \in DOMAIN r : i \in DOMAIN s /\ r[i] = s[i]
  BY <1>1, <1>3, <1>4
<1> QED
  BY <1>2, <1>3, <1>5 DEF UniqueKeys, r

-----------------------------------------------------------------------------
(* The operations of the cache.                                            *)

LEMMA CacheFields ==
  ASSUME NEW caps, NEW c \in CachesOf(caps)
  PROVE  /\ c = [capacity |-> c.capacity, entries |-> c.entries, hits |-> c.hits,
                 misses |-> c.misses, evictions |-> c.evictions]
         /\ c.capacity \in caps
         /\ c.entries \in Seq(EntryType) /\ DOMAIN c.entries = 1 .. Len(c.entries)
         /\ Len(c.entries) \in Nat /\ Len(c.entries) <= c.capacity /\ UniqueKeys(c.entries)
         /\ c.hits \in Counter /\ c.misses \in Counter /\ c.evictions \in Counter
<1>1. c.entries \in Seq(EntryType)
  BY DEF CachesOf
<1> QED
  BY <1>1, LenProperties DEF CachesOf

LEMMA NumberIs == \A s \in Strings : Number[s] \in Numbers
  BY DEF Numbers

LEMMA IncrementIs == \A n \in Counter : LRU!Increment(n) \in Counter
  BY StringsAssumption DEF Counter, LRU!Increment

LEMMA NewIs ==
  ASSUME NEW cap \in Nat
  PROVE  CacheOf(cap) \in CachesOf({cap}) /\ CacheOf(cap).entries = <<>>
<1>1. <<>> \in Seq(EntryType) /\ Len(<<>>) = 0 /\ DOMAIN <<>> = {}
  OBVIOUS
<1>2. 0 \in Counter
  BY StringsAssumption DEF Counter
<1> QED
  BY <1>1, <1>2 DEF CacheOf, LRU!NewLru, CachesOf, UniqueKeys

(* The entry of a key is taken out of the entries, if it is there.         *)
LEMMA OthersIs ==
  ASSUME NEW caps, NEW c \in CachesOf(caps), NEW n \in Numbers
  PROVE  LET r == LRU!Others(c, n)
         IN  /\ r \in Seq(EntryType) /\ UniqueKeys(r)
             /\ Len(r) = IF LRU!Has(c, n) THEN Len(c.entries) - 1 ELSE Len(c.entries)
             /\ \A i \in DOMAIN r : r[i].key # n /\ \E j \in DOMAIN c.entries : r[i] = c.entries[j]
<1> DEFINE s == c.entries
           r == LRU!Others(c, n)
<1>1. s \in Seq(EntryType) /\ UniqueKeys(s) /\ DOMAIN s = 1 .. Len(s)
  BY CacheFields
<1>2. CASE LRU!Has(c, n)
  <2> DEFINE k == LRU!Position(c, n)
  <2>1. k \in DOMAIN s /\ s[k].key = n
    BY <1>2 DEF LRU!Has, LRU!Position
  <2>2. r = WithoutAt(s, k)
    BY <1>2 DEF LRU!Others, LRU!Before, LRU!After, WithoutAt
  <2> HIDE DEF r, s, k
  <2>a. s \in Seq(EntryType) /\ UniqueKeys(s) /\ k \in 1 .. Len(s)
    BY <1>1, <2>1
  <2>3. LET w == WithoutAt(s, k)
        IN  /\ w \in Seq(EntryType) /\ Len(w) = Len(s) - 1 /\ UniqueKeys(w)
            /\ \A i \in DOMAIN w : w[i].key # s[k].key /\ \E j \in DOMAIN s : w[i] = s[j]
    BY <2>a, LessUnique
  <2>4. /\ r \in Seq(EntryType) /\ UniqueKeys(r) /\ Len(r) = Len(s) - 1
        /\ \A i \in DOMAIN r : r[i].key # n /\ \E j \in DOMAIN s : r[i] = s[j]
    BY <2>1, <2>2, <2>3
  <2> QED
    BY <1>2, <2>4 DEF r, s
<1>3. CASE ~ LRU!Has(c, n)
  <2>1. r = s /\ \A i \in DOMAIN s : s[i].key # n
    BY <1>3 DEF LRU!Others, LRU!Has
  <2> HIDE DEF r
  <2> QED
    BY <1>1, <1>3, <2>1 DEF r
<1> QED
  BY <1>2, <1>3

(* A key that is used is in front.                                         *)
LEMMA UseIs ==
  ASSUME NEW caps, NEW c \in CachesOf(caps), NEW n \in Numbers, NEW v \in Numbers
  PROVE  LET r == LRU!Use(c, n, v)
         IN  /\ r \in Seq(EntryType) /\ UniqueKeys(r)
             /\ Len(r) = IF LRU!Has(c, n) THEN Len(c.entries) ELSE Len(c.entries) + 1
             /\ \A i \in DOMAIN r :
                  \/ r[i] = [key |-> n, value |-> v]
                  \/ r[i].key # n /\ \E j \in DOMAIN c.entries : r[i] = c.entries[j]
<1> DEFINE e == [key |-> n, value |-> v]
           s == LRU!Others(c, n)
           r == LRU!Use(c, n, v)
<1>1. /\ s \in Seq(EntryType) /\ UniqueKeys(s)
      /\ Len(s) = IF LRU!Has(c, n) THEN Len(c.entries) - 1 ELSE Len(c.entries)
      /\ \A i \in DOMAIN s : s[i].key # n /\ \E j \in DOMAIN c.entries : s[i] = c.entries[j]
  BY OthersIs
<1>2. e \in EntryType /\ e.key = n
  BY DEF EntryType
<1>3. r = <<e>> \o s
  BY DEF LRU!Use
<1>4. Len(c.entries) \in Nat
  BY CacheFields
<1> HIDE DEF e, s, r
<1>5. /\ r \in Seq(EntryType) /\ Len(r) = Len(s) + 1 /\ UniqueKeys(r)
      /\ \A i \in DOMAIN r : r[i] = e \/ \E j \in DOMAIN s : r[i] = s[j]
  BY <1>1, <1>2, <1>3, MoreUnique
<1>6. Len(r) = IF LRU!Has(c, n) THEN Len(c.entries) ELSE Len(c.entries) + 1
  BY <1>1, <1>4, <1>5
<1>7. \A i \in DOMAIN r : r[i] = e \/ (r[i].key # n /\ \E j \in DOMAIN c.entries : r[i] = c.entries[j])
  BY <1>1, <1>5
<1> QED
  BY <1>5, <1>6, <1>7 DEF e, r

(* The entries of d are entries of c.                                      *)
Kept(c, d) == \A i \in DOMAIN d.entries : \E j \in DOMAIN c.entries : d.entries[i] = c.entries[j]

(* So are they, but for the one with the number n as key, if there is one. *)
KeptBut(c, d, n, v) ==
  \A i \in DOMAIN d.entries :
    \/ d.entries[i] = [key |-> n, value |-> v]
    \/ d.entries[i].key # n /\ \E j \in DOMAIN c.entries : d.entries[i] = c.entries[j]

LEMMA PutIs ==
  ASSUME NEW caps \in SUBSET Nat, NEW c \in CachesOf(caps), NEW key \in Strings, NEW val \in Strings
  PROVE  LET d == put(c, key, val)
         IN  /\ d \in CachesOf({c.capacity}) /\ d.capacity = c.capacity
             /\ KeptBut(c, d, Number[key], Number[val])
<1> DEFINE d == put(c, key, val)
           n == Number[key]
           v == Number[val]
           u == LRU!Use(c, n, v)
           room == LRU!Has(c, n) \/ Len(c.entries) < c.capacity
           s == IF room THEN u ELSE SubSeq(u, 1, c.capacity)
<1>1. n \in Numbers /\ v \in Numbers
  BY NumberIs
<1>2. /\ c = [capacity |-> c.capacity, entries |-> c.entries, hits |-> c.hits,
              misses |-> c.misses, evictions |-> c.evictions]
      /\ Len(c.entries) \in Nat /\ Len(c.entries) <= c.capacity /\ c.capacity \in Nat
      /\ c.hits \in Counter /\ c.misses \in Counter /\ c.evictions \in Counter
  BY CacheFields
<1> HIDE DEF n, v
<1>3. /\ u \in Seq(EntryType) /\ UniqueKeys(u)
      /\ Len(u) = IF LRU!Has(c, n) THEN Len(c.entries) ELSE Len(c.entries) + 1
      /\ \A i \in DOMAIN u : \/ u[i] = [key |-> n, value |-> v]
                             \/ u[i].key # n /\ \E j \in DOMAIN c.entries : u[i] = c.entries[j]
  BY <1>1, UseIs
<1> HIDE DEF u
<1>4. /\ s \in Seq(EntryType) /\ UniqueKeys(s) /\ Len(s) <= c.capacity
      /\ \A i \in DOMAIN s : \E j \in DOMAIN u : s[i] = u[j]
  <2>1. CASE room
    <3>1. Len(u) <= c.capacity
      BY <1>2, <1>3, <2>1
    <3> QED
      BY <1>3, <2>1, <3>1
  <2>2. CASE ~ room
    <3>1. c.capacity \in 0 .. Len(u)
      BY <1>2, <1>3, <2>2
    <3>2. LET r == SubSeq(u, 1, c.capacity)
          IN  /\ r \in Seq(EntryType) /\ Len(r) = c.capacity /\ UniqueKeys(r)
              /\ \A i \in DOMAIN r : \E j \in DOMAIN u : r[i] = u[j]
      BY <1>3, <3>1, FirstUnique
    <3> QED
      BY <1>2, <2>2, <3>2
  <2> QED
    BY <2>1, <2>2
<1>5. \E x \in Counter : d = [capacity |-> c.capacity, entries |-> s, hits |-> c.hits,
                              misses |-> c.misses, evictions |-> x]
  <2>1. CASE room
    <3>1. d = [c EXCEPT !.entries = s]
      BY <2>1 DEF put, LRU!put, n, v, u
    <3> HIDE DEF d, s
    <3> QED
      BY <1>2, <3>1
  <2>2. CASE ~ room
    <3>1. d = [c EXCEPT !.entries = s, !.evictions = LRU!Increment(@)]
      BY <2>2 DEF put, LRU!put, n, v, u
    <3>2. LRU!Increment(c.evictions) \in Counter
      BY <1>2, IncrementIs
    <3> HIDE DEF d, s
    <3> QED
      BY <1>2, <3>1, <3>2
  <2> QED
    BY <2>1, <2>2
<1> HIDE DEF d, s
<1>6. d \in CachesOf({c.capacity}) /\ d.capacity = c.capacity /\ d.entries = s
  BY <1>2, <1>4, <1>5 DEF CachesOf
<1>7. KeptBut(c, d, n, v)
  BY <1>3, <1>4, <1>6 DEF KeptBut
<1> QED
  BY <1>6, <1>7 DEF d, n, v

LEMMA GetIs ==
  ASSUME NEW caps \in SUBSET Nat, NEW c \in CachesOf(caps), NEW key \in Strings
  PROVE  LET d == get(c, key)
         IN  d \in CachesOf({c.capacity}) /\ d.capacity = c.capacity /\ Kept(c, d)
<1> DEFINE d == get(c, key)
           n == Number[key]
           v == LRU!Value(c, n)
           u == LRU!Use(c, n, v)
<1>1. n \in Numbers
  BY NumberIs
<1>2. /\ c = [capacity |-> c.capacity, entries |-> c.entries, hits |-> c.hits,
              misses |-> c.misses, evictions |-> c.evictions]
      /\ c.entries \in Seq(EntryType) /\ DOMAIN c.entries = 1 .. Len(c.entries) /\ UniqueKeys(c.entries)
      /\ Len(c.entries) \in Nat /\ Len(c.entries) <= c.capacity
      /\ c.hits \in Counter /\ c.misses \in Counter /\ c.evictions \in Counter
  BY CacheFields
<1>3. LRU!Increment(c.hits) \in Counter /\ LRU!Increment(c.misses) \in Counter
  BY <1>2, IncrementIs
<1> HIDE DEF n
<1>4. CASE LRU!Has(c, n)
  <2> DEFINE k == LRU!Position(c, n)
  <2>1. k \in DOMAIN c.entries /\ c.entries[k].key = n
    BY <1>4 DEF LRU!Has, LRU!Position
  <2>2. v = c.entries[k].value
    BY DEF LRU!Value
  <2> HIDE DEF k
  <2>3. c.entries[k] \in EntryType
    BY <1>2, <2>1, ElementOfSeq
  <2>4. v \in Numbers /\ c.entries[k] = [key |-> n, value |-> v]
    BY <2>1, <2>2, <2>3 DEF EntryType
  <2> HIDE DEF v
  <2>5. /\ u \in Seq(EntryType) /\ UniqueKeys(u) /\ Len(u) = Len(c.entries)
        /\ \A i \in DOMAIN u : \/ u[i] = [key |-> n, value |-> v]
                               \/ u[i].key # n /\ \E j \in DOMAIN c.entries : u[i] = c.entries[j]
    BY <1>1, <1>4, <2>4, UseIs
  <2>6. d = [c EXCEPT !.entries = u, !.hits = LRU!Increment(@)]
    BY <1>4 DEF get, LRU!get, n, v
  <2> HIDE DEF d, u
  <2>7. d = [capacity |-> c.capacity, entries |-> u, hits |-> LRU!Increment(c.hits),
             misses |-> c.misses, evictions |-> c.evictions]
    BY <1>2, <2>6
  <2>8. d \in CachesOf({c.capacity}) /\ d.capacity = c.capacity /\ d.entries = u
    BY <1>2, <1>3, <2>5, <2>7 DEF CachesOf
  <2>9. Kept(c, d)
    BY <2>1, <2>4, <2>5, <2>8 DEF Kept
  <2> QED
    BY <2>8, <2>9 DEF d
<1>5. CASE ~ LRU!Has(c, n)
  <2>1. d = [c EXCEPT !.misses = LRU!Increment(@)]
    BY <1>5 DEF get, LRU!get, n
  <2> HIDE DEF d
  <2>2. d = [capacity |-> c.capacity, entries |-> c.entries, hits |-> c.hits,
             misses |-> LRU!Increment(c.misses), evictions |-> c.evictions]
    BY <1>2, <2>1
  <2>3. d \in CachesOf({c.capacity}) /\ d.capacity = c.capacity /\ d.entries = c.entries
    BY <1>2, <1>3, <2>2 DEF CachesOf
  <2> QED
    BY <2>3 DEF Kept, d
<1> QED
  BY <1>4, <1>5

LEMMA RemoveIs ==
  ASSUME NEW caps \in SUBSET Nat, NEW c \in CachesOf(caps), NEW key \in Strings
  PROVE  LET d == remove(c, key)
         IN  d \in CachesOf({c.capacity}) /\ d.capacity = c.capacity /\ Kept(c, d)
<1> DEFINE d == remove(c, key)
           n == Number[key]
           s == LRU!Others(c, n)
<1>1. n \in Numbers
  BY NumberIs
<1>2. /\ c = [capacity |-> c.capacity, entries |-> c.entries, hits |-> c.hits,
              misses |-> c.misses, evictions |-> c.evictions]
      /\ Len(c.entries) \in Nat /\ Len(c.entries) <= c.capacity /\ c.capacity \in Nat
      /\ c.hits \in Counter /\ c.misses \in Counter /\ c.evictions \in Counter
  BY CacheFields
<1>3. d = [c EXCEPT !.entries = s]
  BY DEF remove, LRU!remove
<1> HIDE DEF n
<1>4. /\ s \in Seq(EntryType) /\ UniqueKeys(s)
      /\ Len(s) = IF LRU!Has(c, n) THEN Len(c.entries) - 1 ELSE Len(c.entries)
      /\ \A i \in DOMAIN s : s[i].key # n /\ \E j \in DOMAIN c.entries : s[i] = c.entries[j]
  BY <1>1, OthersIs
<1> HIDE DEF d, s
<1>5. d = [capacity |-> c.capacity, entries |-> s, hits |-> c.hits,
           misses |-> c.misses, evictions |-> c.evictions]
  BY <1>2, <1>3
<1>6. Len(s) <= c.capacity
  BY <1>2, <1>4
<1>7. d \in CachesOf({c.capacity}) /\ d.capacity = c.capacity /\ d.entries = s
  BY <1>2, <1>4, <1>5, <1>6 DEF CachesOf
<1> QED
  BY <1>4, <1>7 DEF Kept, d

LEMMA ClearIs ==
  ASSUME NEW caps \in SUBSET Nat, NEW c \in CachesOf(caps)
  PROVE  LET d == clear(c)
         IN  d \in CachesOf({c.capacity}) /\ d.capacity = c.capacity /\ d.entries = <<>>
<1>1. c.capacity \in Nat
  BY CacheFields
<1>2. clear(c) = CacheOf(c.capacity)
  BY DEF clear, LRU!clear, CacheOf
<1>3. CacheOf(c.capacity) \in CachesOf({c.capacity}) /\ CacheOf(c.capacity).entries = <<>>
  BY <1>1, NewIs
<1> QED
  BY <1>2, <1>3 DEF CachesOf

-----------------------------------------------------------------------------
(* The registry.                                                           *)

(* Every string in the registry stands for the number that it is kept at.  *)
Faithful(registry) ==
  registry \in RegistryType /\ \A n \in DOMAIN registry : Number[registry[n]] = n

(* The numbers in the cache are in the registry.                           *)
Known(c, registry) ==
  \A i \in DOMAIN c.entries : {c.entries[i].key, c.entries[i].value} \subseteq DOMAIN registry

LEMMA EmptyRegistry == Faithful(NoStrings)
<1>1. NoStrings \in [{} -> Strings] /\ DOMAIN NoStrings = {}
  BY DEF NoStrings
<1> QED
  BY <1>1 DEF Faithful, RegistryType

LEMMA RegisterIs ==
  ASSUME NEW registry, Faithful(registry), NEW str \in Strings
  PROVE  /\ Faithful(Register(registry, str))
         /\ DOMAIN Register(registry, str) = DOMAIN registry \cup {Number[str]}
<1> DEFINE r == Register(registry, str)
           D == DOMAIN registry \cup {Number[str]}
<1>1. PICK known \in SUBSET Numbers : registry \in [known -> Strings]
  BY DEF Faithful, RegistryType
<1>2. Number[str] \in Numbers
  BY NumberIs
<1>3. r = [n \in D |-> IF n = Number[str] THEN str ELSE registry[n]]
  BY DEF Register
<1>4. D \in SUBSET Numbers
  BY <1>1, <1>2
<1>5. \A n \in D : n # Number[str] => n \in known /\ registry[n] \in Strings /\ Number[registry[n]] = n
  BY <1>1 DEF Faithful
<1> HIDE DEF r, D
<1>6. r \in [D -> Strings] /\ \A n \in D : Number[r[n]] = n
  BY <1>3, <1>5
<1>7. Faithful(r)
  BY <1>4, <1>6 DEF Faithful, RegistryType
<1> QED
  BY <1>6, <1>7 DEF r, D

(* What the registry knows can be read.                                    *)
LEMMA LegibleIs ==
  ASSUME NEW c, NEW registry, Faithful(registry), Known(c, registry)
  PROVE  Legible(c, registry)
<1> SUFFICES ASSUME NEW i \in DOMAIN c.entries
             PROVE  LET entry == c.entries[i]
                        shown == Display(c, registry)[i]
                    IN  /\ {entry.key, entry.value} \subseteq DOMAIN registry
                        /\ Number[shown.key] = entry.key /\ Number[shown.value] = entry.value
  BY DEF Legible
<1> DEFINE entry == c.entries[i]
           shown == Display(c, registry)[i]
<1>1. entry.key \in DOMAIN registry /\ entry.value \in DOMAIN registry
  BY DEF Known
<1>2. shown = [key   |-> StringOf(registry, entry.key), value |-> StringOf(registry, entry.value)]
  BY DEF Display
<1> HIDE DEF entry, shown
<1>3. shown.key = registry[entry.key] /\ shown.value = registry[entry.value]
  BY <1>1, <1>2 DEF StringOf
<1>4. Number[shown.key] = entry.key /\ Number[shown.value] = entry.value
  BY <1>1, <1>3 DEF Faithful
<1> QED
  BY <1>1, <1>4 DEF entry, shown

LEMMA KeptKnown ==
  ASSUME NEW c, NEW d, Kept(c, d), NEW old, NEW new, Known(c, old), DOMAIN old \subseteq DOMAIN new
  PROVE  Known(d, new)
  BY DEF Kept, Known

LEMMA KeptButKnown ==
  ASSUME NEW c, NEW d, NEW n, NEW v, KeptBut(c, d, n, v), NEW old, NEW new, Known(c, old),
         DOMAIN old \subseteq DOMAIN new, n \in DOMAIN new, v \in DOMAIN new
  PROVE  Known(d, new)
<1> SUFFICES ASSUME NEW i \in DOMAIN d.entries
             PROVE  {d.entries[i].key, d.entries[i].value} \subseteq DOMAIN new
  BY DEF Known
<1>1. CASE d.entries[i] = [key |-> n, value |-> v]
  BY <1>1
<1>2. CASE \E j \in DOMAIN c.entries : d.entries[i] = c.entries[j]
  BY <1>2 DEF Known
<1> QED
  BY <1>1, <1>2 DEF KeptBut

LEMMA EmptyKnown ==
  ASSUME NEW c, c.entries = <<>>, NEW registry
  PROVE  Known(c, registry)
<1>1. DOMAIN c.entries = {}
  OBVIOUS
<1> QED
  BY <1>1 DEF Known

-----------------------------------------------------------------------------
(* The handlers.                                                           *)

(* The capacities that the server gives to a cache.                        *)
PositiveInts == 1 .. INT_MAX

LEMMA PositiveIntsAre ==
  /\ PositiveInts \subseteq Nat \ {0} /\ DefaultCapacity \in PositiveInts
  /\ \A cap \in Int : ResetCapacity(cap) \in PositiveInts
  /\ \A cap \in PositiveInts : ResetCapacity(cap) = cap
  /\ \A cap \in Int : ResetCapacity(cap) \in {cap, DefaultCapacity}
<1>1. INT_MAX \in Nat /\ INT_MAX >= DefaultCapacity /\ DefaultCapacity \in Nat \ {0}
  BY SMT DEF INT_MAX, DefaultCapacity
<1> QED
  BY <1>1 DEF PositiveInts, ResetCapacity

(* What the server may be between two operations.                          *)
Servers ==
  {s \in [cache : CachesOf(PositiveInts), registry : RegistryType] :
     Faithful(s.registry) /\ Known(s.cache, s.registry)}

LEMMA ServerIs ==
  ASSUME NEW s \in Servers
  PROVE  /\ s = [cache |-> s.cache, registry |-> s.registry]
         /\ s.cache \in CachesOf(Nat \ {0}) /\ s.cache.capacity \in Nat \ {0}
         /\ s.cache.capacity \in PositiveInts
         /\ s.registry \in RegistryType
         /\ Faithful(s.registry) /\ Known(s.cache, s.registry)
<1>1. s.cache \in CachesOf(PositiveInts) /\ PositiveInts \subseteq Nat \ {0}
  BY PositiveIntsAre DEF Servers
<1>2. s.cache \in CachesOf(Nat \ {0}) /\ s.cache.capacity \in PositiveInts
  BY <1>1 DEF CachesOf
<1> QED
  BY <1>1, <1>2 DEF Servers

LEMMA IsServer ==
  ASSUME NEW cap \in PositiveInts, NEW c \in CachesOf({cap}), NEW r, Faithful(r), Known(c, r)
  PROVE  [cache |-> c, registry |-> r] \in Servers
<1>1. c \in CachesOf(PositiveInts)
  BY DEF CachesOf
<1>2. r \in RegistryType
  BY DEF Faithful
<1> QED
  BY <1>1, <1>2 DEF Servers

(* The registries that an operation may leave.                             *)
LEMMA RegisterTwo ==
  ASSUME NEW registry, Faithful(registry), NEW a \in Strings, NEW b \in Strings
  PROVE  LET r == Register(Register(registry, a), b)
         IN  Faithful(r) /\ DOMAIN r = DOMAIN registry \cup {Number[a], Number[b]}
<1> DEFINE q == Register(registry, a)
           r == Register(q, b)
<1>1. Faithful(q) /\ DOMAIN q = DOMAIN registry \cup {Number[a]}
  BY RegisterIs
<1> HIDE DEF q
<1>2. Faithful(r) /\ DOMAIN r = DOMAIN q \cup {Number[b]}
  BY <1>1, RegisterIs
<1> HIDE DEF r
<1>3. DOMAIN r = DOMAIN registry \cup {Number[a], Number[b]}
  BY <1>1, <1>2
<1> QED
  BY <1>2, <1>3 DEF q, r

(* However the arguments of put are ordered (web_server.cpp:138, 193).     *)
LEMMA ApplyIs ==
  ASSUME NEW s \in Servers, NEW o \in Token, NEW t \in Apply(s, o)
  PROVE  t \in Servers
<1> DEFINE c == s.cache
           old == s.registry
<1>1. /\ c \in CachesOf(Nat \ {0}) /\ c.capacity \in PositiveInts /\ Nat \ {0} \in SUBSET Nat
      /\ Faithful(old) /\ Known(c, old)
  BY ServerIs
<1> HIDE DEF c, old
<1>2. CASE o.op = "put"
  <2>1. o.key \in Strings /\ o.value \in Strings
    BY <1>2 DEF Token, Operation
  <2> DEFINE d == put(c, o.key, o.value)
  <2>2. PICK r \in {Register(Register(old, o.key), o.value), Register(Register(old, o.value), o.key)} :
          t = [cache |-> d, registry |-> r]
    BY <1>2 DEF Apply, c, old
  <2>3. Faithful(r) /\ DOMAIN r = DOMAIN old \cup {Number[o.key], Number[o.value]}
    <3>1. CASE r = Register(Register(old, o.key), o.value)
      BY <1>1, <2>1, <3>1, RegisterTwo
    <3>2. CASE r = Register(Register(old, o.value), o.key)
      <4>1. Faithful(r) /\ DOMAIN r = DOMAIN old \cup {Number[o.value], Number[o.key]}
        BY <1>1, <2>1, <3>2, RegisterTwo
      <4> QED
        BY <4>1
    <3> QED
      BY <2>2, <3>1, <3>2
  <2>4. d \in CachesOf({c.capacity}) /\ KeptBut(c, d, Number[o.key], Number[o.value])
    BY <1>1, <2>1, PutIs
  <2> HIDE DEF d
  <2>5. Known(d, r)
    BY <1>1, <2>3, <2>4, KeptButKnown
  <2> QED
    BY <1>1, <2>2, <2>3, <2>4, <2>5, IsServer
<1>3. CASE o.op \in {"get", "remove"}
  <2>1. o.key \in Strings
    BY <1>3 DEF Token, Operation
  <2> DEFINE r == Register(old, o.key)
  <2>2. PICK d : t = [cache |-> d, registry |-> r] /\ (d = get(c, o.key) \/ d = remove(c, o.key))
    BY <1>3 DEF Apply, c, old
  <2>3. Faithful(r) /\ DOMAIN r = DOMAIN old \cup {Number[o.key]}
    BY <1>1, <2>1, RegisterIs
  <2> HIDE DEF r
  <2>4. d \in CachesOf({c.capacity}) /\ Kept(c, d)
    BY <1>1, <2>1, <2>2, GetIs, RemoveIs
  <2>5. Known(d, r)
    BY <1>1, <2>3, <2>4, KeptKnown
  <2> QED
    BY <1>1, <2>2, <2>3, <2>4, <2>5, IsServer
<1>4. CASE o.op = "none"
  BY <1>4 DEF Apply
<1> QED
  BY <1>2, <1>3, <1>4 DEF Token, Operation

(* Only a reset changes the capacity.                                      *)
LEMMA ApplyCapacity ==
  ASSUME NEW s \in Servers, NEW o \in Token, NEW t \in Apply(s, o)
  PROVE  t.cache.capacity = s.cache.capacity
<1> DEFINE c == s.cache
<1>1. c \in CachesOf(Nat \ {0}) /\ Nat \ {0} \in SUBSET Nat
  BY ServerIs
<1> HIDE DEF c
<1>2. CASE o.op = "put"
  <2>1. o.key \in Strings /\ o.value \in Strings
    BY <1>2 DEF Token, Operation
  <2>2. t.cache = put(c, o.key, o.value)
    BY <1>2 DEF Apply, c
  <2>3. put(c, o.key, o.value).capacity = c.capacity
    BY <1>1, <2>1, PutIs
  <2> QED
    BY <2>2, <2>3 DEF c
<1>3. CASE o.op \in {"get", "remove"}
  <2>1. o.key \in Strings
    BY <1>3 DEF Token, Operation
  <2>2. t.cache = get(c, o.key) \/ t.cache = remove(c, o.key)
    BY <1>3 DEF Apply, c
  <2>3. get(c, o.key).capacity = c.capacity /\ remove(c, o.key).capacity = c.capacity
    BY <1>1, <2>1, GetIs, RemoveIs
  <2> QED
    BY <2>2, <2>3 DEF c
<1>4. CASE o.op = "none"
  BY <1>4 DEF Apply
<1> QED
  BY <1>2, <1>3, <1>4 DEF Token, Operation

(* The runs of a batch after its first n operations.                       *)
After(s, ops, n, before) ==
  IF n = 0 THEN {<<s>>} ELSE UNION {{Append(r, t) : t \in Apply(r[n], ops[n])} : r \in before}

(* They are what the recursive function of Runs says.                      *)
LEMMA RunsDefined ==
  ASSUME NEW s, NEW ops, Len(ops) \in Nat
  PROVE  \E run : /\ run = [n \in 0 .. Len(ops) |-> After(s, ops, n, run[n - 1])]
                  /\ Runs(s, ops) = run[Len(ops)]
<1> DEFINE Good(g, m) == g = [n \in 0 .. m |-> After(s, ops, n, g[n - 1])]
           P == {m \in Nat : \E g : Good(g, m)}
<1>1. 0 \in P
  <2> DEFINE g == [n \in 0 .. 0 |-> {<<s>>}]
  <2>1. g = [n \in 0 .. 0 |-> After(s, ops, n, g[n - 1])]
    BY DEF After
  <2> QED
    BY <2>1
<1>2. ASSUME NEW m \in Nat, m \in P
      PROVE  m + 1 \in P
  <2>1. PICK g : Good(g, m)
    BY <1>2
  <2> DEFINE h == [n \in 0 .. m + 1 |-> IF n = m + 1 THEN After(s, ops, m + 1, g[m]) ELSE g[n]]
  <2>2. ASSUME NEW n \in 0 .. m + 1
        PROVE  h[n] = After(s, ops, n, h[n - 1])
    <3>1. CASE n = m + 1
      <4>1. n - 1 = m /\ m \in 0 .. m + 1 /\ m # m + 1
        BY <3>1
      <4>2. h[m] = g[m] /\ h[n] = After(s, ops, m + 1, g[m])
        BY <3>1, <4>1
      <4> QED
        BY <3>1, <4>1, <4>2
    <3>2. CASE n # m + 1 /\ n # 0
      <4>1. n \in 0 .. m /\ n - 1 \in 0 .. m + 1 /\ n - 1 # m + 1
        BY <3>2
      <4>2. h[n] = g[n] /\ h[n - 1] = g[n - 1]
        BY <3>2, <4>1
      <4>3. g[n] = After(s, ops, n, g[n - 1])
        BY <2>1, <4>1
      <4> QED
        BY <4>2, <4>3
    <3>3. CASE n = 0
      <4>1. 0 \in 0 .. m /\ 0 # m + 1 /\ 0 \in 0 .. m + 1
        OBVIOUS
      <4>2. h[0] = g[0]
        BY <4>1
      <4>3. g[0] = After(s, ops, 0, g[0 - 1])
        BY <2>1, <4>1
      <4>4. \A x, y : After(s, ops, 0, x) = After(s, ops, 0, y)
        BY DEF After
      <4> HIDE DEF h
      <4> QED
        BY <3>3, <4>2, <4>3, <4>4
    <3> QED
      BY <3>1, <3>2, <3>3
  <2>3. h = [n \in 0 .. m + 1 |-> h[n]]
    OBVIOUS
  <2> HIDE DEF h
  <2>4. Good(h, m + 1)
    BY <2>2, <2>3
  <2> HIDE DEF Good
  <2> QED
    BY <2>4
<1> HIDE DEF P
<1>3. \A m \in Nat : m \in P
  BY <1>1, <1>2, SetInduction
<1>4. \E g : Good(g, Len(ops))
  BY <1>3 DEF P
<1> DEFINE run == CHOOSE g : Good(g, Len(ops))
<1>5. Good(run, Len(ops))
  <2> HIDE DEF Good
  <2> QED
    BY <1>4
<1>6. Runs(s, ops) = run[Len(ops)]
  BY Zenon DEF Runs, After
<1> HIDE DEF run
<1> QED
  BY <1>5, <1>6

(* r is a run through ops from s.                                          *)
IsRun(r, s, ops) ==
  /\ r \in Seq(Servers) /\ Len(r) = Len(ops) + 1 /\ r[1] = s
  /\ \A k \in 1 .. Len(ops) : r[k + 1] \in Apply(r[k], ops[k])

LEMMA RunsIs ==
  ASSUME NEW s \in Servers, NEW ops \in Seq(Token), NEW r \in Runs(s, ops)
  PROVE  IsRun(r, s, ops)
<1>1. Len(ops) \in Nat /\ \A n \in 1 .. Len(ops) : ops[n] \in Token
  BY LenProperties, ElementOfSeq
<1>2. PICK run : /\ run = [n \in 0 .. Len(ops) |-> After(s, ops, n, run[n - 1])]
                 /\ Runs(s, ops) = run[Len(ops)]
  BY <1>1, RunsDefined
<1> DEFINE Fine(q, n) ==
             /\ q \in Seq(Servers) /\ Len(q) = n + 1 /\ q[1] = s
             /\ \A k \in 1 .. n : q[k + 1] \in Apply(q[k], ops[k])
           P == {n \in Nat : n <= Len(ops) => \A q \in run[n] : Fine(q, n)}
<1>3. 0 \in P
  <2>1. run[0] = {<<s>>}
    BY <1>1, <1>2 DEF After
  <2>2. <<s>> \in Seq(Servers) /\ Len(<<s>>) = 1 /\ <<s>>[1] = s
    OBVIOUS
  <2>3. ASSUME NEW q \in run[0]
        PROVE  Fine(q, 0)
    <3>1. q = <<s>>
      BY <2>1
    <3>2. q \in Seq(Servers) /\ Len(q) = 0 + 1 /\ q[1] = s
      BY <2>2, <3>1
    <3> QED
      BY <3>2
  <2> QED
    BY <2>3
<1>4. ASSUME NEW n \in Nat, n \in P
      PROVE  n + 1 \in P
  <2> SUFFICES ASSUME n + 1 <= Len(ops), NEW q \in run[n + 1]
               PROVE  Fine(q, n + 1)
    OBVIOUS
  <2>1. /\ n + 1 \in 0 .. Len(ops) /\ n + 1 \in 1 .. Len(ops) /\ n + 1 # 0
        /\ n + 1 - 1 = n /\ n <= Len(ops)
    BY <1>1
  <2>2. run[n + 1] = After(s, ops, n + 1, run[n])
    BY <1>2, <2>1
  <2>a. PICK p \in run[n] : \E t \in Apply(p[n + 1], ops[n + 1]) : q = Append(p, t)
    BY <2>1, <2>2 DEF After
  <2>3. PICK t \in Apply(p[n + 1], ops[n + 1]) : q = Append(p, t)
    BY <2>a
  <2>4. Fine(p, n)
    BY <1>4, <2>1, <2>3
  <2>5. p[n + 1] \in Servers
    BY <2>4, ElementOfSeq
  <2>6. t \in Servers
    BY <1>1, <2>1, <2>3, <2>5, ApplyIs
  <2>7. /\ q \in Seq(Servers) /\ Len(q) = n + 2 /\ q[n + 2] = t
        /\ \A k \in 1 .. n + 1 : q[k] = p[k]
    BY <2>3, <2>4, <2>6, AppendProperties
  <2>8. ASSUME NEW k \in 1 .. n + 1
        PROVE  q[k + 1] \in Apply(q[k], ops[k])
    <3>1. CASE k = n + 1
      <4>1. q[k + 1] = t /\ q[k] = p[n + 1] /\ ops[k] = ops[n + 1]
        BY <2>7, <3>1
      <4> QED
        BY <2>3, <4>1
    <3>2. CASE k # n + 1
      <4>1. k \in 1 .. n /\ k + 1 \in 1 .. n + 1
        BY <3>2
      <4>2. q[k + 1] = p[k + 1] /\ q[k] = p[k]
        BY <2>7, <4>1
      <4> QED
        BY <2>4, <4>1, <4>2
    <3> QED
      BY <3>1, <3>2
  <2>9. q[1] = s
    BY <2>4, <2>7
  <2> QED
    BY <2>7, <2>8, <2>9
<1> HIDE DEF P
<1>5. \A n \in Nat : n \in P
  BY <1>3, <1>4, SetInduction
<1>6. \A q \in run[Len(ops)] : Fine(q, Len(ops))
  BY <1>1, <1>5 DEF P
<1>7. Fine(r, Len(ops))
  BY <1>2, <1>6
<1> QED
  BY <1>7 DEF IsRun

LEMMA RunCapacity ==
  ASSUME NEW s \in Servers, NEW ops \in Seq(Token), NEW r, IsRun(r, s, ops), NEW k \in 1 .. Len(ops) + 1
  PROVE  r[k] \in Servers /\ r[k].cache.capacity = s.cache.capacity
<1> DEFINE n == Len(ops)
           P == {i \in Nat : i <= n => r[i + 1].cache.capacity = s.cache.capacity}
<1>1. n \in Nat /\ r \in Seq(Servers) /\ Len(r) = n + 1 /\ r[1] = s
      /\ \A i \in 1 .. n : r[i + 1] \in Apply(r[i], ops[i]) /\ ops[i] \in Token
  BY LenProperties, ElementOfSeq DEF IsRun
<1>2. \A i \in 1 .. n + 1 : r[i] \in Servers
  BY <1>1, ElementOfSeq
<1>3. 0 \in P
  BY <1>1
<1>4. ASSUME NEW i \in Nat, i \in P PROVE i + 1 \in P
  <2> SUFFICES ASSUME i + 1 <= n PROVE r[i + 1 + 1].cache.capacity = s.cache.capacity
    OBVIOUS
  <2>1. i + 1 \in 1 .. n /\ i + 1 \in 1 .. n + 1
    BY <1>1
  <2>2. r[i + 1].cache.capacity = s.cache.capacity
    BY <1>1, <1>4
  <2> QED
    BY <1>1, <1>2, <2>1, <2>2, ApplyCapacity
<1> HIDE DEF P
<1>5. \A i \in Nat : i \in P
  BY <1>3, <1>4, SetInduction
<1>6. k - 1 \in Nat /\ k - 1 <= n /\ k - 1 + 1 = k
  BY <1>1
<1> QED
  BY <1>2, <1>5, <1>6 DEF P

LEMMA AsOperationIs ==
  ASSUME NEW request \in Request, request.api \in {"put", "get", "remove"}, ~ HasEmpty(request)
  PROVE  AsOperation(request) \in Operation
<1>1. request.key \in Strings
  BY DEF Request, HasEmpty
<1>2. request.api = "put" => request.value \in Strings
  BY DEF Request, HasEmpty
<1> QED
  BY <1>1, <1>2 DEF AsOperation, Operation

(* Every handler leaves such a server (web_server.cpp:115-211).            *)
LEMMA HandledIs ==
  ASSUME NEW s \in Servers, NEW request \in Request, NEW result \in Handled(s, request)
  PROVE  result[1] \in Servers
<1>1. CASE request.api = "state"
  BY <1>1 DEF Handled
<1>2. CASE request.api \in {"put", "get", "remove"}
  <2>1. CASE HasEmpty(request)
    BY <1>2, <2>1 DEF Handled
  <2>2. CASE ~ HasEmpty(request)
    <3> DEFINE o == AsOperation(request)
    <3>1. o \in Operation
      BY <1>2, <2>2, AsOperationIs
    <3> HIDE DEF o
    <3>2. PICK t \in Apply(s, o) : result = <<t, Answer(<<json_state(t)>>, <<Effect(s, o)>>)>>
      BY <1>2, <2>2 DEF Handled, o
    <3>3. result[1] = t
      BY <3>2
    <3> QED
      BY <3>1, <3>2, <3>3, ApplyIs DEF Token
  <2> QED
    BY <2>1, <2>2
<1>3. CASE request.api = "reset"
  <2> DEFINE cap == ResetCapacity(request.capacity)
  <2>1. request.capacity \in Int
    BY <1>3 DEF Request
  <2>2. cap \in PositiveInts /\ cap \in Nat \ {0}
    BY <2>1, PositiveIntsAre
  <2>3. result[1] = [s EXCEPT !.cache = CacheOf(cap)]
    BY <1>3 DEF Handled
  <2> HIDE DEF cap
  <2>4. CacheOf(cap) \in CachesOf({cap}) /\ CacheOf(cap).entries = <<>>
    BY <2>2, NewIs
  <2>5. Known(CacheOf(cap), s.registry) /\ Faithful(s.registry)
    BY <2>4, EmptyKnown, ServerIs
  <2>6. result[1] = [cache |-> CacheOf(cap), registry |-> s.registry]
    BY <2>3, ServerIs
  <2> QED
    BY <2>2, <2>4, <2>5, <2>6, IsServer
<1>4. CASE request.api = "batch"
  <2>1. request.ops \in Seq(Token)
    BY <1>4 DEF Request
  <2>a. PICK r \in Runs(s, request.ops) : \E answer : result = <<r[Len(r)], answer>>
    BY <1>4 DEF Handled
  <2>2. result[1] = r[Len(r)]
    BY <2>a
  <2>3. r \in Seq(Servers) /\ Len(r) = Len(request.ops) + 1
    BY <2>1, <2>a, RunsIs DEF IsRun
  <2>4. Len(request.ops) \in Nat
    BY <2>1, LenProperties
  <2>5. r[Len(r)] \in Servers
    BY <2>3, <2>4, ElementOfSeq
  <2> QED
    BY <2>2, <2>5
<1> QED
  BY <1>1, <1>2, <1>3, <1>4 DEF Request

(* What is sent back.                                                      *)
LEMMA StringOfIs ==
  ASSUME NEW registry, Faithful(registry), NEW n \in Numbers
  PROVE  StringOf(registry, n) \in Strings /\ Number[StringOf(registry, n)] = n
<1>1. CASE n \in DOMAIN registry
  <2>1. registry[n] \in Strings
    BY <1>1 DEF Faithful, RegistryType
  <2> QED
    BY <1>1, <2>1 DEF StringOf, Faithful
<1>2. CASE n \notin DOMAIN registry
  BY <1>2, StringsAssumption DEF StringOf
<1> QED
  BY <1>1, <1>2

LEMMA StateIs ==
  ASSUME NEW s \in Servers
  PROVE  /\ json_state(s) \in StateType
         /\ json_state(s).capacity = s.cache.capacity /\ json_state(s).hits = s.cache.hits
         /\ Len(json_state(s).nodes) = Len(s.cache.entries)
         /\ \A i \in 1 .. Len(s.cache.entries) :
              json_state(s).nodes[i].key = StringOf(s.registry, s.cache.entries[i].key)
<1> DEFINE e == s.cache.entries
           r == s.registry
           nodes == Display(s.cache, r)
           Shown(i) == [key |-> StringOf(r, e[i].key), value |-> StringOf(r, e[i].value)]
<1>1. s.cache \in CachesOf(Nat \ {0}) /\ s.cache.capacity \in Nat /\ Faithful(r)
  BY ServerIs
<1>2. e \in Seq(EntryType) /\ DOMAIN e = 1 .. Len(e) /\ Len(e) \in Nat /\ s.cache.hits \in Counter
  BY <1>1, CacheFields
<1>3. nodes = [i \in 1 .. Len(e) |-> Shown(i)]
  BY <1>2 DEF Display
<1> HIDE DEF r, nodes
<1>4. ASSUME NEW i \in 1 .. Len(e)
      PROVE  Shown(i) \in [key : Strings, value : Strings]
  <2>1. e[i] \in EntryType
    BY <1>2, ElementOfSeq
  <2>2. e[i].key \in Numbers /\ e[i].value \in Numbers
    BY <2>1 DEF EntryType
  <2>3. StringOf(r, e[i].key) \in Strings /\ StringOf(r, e[i].value) \in Strings
    BY <1>1, <2>2, StringOfIs
  <2> QED
    BY <2>3
<1>5. \A i \in 1 .. Len(e) : nodes[i].key = StringOf(r, e[i].key)
  BY <1>3
<1>6. nodes \in Seq([key : Strings, value : Strings]) /\ Len(nodes) = Len(e)
  <2>1. nodes = [i \in 1 .. Len(e) |-> nodes[i]]
    BY <1>3
  <2>2. \A i \in 1 .. Len(e) : nodes[i] \in [key : Strings, value : Strings]
    BY <1>3, <1>4
  <2> HIDE DEF e
  <2> QED
    BY <1>2, <2>1, <2>2
<1> HIDE DEF Shown, e
<1>7. json_state(s) = [capacity |-> s.cache.capacity, hits |-> s.cache.hits, nodes |-> nodes]
  BY DEF json_state, nodes, r
<1>8. json_state(s) \in StateType
  BY <1>1, <1>2, <1>6, <1>7 DEF StateType
<1> QED
  BY <1>5, <1>6, <1>7, <1>8 DEF e, r

LEMMA EffectIs ==
  ASSUME NEW s, NEW o \in Token
  PROVE  Effect(s, o) \in EffectType
<1>1. o.op \in {"put", "get", "remove", "none"}
  BY DEF Token, Operation
<1> QED
  BY <1>1 DEF Effect, EffectType

LEMMA BatchIs ==
  ASSUME NEW s \in Servers, NEW request, request.api = "batch", request.ops \in Seq(Token),
         NEW result \in Handled(s, request)
  PROVE  LET n == Len(request.ops)
         IN  /\ result[2] \in AnswerType /\ Len(result[2].states) = n
             /\ \E r : /\ IsRun(r, s, request.ops) /\ result[1] = r[n + 1]
                       /\ \A k \in 1 .. n : /\ result[2].states[k] = json_state(r[k + 1])
                                            /\ result[2].effects[k] = Effect(r[k], request.ops[k])
<1> DEFINE ops == request.ops
           n == Len(ops)
<1>1. n \in Nat /\ DOMAIN ops = 1 .. n /\ \A k \in 1 .. n : ops[k] \in Token
  BY LenProperties, ElementOfSeq
<1> DEFINE States(r) == [i \in DOMAIN ops |-> json_state(r[i + 1])]
           Effects(r) == [i \in DOMAIN ops |-> Effect(r[i], ops[i])]
<1>2. PICK r \in Runs(s, ops) : result = <<r[Len(r)], Answer(States(r), Effects(r))>>
  BY DEF Handled
<1>3. IsRun(r, s, ops)
  BY <1>2, RunsIs
<1>4. r \in Seq(Servers) /\ Len(r) = n + 1
  BY <1>3 DEF IsRun
<1>5. /\ result[1] = r[n + 1] /\ result[2] = [states |-> States(r), effects |-> Effects(r)]
  BY <1>2, <1>4 DEF Answer
<1>6. ASSUME NEW k \in 1 .. n
      PROVE  json_state(r[k + 1]) \in StateType /\ Effect(r[k], ops[k]) \in EffectType
  <2>1. k + 1 \in 1 .. Len(r)
    BY <1>1, <1>4
  <2>2. r[k + 1] \in Servers
    BY <1>4, <2>1, ElementOfSeq
  <2> QED
    BY <1>1, <2>2, StateIs, EffectIs
<1>7. States(r) \in Seq(StateType) /\ Len(States(r)) = n /\ Effects(r) \in Seq(EffectType)
  BY <1>1, <1>6
<1>8. \A k \in 1 .. n : States(r)[k] = json_state(r[k + 1]) /\ Effects(r)[k] = Effect(r[k], ops[k])
  BY <1>1
<1> HIDE DEF States, Effects
<1>9. result[2].states = States(r) /\ result[2].effects = Effects(r) /\ result[2] \in AnswerType
  BY <1>5, <1>7 DEF AnswerType
<1> HIDE DEF n, ops
<1>10. Len(result[2].states) = n
  BY <1>7, <1>9
<1> QED
  BY <1>3, <1>5, <1>8, <1>9, <1>10 DEF n, ops

(* Every other request is answered with one state, that of the server.     *)
LEMMA OneStateIs ==
  ASSUME NEW s \in Servers, NEW request \in Request, request.api # "batch", NEW result \in Handled(s, request)
  PROVE  result[2] \in AnswerType /\ Len(result[2].states) = 1 /\ result[2].states[1] = json_state(result[1])
<1>1. result[1] \in Servers
  BY HandledIs
<1>2. json_state(result[1]) \in StateType
  BY <1>1, StateIs
<1>3. \E e \in Seq(EffectType) : result[2] = Answer(<<json_state(result[1])>>, e)
  <2>1. CASE request.api = "state" \/ (request.api \in {"put", "get", "remove"} /\ HasEmpty(request))
    <3>1. result = <<s, Answer(<<json_state(s)>>, <<>>)>>
      BY <2>1 DEF Handled
    <3>2. result[1] = s /\ result[2] = Answer(<<json_state(s)>>, <<>>)
      BY <3>1
    <3> QED
      BY <3>2, EmptySeq
  <2>2. CASE request.api \in {"put", "get", "remove"} /\ ~ HasEmpty(request)
    <3> DEFINE o == AsOperation(request)
    <3>1. o \in Operation
      BY <2>2, AsOperationIs
    <3>2. PICK t \in Apply(s, o) : result = <<t, Answer(<<json_state(t)>>, <<Effect(s, o)>>)>>
      BY <2>2 DEF Handled
    <3>3. <<Effect(s, o)>> \in Seq(EffectType)
      BY <3>1, EffectIs DEF Token
    <3> HIDE DEF o
    <3> QED
      BY <3>2, <3>3
  <2>3. CASE request.api = "reset"
    <3> DEFINE t == [s EXCEPT !.cache = CacheOf(ResetCapacity(request.capacity))]
    <3>1. result = <<t, Answer(<<json_state(t)>>, <<>>)>>
      BY <2>3 DEF Handled
    <3> HIDE DEF t
    <3>2. result[1] = t /\ result[2] = Answer(<<json_state(t)>>, <<>>)
      BY <3>1
    <3> QED
      BY <3>2, EmptySeq
  <2> QED
    BY <2>1, <2>2, <2>3 DEF Request
<1> QED
  BY <1>2, <1>3 DEF Answer, AnswerType

LEMMA HandledCapacity ==
  ASSUME NEW s \in Servers, NEW request \in Request, NEW result \in Handled(s, request)
  PROVE  /\ request.api # "reset" => result[1].cache.capacity = s.cache.capacity
         /\ request.api = "reset" => result[1].cache.capacity = ResetCapacity(request.capacity)
<1>1. request.api \in {"state", "put", "get", "remove", "reset", "batch"}
  BY DEF Request
<1>2. CASE request.api = "state"
  BY <1>2 DEF Handled
<1>3. CASE request.api \in {"put", "get", "remove"}
  <2>1. CASE HasEmpty(request)
    BY <1>3, <2>1 DEF Handled
  <2>2. CASE ~ HasEmpty(request)
    <3> DEFINE o == AsOperation(request)
    <3>1. o \in Operation
      BY <1>3, <2>2, AsOperationIs
    <3>2. PICK t \in Apply(s, o) : result = <<t, Answer(<<json_state(t)>>, <<Effect(s, o)>>)>>
      BY <1>3, <2>2 DEF Handled
    <3>3. result[1] = t
      BY <3>2
    <3> QED
      BY <1>3, <3>1, <3>3, ApplyCapacity DEF Token
  <2> QED
    BY <2>1, <2>2
<1>4. CASE request.api = "reset"
  <2> DEFINE cap == ResetCapacity(request.capacity)
             c == CacheOf(cap)
  <2>1. result[1] = [s EXCEPT !.cache = c]
    BY <1>4 DEF Handled
  <2>2. c.capacity = cap
    BY DEF CacheOf, LRU!NewLru
  <2> HIDE DEF c
  <2>3. result[1].cache = c
    BY <2>1, ServerIs
  <2> QED
    BY <1>4, <2>2, <2>3
<1>5. CASE request.api = "batch"
  <2>1. request.ops \in Seq(Token)
    BY <1>5 DEF Request
  <2> DEFINE n == Len(request.ops)
  <2>2. PICK r : IsRun(r, s, request.ops) /\ result[1] = r[n + 1]
    BY <1>5, <2>1, BatchIs
  <2>3. n + 1 \in 1 .. n + 1
    BY <2>1, LenProperties
  <2> QED
    BY <1>5, <2>1, <2>2, <2>3, RunCapacity
<1> QED
  BY <1>1, <1>2, <1>3, <1>4, <1>5
=============================================================================
