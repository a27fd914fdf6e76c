------------------------------ MODULE CliProofs -----------------------------
(***************************************************************************)
(* Proofs about the terminal simulator, for all strings, numberings and    *)
(* capacities.  What is shown for an entry can be typed to reach it,       *)
(* because the registry only grows, keeps for each number a string that    *)
(* stands for it, and knows every number that was ever put.                *)
(***************************************************************************)
EXTENDS Cli, StringCacheProofs

(* The value of every entry is the one that was put last for its key.      *)
AsTyped(c, put_last) ==
  \A i \in DOMAIN c.entries : c.entries[i].value = Number[put_last[c.entries[i].key].value]

Remembered ==
  /\ Faithful(g_string_registry)
  /\ cache # NoCache => Known(cache, g_string_registry) /\ AsTyped(cache, typed)

IInv == TypeOK /\ Remembered

(* At the menu there is a cache.                                           *)
LEMMA CacheIs ==
  ASSUME IInv, cache # NoCache
  PROVE  /\ cache \in CachesOf({cache.capacity} \cap Capacities)
         /\ cache.capacity \in Capacities /\ cache.capacity \in Nat
         /\ {cache.capacity} \cap Capacities \in SUBSET Nat
         /\ Known(cache, g_string_registry) /\ AsTyped(cache, typed)
<1>1. cache \in CachesOf({cache.capacity} \cap Capacities)
  BY DEF IInv, TypeOK
<1>2. cache.capacity \in Capacities
  BY <1>1, CacheFields
<1>3. Capacities \subseteq Nat
  BY CliAssumption
<1> QED
  BY <1>1, <1>2, <1>3 DEF IInv, Remembered

(* A cache with one of the capacities is well typed, and is not none.      *)
LEMMA IsCache ==
  ASSUME NEW cap \in Capacities, NEW d \in CachesOf({cap}), d.capacity = cap
  PROVE  d \in CachesOf({d.capacity} \cap Capacities) /\ d # NoCache
<1>1. {cap} \cap Capacities = {cap} /\ {cap} \subseteq Capacities
  OBVIOUS
<1>2. d \in CachesOf(Capacities)
  BY <1>1 DEF CachesOf
<1> QED
  BY <1>1, <1>2, CliAssumption

(* An operation that only takes entries out or moves them keeps them right.*)
LEMMA KeptAsTyped ==
  ASSUME NEW c, NEW d, Kept(c, d), NEW t, AsTyped(c, t)
  PROVE  AsTyped(d, t)
  BY DEF Kept, AsTyped

LEMMA PutAsTyped ==
  ASSUME NEW key \in Strings, NEW val \in Strings, NEW c, NEW d,
         KeptBut(c, d, Number[key], Number[val]),
         NEW t \in [Numbers -> [key : Line, value : Line]], AsTyped(c, t)
  PROVE  AsTyped(d, [t EXCEPT ![Number[key]] = [key |-> key, value |-> val]])
<1> DEFINE u == [t EXCEPT ![Number[key]] = [key |-> key, value |-> val]]
<1>1. Number[key] \in Numbers
  BY NumberIs
<1>2. /\ u[Number[key]] = [key |-> key, value |-> val]
      /\ \A n : n # Number[key] => u[n] = t[n]
  BY <1>1
<1> HIDE DEF u
<1> SUFFICES ASSUME NEW i \in DOMAIN d.entries
             PROVE  d.entries[i].value = Number[u[d.entries[i].key].value]
  BY DEF AsTyped, u
<1>3. CASE d.entries[i] = [key |-> Number[key], value |-> Number[val]]
  BY <1>2, <1>3
<1>4. CASE d.entries[i].key # Number[key] /\ \E j \in DOMAIN c.entries : d.entries[i] = c.entries[j]
  BY <1>2, <1>4 DEF AsTyped
<1> QED
  BY <1>3, <1>4 DEF KeptBut

-----------------------------------------------------------------------------
LEMMA InitIInv == Init => IInv
<1> SUFFICES ASSUME Init PROVE IInv
  OBVIOUS
<1>1. g_string_registry = NoStrings /\ Faithful(NoStrings)
  BY EmptyRegistry DEF Init
<1>2. typed \in [Numbers -> [key : Line, value : Line]]
  BY DEF Init, Nothing, Line
<1> QED
  BY <1>1, <1>2 DEF Init, IInv, TypeOK, Remembered, Faithful

(* Every action with a new cache keeps the invariant if the registry and   *)
(* the strings typed last go with it.                                      *)
LEMMA CacheStep ==
  ASSUME IInv, eof' = eof, mode' = "menu",
         NEW cap \in Capacities, cache' \in CachesOf({cap}), cache'.capacity = cap,
         Faithful(g_string_registry'), Known(cache', g_string_registry'),
         typed' \in [Numbers -> [key : Line, value : Line]], AsTyped(cache', typed')
  PROVE  IInv'
<1>1. cache' \in CachesOf({cache'.capacity} \cap Capacities) /\ cache' # NoCache
  BY IsCache
<1>2. TypeOK'
  BY <1>1 DEF IInv, TypeOK, Faithful
<1>3. Remembered'
  BY <1>1 DEF Remembered, Faithful, Known, AsTyped
<1> QED
  BY <1>2, <1>3 DEF IInv

LEMMA PutStep ==
  ASSUME IInv, NEW key_str \in Line, NEW val_str \in Line, handle_put(key_str, val_str)
  PROVE  IInv'
<1> DEFINE d == put(cache, key_str, val_str)
           r == Register(g_string_registry, key_str)
           q == Register(r, val_str)
<1>1. /\ key_str \in Strings /\ val_str \in Strings /\ mode = "menu" /\ cache # NoCache
      /\ cache' = d /\ g_string_registry' = q /\ mode' = "menu" /\ eof' = eof
      /\ typed' = [typed EXCEPT ![Number[key_str]] = [key |-> key_str, value |-> val_str]]
  BY DEF handle_put, Chosen, Line, IInv, TypeOK
<1>2. /\ cache \in CachesOf({cache.capacity} \cap Capacities) /\ cache.capacity \in Capacities
      /\ {cache.capacity} \cap Capacities \in SUBSET Nat
      /\ Known(cache, g_string_registry) /\ AsTyped(cache, typed)
  BY <1>1, CacheIs
<1>3. /\ d \in CachesOf({cache.capacity}) /\ d.capacity = cache.capacity
      /\ KeptBut(cache, d, Number[key_str], Number[val_str])
  BY <1>1, <1>2, PutIs
<1>4. Faithful(r) /\ DOMAIN r = DOMAIN g_string_registry \cup {Number[key_str]}
  BY <1>1, RegisterIs DEF IInv, Remembered
<1> HIDE DEF d, r
<1>5. Faithful(q) /\ DOMAIN q = DOMAIN r \cup {Number[val_str]}
  BY <1>1, <1>4, RegisterIs
<1> HIDE DEF q
<1>6. Known(d, q)
  BY <1>2, <1>3, <1>4, <1>5, KeptButKnown
<1>7. typed \in [Numbers -> [key : Line, value : Line]]
  BY DEF IInv, TypeOK
<1>8. AsTyped(d, typed')
  BY <1>1, <1>2, <1>3, <1>7, PutAsTyped
<1>9. typed' \in [Numbers -> [key : Line, value : Line]]
  BY <1>1, <1>7 DEF Line
<1> QED
  BY <1>1, <1>2, <1>3, <1>5, <1>6, <1>8, <1>9, CacheStep

(* handle_get and handle_remove register the key and keep the rest.        *)
LEMMA LookupStep ==
  ASSUME IInv, NEW key_str \in Line, handle_get(key_str) \/ handle_remove(key_str)
  PROVE  IInv'
<1> DEFINE r == Register(g_string_registry, key_str)
<1>1. /\ key_str \in Strings /\ mode = "menu" /\ cache # NoCache
      /\ g_string_registry' = r /\ mode' = "menu" /\ eof' = eof /\ typed' = typed
      /\ cache' = get(cache, key_str) \/ cache' = remove(cache, key_str)
  BY DEF handle_get, handle_remove, NotEmpty, Chosen, Line, IInv, TypeOK
<1>2. /\ cache \in CachesOf({cache.capacity} \cap Capacities) /\ cache.capacity \in Capacities
      /\ {cache.capacity} \cap Capacities \in SUBSET Nat
      /\ Known(cache, g_string_registry) /\ AsTyped(cache, typed)
  BY <1>1, CacheIs
<1>3. cache' \in CachesOf({cache.capacity}) /\ cache'.capacity = cache.capacity /\ Kept(cache, cache')
  BY <1>1, <1>2, GetIs, RemoveIs
<1>4. Faithful(r) /\ DOMAIN r = DOMAIN g_string_registry \cup {Number[key_str]}
  BY <1>1, RegisterIs DEF IInv, Remembered
<1> HIDE DEF r
<1>5. Known(cache', r) /\ AsTyped(cache', typed)
  BY <1>2, <1>3, <1>4, KeptKnown, KeptAsTyped
<1>6. typed \in [Numbers -> [key : Line, value : Line]]
  BY DEF IInv, TypeOK
<1> QED
  BY <1>1, <1>2, <1>3, <1>4, <1>5, <1>6, CacheStep

(* read_capacity and handle_clear leave a cache without entries.           *)
LEMMA EmptyStep ==
  ASSUME IInv, read_capacity \/ handle_clear
  PROVE  IInv'
<1>1. /\ mode' = "menu" /\ eof' = eof /\ typed' = typed
      /\ g_string_registry' = g_string_registry
  BY DEF read_capacity, handle_clear, NotEmpty, Chosen
<1>2. \E cap \in Capacities : cache' \in CachesOf({cap}) /\ cache'.capacity = cap /\ cache'.entries = <<>>
  <2>1. CASE read_capacity
    <3>1. PICK cap \in Capacities : cache' = CacheOf(cap)
      BY <2>1 DEF read_capacity
    <3>2. cap \in Nat
      BY CliAssumption
    <3>3. cache' \in CachesOf({cap}) /\ cache'.entries = <<>>
      BY <3>1, <3>2, NewIs
    <3> QED
      BY <3>3 DEF CachesOf
  <2>2. CASE handle_clear
    <3>1. mode = "menu" /\ cache # NoCache /\ cache' = clear(cache)
      BY <2>2 DEF handle_clear, NotEmpty, Chosen, IInv, TypeOK
    <3>2. /\ cache \in CachesOf({cache.capacity} \cap Capacities) /\ cache.capacity \in Capacities
          /\ {cache.capacity} \cap Capacities \in SUBSET Nat
      BY <3>1, CacheIs
    <3> QED
      BY <3>1, <3>2, ClearIs
  <2> QED
    BY <2>1, <2>2
<1>3. PICK cap \in Capacities : cache' \in CachesOf({cap}) /\ cache'.capacity = cap /\ cache'.entries = <<>>
  BY <1>2
<1>4. Known(cache', g_string_registry) /\ AsTyped(cache', typed)
  <2>1. DOMAIN cache'.entries = {}
    BY <1>3
  <2> QED
    BY <2>1 DEF Known, AsTyped
<1>5. typed \in [Numbers -> [key : Line, value : Line]] /\ Faithful(g_string_registry)
  BY DEF IInv, TypeOK, Remembered
<1> QED
  BY <1>1, <1>3, <1>4, <1>5, CacheStep

LEMMA NextIInv == IInv /\ [Next]_vars => IInv'
<1> SUFFICES ASSUME IInv, [Next]_vars
             PROVE  IInv'
  OBVIOUS
<1>1. ASSUME NEW key_str \in Line, NEW val_str \in Line, handle_put(key_str, val_str)
      PROVE  IInv'
  BY <1>1, PutStep
<1>2. ASSUME NEW key_str \in Line, handle_get(key_str) \/ handle_remove(key_str)
      PROVE  IInv'
  BY <1>2, LookupStep
<1>3. CASE read_capacity \/ handle_clear
  BY <1>3, EmptyStep
<1>4. CASE Reset \/ Exit \/ EndOfInput \/ UNCHANGED vars
  <2>1. cache' = cache /\ g_string_registry' = g_string_registry /\ typed' = typed
    BY <1>4 DEF Reset, Exit, EndOfInput, vars
  <2>2. Remembered'
    BY <2>1 DEF IInv, Remembered, Faithful, Known, AsTyped
  <2>3. /\ mode' \in {"capacity", "menu", "exited"} /\ eof' \in BOOLEAN
        /\ cache = NoCache => mode' = "capacity"
    BY <1>4 DEF Reset, Exit, EndOfInput, Chosen, vars, IInv, TypeOK
  <2>4. TypeOK'
    BY <2>1, <2>3 DEF IInv, TypeOK
  <2> QED
    BY <2>2, <2>4 DEF IInv
<1> QED
  BY <1>1, <1>2, <1>3, <1>4 DEF Next

(* Variables keep their types; there is no menu without a cache.           *)
THEOREM TypeCorrect == Spec => []TypeOK
<1>1. IInv => TypeOK
  BY DEF IInv
<1> QED
  BY <1>1, InitIInv, NextIInv, PTL DEF Spec

(* Whatever is typed, looked up, evicted and reset, what is shown for an   *)
(* entry is a string that was typed, and typing it reaches the entry       *)
(* (main.cpp:27-47, 116-215).                                              *)
THEOREM ShownStringsAreReached == Spec => []ShownStringsReach
<1>1. IInv => ShownStringsReach
  <2> SUFFICES ASSUME IInv, cache # NoCache
               PROVE  /\ Legible(cache, g_string_registry)
                      /\ \A i \in DOMAIN cache.entries :
                           cache.entries[i].value = Number[typed[cache.entries[i].key].value]
    BY DEF ShownStringsReach
  <2>1. Faithful(g_string_registry) /\ Known(cache, g_string_registry) /\ AsTyped(cache, typed)
    BY DEF IInv, Remembered
  <2>2. Legible(cache, g_string_registry)
    BY <2>1, LegibleIs
  <2> QED
    BY <2>1, <2>2 DEF AsTyped
<1> QED
  BY <1>1, InitIInv, NextIInv, PTL DEF Spec
=============================================================================
