---------------------------- MODULE StringCache -----------------------------
(***************************************************************************)
(* What src/main.cpp and src/web_server.cpp have in common: an lru_cache   *)
(* of numbers, made with the capacity that a user asks for, and a registry *)
(* that remembers for each number the string it was typed as last.  The    *)
(* two programs hold the same text of to_uint64 and from_uint64.           *)
(***************************************************************************)
EXTENDS Integers, Sequences

CONSTANTS
  Strings,      (* The strings a user types, trimmed.                      *)
  Number,       (* Number[s]: std::stoull(s), or the hash of s.            *)
  Decimal,      (* Decimal[n] is std::to_string(n).                        *)
  CounterMod,   (* The caches count hits modulo CounterMod.                *)
  Empty         (* A line, or a parameter of a request, that is empty.     *)

Numbers == {Number[s] : s \in Strings}

ASSUME StringsAssumption ==
  /\ Number \in [Strings -> Nat] /\ 0 \in Numbers
  /\ Decimal \in [Numbers -> Strings] /\ \A n \in Numbers : Number[Decimal[n]] = n
  /\ CounterMod \in Nat \ {0}

-----------------------------------------------------------------------------
(* The cache that a program holds.  These programs only call an lru_cache, *)
(* so it is what every lru_cache implements (LruRefines).                  *)

LRU == INSTANCE LruEntries WITH SizeMod <- CounterMod

EntryType == [key : Numbers, value : Numbers]

UniqueKeys(entries) == \A i, j \in DOMAIN entries : entries[i].key = entries[j].key => i = j

Counter == 0 .. CounterMod - 1

CachesOf(caps) ==
  {c \in [capacity : caps, entries : Seq(EntryType), hits : Counter, misses : Counter, evictions : Counter] :
     Len(c.entries) <= c.capacity /\ UniqueKeys(c.entries)}

CacheOf(cap)     == LRU!NewLru(cap)
put(c, key, val) == LRU!put(c, Number[key], Number[val])
get(c, key)      == LRU!get(c, Number[key])
remove(c, key)   == LRU!remove(c, Number[key])
clear(c)         == LRU!clear(c)

-----------------------------------------------------------------------------
(* The registry.                                                           *)

NoStrings == [n \in {} |-> 0]

(* The registry after to_uint64(str).                                      *)
Register(registry, str) ==
  [n \in DOMAIN registry \cup {Number[str]} |-> IF n = Number[str] THEN str ELSE registry[n]]

(* from_uint64(val).                                                       *)
StringOf(registry, val) == IF val \in DOMAIN registry THEN registry[val] ELSE Decimal[val]

RegistryType == UNION {[known -> Strings] : known \in SUBSET Numbers}

(* The entries of a cache through the formatter of display and             *)
(* get_json_state, the most recently used first.                           *)
Display(c, registry) ==
  [i \in DOMAIN c.entries |-> [key   |-> StringOf(registry, c.entries[i].key),
                               value |-> StringOf(registry, c.entries[i].value)]]

(* The strings shown for the entries of a cache are ones that were typed,  *)
(* and lead back to the numbers in it.                                     *)
Legible(c, registry) ==
  \A i \in DOMAIN c.entries :
    LET entry == c.entries[i]
        shown == Display(c, registry)[i]
    IN  /\ {entry.key, entry.value} \subseteq DOMAIN registry
        /\ Number[shown.key] = entry.key /\ Number[shown.value] = entry.value
=============================================================================
