-------------------------------- MODULE Cli ---------------------------------
(***************************************************************************)
(* The terminal simulator of src/main.cpp: a menu over an lru_cache.       *)
(*                                                                         *)
(* A handler runs from the choice in the menu to the next menu and is one  *)
(* action; its lines of input are parameters.  An empty line, which is     *)
(* also what read_line returns at the end of input, is Empty.  Input that  *)
(* only prints an error message changes nothing.                           *)
(***************************************************************************)
EXTENDS StringCache

CONSTANTS
  Capacities, (* The capacities that are asked for.                      *)
  NoCache     (* Before the first cache is made.                           *)

ASSUME CliAssumption ==
  /\ Empty \notin Strings /\ NoCache \notin CachesOf(Capacities)
  /\ Capacities \subseteq 1 .. 10000 /\ Capacities # {}

VARIABLES
  mode,               (* Where main waits: "capacity", "menu" or "exited". *)
  eof,                (* Standard input has ended.                         *)
  cache,
  g_string_registry,
  typed               (* The strings of the last put for each key.         *)

vars == <<mode, eof, cache, g_string_registry, typed>>

Line == Strings \cup {Empty}

Nothing == [key |-> Empty, value |-> Empty]

Init ==
  /\ mode = "capacity" /\ eof = FALSE
  /\ cache = NoCache
  /\ g_string_registry = NoStrings
  /\ typed = [n \in Numbers |-> Nothing]

read_capacity_AllowZero ==
  /\ mode = "capacity" /\ ~ eof
  /\ \E cap \in Capacities \cup {0} : cache' = CacheOf(cap)
  /\ mode' = "menu"
  /\ UNCHANGED <<eof, g_string_registry, typed>>

(* At the end of input this loop asks again and again.                     *)
read_capacity ==
  /\ mode = "capacity" /\ ~ eof
  /\ \E cap \in Capacities : cache' = CacheOf(cap)
  /\ mode' = "menu"
  /\ UNCHANGED <<eof, g_string_registry, typed>>

(* A choice was read; the cache is not empty.                              *)
Chosen   == mode = "menu" /\ ~ eof
NotEmpty == Chosen /\ cache.entries # <<>>

handle_put_KeyOnly(key_str, val_str) ==
  /\ Chosen /\ key_str # Empty /\ val_str # Empty
  /\ g_string_registry' = Register(g_string_registry, key_str)
  /\ cache' = put(cache, key_str, val_str)
  /\ typed' = [typed EXCEPT ![Number[key_str]] = [key |-> key_str, value |-> val_str]]
  /\ UNCHANGED <<mode, eof>>

handle_put(key_str, val_str) ==
  /\ Chosen /\ key_str # Empty /\ val_str # Empty
  /\ g_string_registry' = Register(Register(g_string_registry, key_str), val_str)
  /\ cache' = put(cache, key_str, val_str)
  /\ typed' = [typed EXCEPT ![Number[key_str]] = [key |-> key_str, value |-> val_str]]
  /\ UNCHANGED <<mode, eof>>

(* The key is registered whether or not it is found.                       *)
handle_get(key_str) ==
  /\ NotEmpty /\ key_str # Empty
  /\ g_string_registry' = Register(g_string_registry, key_str)
  /\ cache' = get(cache, key_str)
  /\ UNCHANGED <<mode, eof, typed>>

handle_remove(key_str) ==
  /\ NotEmpty /\ key_str # Empty
  /\ g_string_registry' = Register(g_string_registry, key_str)
  /\ cache' = remove(cache, key_str)
  /\ UNCHANGED <<mode, eof, typed>>

handle_clear ==
  /\ NotEmpty
  /\ cache' = clear(cache)
  /\ UNCHANGED <<mode, eof, g_string_registry, typed>>

(* The old cache lives until the new capacity is read.                     *)
Reset ==
  /\ Chosen
  /\ mode' = "capacity"
  /\ UNCHANGED <<eof, cache, g_string_registry, typed>>

(* Choice 8, and what read_choice returns at the end of input.             *)
Exit ==
  /\ mode = "menu"
  /\ mode' = "exited"
  /\ UNCHANGED <<eof, cache, g_string_registry, typed>>

EndOfInput ==
  /\ ~ eof /\ eof' = TRUE
  /\ UNCHANGED <<mode, cache, g_string_registry, typed>>

Next ==
  \/ read_capacity
  \/ \E key_str, val_str \in Line : handle_put(key_str, val_str)
  \/ \E key_str \in Line : handle_get(key_str) \/ handle_remove(key_str)
  \/ handle_clear \/ Reset \/ Exit \/ EndOfInput

Spec == Init /\ [][Next]_vars

-----------------------------------------------------------------------------
(* Properties.                                                             *)

(* Before the first cache there is none; then it has a capacity that was   *)
(* asked for, and the registry holds strings.                              *)
TypeOK ==
  /\ mode \in {"capacity", "menu", "exited"} /\ eof \in BOOLEAN
  /\ IF cache = NoCache THEN mode = "capacity" ELSE cache \in CachesOf({cache.capacity} \cap Capacities)
  /\ g_string_registry \in RegistryType
  /\ typed \in [Numbers -> [key : Line, value : Line]]

(* Whatever is typed, looked up, evicted and reset, the registry knows     *)
(* every key and value in the cache, so that from_uint64 never falls back  *)
(* to a number nobody typed; typing the string shown for a key reaches     *)
(* that entry, and the string shown for its value stands for the number    *)
(* last put there (main.cpp:27-47, 116-215).                               *)
ShownStringsReach ==
  cache # NoCache =>
    /\ Legible(cache, g_string_registry)
    /\ \A i \in DOMAIN cache.entries :
         cache.entries[i].value = Number[typed[cache.entries[i].key].value]

(* "We pass a formatter to display the original strings" (main.cpp:211):   *)
(* an entry is displayed as the strings that were put.                     *)
DisplaysOriginals ==
  cache # NoCache =>
    \A i \in DOMAIN cache.entries :
      Display(cache, g_string_registry)[i] = typed[cache.entries[i].key]
=============================================================================
