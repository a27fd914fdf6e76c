----------------------------- MODULE Simulation -----------------------------
(***************************************************************************)
(* The part of runSimulation in src/public/app.js that draws the           *)
(* operations of a batch.  It follows the server's cache in a shadow: a    *)
(* JavaScript Map, which lists its keys in the order in which they were    *)
(* inserted, here a sequence, the least recently used key first.           *)
(***************************************************************************)
EXTENDS WebApi, SequencesExt

CONSTANTS
  possibleKeys,   (* A sequence of strings that are distinct keys.         *)
  SimValues       (* Bound: the random values that are put.                *)

ASSUME PossibleKeysAssumption ==
  /\ possibleKeys \in Seq(Strings) /\ possibleKeys # <<>>
  /\ \A i, j \in DOMAIN possibleKeys : Number[possibleKeys[i]] = Number[possibleKeys[j]] => i = j
  /\ SimValues \subseteq Strings

Keys(nodes) == [i \in DOMAIN nodes |-> nodes[i].key]

(* The shadow of a state, whose nodes begin with the most recently used.   *)
Synced(state) == Reverse(Keys(state.nodes))

-----------------------------------------------------------------------------
(* Which operation and key are drawn.  Filling: the cache is less than 90% *)
(* full.  hit: a get looks for a key that is in the shadow.                *)

Filling(shadow, cap) == 10 * Len(shadow) < 9 * cap

DrawnTypes(shadow, cap) ==
  {[op |-> "put", hit |-> FALSE], [op |-> "remove", hit |-> FALSE]} \cup
  (IF shadow # <<>> THEN {[op |-> "get", hit |-> TRUE]} ELSE {}) \cup
  (IF Filling(shadow, cap) THEN {} ELSE {[op |-> "get", hit |-> FALSE]})

(* No operation comes more than twice in a row: the third is redrawn.      *)
Types(g, cap) ==
  UNION {IF d.op = g.last /\ g.count = 2
         THEN [op : {"put", "get", "remove"} \ {d.op}, hit : {Filling(g.shadow, cap)}]
         ELSE {d} : d \in DrawnTypes(g.shadow, cap)}

KeysFor(type, shadow) ==
  LET current == ToSet(shadow)
      missing == ToSet(possibleKeys) \ current
      missed  == IF missing # {} THEN missing ELSE {possibleKeys[1]}
  IN  CASE type.op = "put"    -> ToSet(possibleKeys) \cup current
        [] type.op = "get"    -> IF type.hit /\ current # {} THEN current ELSE missed
        [] type.op = "remove" -> current \cup missed

-----------------------------------------------------------------------------
(* What the operation does to the shadow.                                  *)

(* Map.delete: no key comes twice.                                         *)
Deleted(shadow, key) ==
  IF key \in ToSet(shadow) THEN RemoveAt(shadow, CHOOSE i \in DOMAIN shadow : shadow[i] = key)
                           ELSE shadow

shadow_put(shadow, key, cap) ==
  LET longer == Append(Deleted(shadow, key), key)
  IN  IF Len(longer) > cap THEN Tail(longer) ELSE longer

shadow_get_KeepPlace(shadow, key) == shadow

shadow_get(shadow, key) ==
  IF key \in ToSet(shadow) THEN Append(Deleted(shadow, key), key) ELSE shadow

Followed(shadow, op, key, cap) ==
  CASE op = "put"    -> shadow_put(shadow, key, cap)
    [] op = "get"    -> shadow_get(shadow, key)
    [] op = "remove" -> Deleted(shadow, key)

(* The operations of a type, in the form in which a batch has them.        *)
OperationsOf(type, shadow) ==
  IF type.op = "put" THEN [op : {"put"}, key : KeysFor(type, shadow), value : SimValues]
                     ELSE [op : {type.op}, key : KeysFor(type, shadow)]

(* The states of the loop after one more operation.                        *)
Drawn(g, cap) ==
  {[shadow |-> Followed(g.shadow, o.op, o.key, cap),
    last   |-> o.op,
    count  |-> IF o.op = g.last THEN g.count + 1 ELSE 1,
    ops    |-> Append(g.ops, o)] : o \in UNION {OperationsOf(t, g.shadow) : t \in Types(g, cap)}}

(* The operations that may be drawn, with the shadow after them.           *)
Generated(state, n) ==
  LET loop[i \in 0 .. n] ==
        IF i = 0 THEN {[shadow |-> Synced(state), last |-> "none", count |-> 0, ops |-> <<>>]}
        ELSE UNION {Drawn(g, state.capacity) : g \in loop[i - 1]}
  IN  loop[n]

-----------------------------------------------------------------------------
(* What the log says of an operation, judged by the states before and      *)
(* after it as they were received.                                         *)

HitOrMiss_AtLeast(hits, prevHits) == IF hits >= prevHits THEN "HIT" ELSE "MISS"
HitOrMiss(hits, prevHits) == IF hits > prevHits THEN "HIT" ELSE "MISS"

Claim(o, prevState, currentState, cap) ==
  LET keyExists == o.key \in ToSet(Keys(prevState.nodes))
  IN  CASE o.op = "get"    -> HitOrMiss(currentState.hits, prevState.hits)
        [] o.op = "remove" -> IF keyExists THEN "DELETED" ELSE "NOT_FOUND"
        [] o.op = "put"    -> IF keyExists THEN "UPDATED"
                              ELSE IF Len(prevState.nodes) >= cap THEN "EVICTED_AND_INSERTED" ELSE "INSERTED"
=============================================================================
