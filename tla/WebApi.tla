------------------------------- MODULE WebApi -------------------------------
(***************************************************************************)
(* The handlers of src/web_server.cpp.  A server is the cache and the      *)
(* registry; a handler maps it to the set of its possible successors,      *)
(* which are several because C++ leaves open in which order the two        *)
(* arguments of put are converted.  Every handler answers with the JSON of *)
(* the cache after it, /api/batch with one for each of its operations.     *)
(*                                                                         *)
(* Each operation also has its effect, which the server does not send: it  *)
(* is what a client should have been told.                                 *)
(***************************************************************************)
EXTENDS StringCache

(* What is sent; a parameter that is missing counts as Empty.  Nobody      *)
(* checks the keys and values inside a batch: Empty may be one of Strings. *)
(* A token of a batch without a comma, with an unknown letter, or of a put *)
(* without a value is no operation.                                        *)
Operation ==
  [op : {"put"}, key : Strings, value : Strings] \cup [op : {"get", "remove"}, key : Strings]

Token == Operation \cup [op : {"none"}]

Request ==
  LET parameter == Strings \cup {Empty}
  IN  [api : {"state"}] \cup
      [api : {"put"}, key : parameter, value : parameter] \cup
      [api : {"get", "remove"}, key : parameter] \cup
      [api : {"reset"}, capacity : Int] \cup
      [api : {"batch"}, ops : Seq(Token)]

DefaultCapacity == 10

NewServer(cap) == [cache |-> CacheOf(cap), registry |-> NoStrings]

(* lru_cache::get_json_state with from_uint64 as formatter; the counters   *)
(* other than hits are left out.                                           *)
json_state(s) ==
  [capacity |-> s.cache.capacity, hits |-> s.cache.hits,
   nodes |-> Display(s.cache, s.registry)]

(* One operation of /api/put, get, remove or one token of a batch.         *)
Apply_ValueOnly(s, o) ==
  CASE o.op = "put"    -> {[cache |-> put(s.cache, o.key, o.value), registry |-> Register(s.registry, o.value)]}
    [] o.op = "get"    -> {[cache |-> get(s.cache, o.key), registry |-> Register(s.registry, o.key)]}
    [] o.op = "remove" -> {[cache |-> remove(s.cache, o.key), registry |-> Register(s.registry, o.key)]}
    [] o.op = "none"   -> {s}

Apply(s, o) ==
  CASE o.op = "put"    -> {[cache |-> put(s.cache, o.key, o.value), registry |-> r] :
                             r \in {Register(Register(s.registry, o.key), o.value),
                                    Register(Register(s.registry, o.value), o.key)}}
    [] o.op = "get"    -> {[cache |-> get(s.cache, o.key), registry |-> Register(s.registry, o.key)]}
    [] o.op = "remove" -> {[cache |-> remove(s.cache, o.key), registry |-> Register(s.registry, o.key)]}
    [] o.op = "none"   -> {s}

Holds(c, key) == LRU!Has(c, Number[key])

Effect(s, o) ==
  LET held == Holds(s.cache, o.key)
      full == Len(s.cache.entries) = s.cache.capacity
  IN  CASE o.op = "put"    -> IF held THEN "UPDATED" ELSE IF full THEN "EVICTED_AND_INSERTED" ELSE "INSERTED"
        [] o.op = "get"    -> IF held THEN "HIT" ELSE "MISS"
        [] o.op = "remove" -> IF held THEN "DELETED" ELSE "NOT_FOUND"
        [] o.op = "none"   -> "NOTHING"

(* The server after each token of ops; /api/batch works through them       *)
(* without looking at other connections.                                   *)
Runs(s, ops) ==
  LET run[n \in 0 .. Len(ops)] ==
        IF n = 0 THEN {<<s>>}
        ELSE UNION {{Append(r, t) : t \in Apply(r[n], ops[n])} : r \in run[n - 1]}
  IN  run[Len(ops)]

(* Requests.  put, get and remove leave the cache alone when a parameter   *)
(* is empty; reset makes a new cache and keeps the registry.               *)
HasEmpty(request) ==
  request.key = Empty \/ (request.api = "put" /\ request.value = Empty)

AsOperation(request) ==
  IF request.api = "put" THEN [op |-> "put", key |-> request.key, value |-> request.value]
                         ELSE [op |-> request.api, key |-> request.key]

(* std::stoi throws for what is no int, which counts as a capacity of 0.   *)
INT_MAX == 2147483647

ResetCapacity_AllowZero(cap) == IF cap \in 0 .. INT_MAX THEN cap ELSE DefaultCapacity
ResetCapacity(cap) == IF cap \in 1 .. INT_MAX THEN cap ELSE DefaultCapacity

Answer(states, effects) == [states |-> states, effects |-> effects]

StateType == [capacity : Nat, hits : Counter, nodes : Seq([key : Strings, value : Strings])]
EffectType == {"UPDATED", "EVICTED_AND_INSERTED", "INSERTED", "HIT", "MISS", "DELETED", "NOT_FOUND", "NOTHING"}
AnswerType == [states : Seq(StateType), effects : Seq(EffectType)]

(* The pairs of a next server and an answer.                               *)
Handled(s, request) ==
  CASE request.api = "state" ->
         {<<s, Answer(<<json_state(s)>>, <<>>)>>}
    [] request.api \in {"put", "get", "remove"} ->
         IF HasEmpty(request) THEN {<<s, Answer(<<json_state(s)>>, <<>>)>>}
         ELSE LET o == AsOperation(request)
              IN  {<<t, Answer(<<json_state(t)>>, <<Effect(s, o)>>)>> : t \in Apply(s, o)}
    [] request.api = "reset" ->
         LET t == [s EXCEPT !.cache = CacheOf(ResetCapacity(request.capacity))]
         IN  {<<t, Answer(<<json_state(t)>>, <<>>)>>}
    [] request.api = "batch" ->
         {<<r[Len(r)], Answer([i \in DOMAIN request.ops |-> json_state(r[i + 1])],
                              [i \in DOMAIN request.ops |-> Effect(r[i], request.ops[i])])>> :
            r \in Runs(s, request.ops)}
=============================================================================
