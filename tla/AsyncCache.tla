----------------------------- MODULE AsyncCache -----------------------------
(***************************************************************************)
(* The class async_cache of include/async_cache.h: an lru_cache owned by a *)
(* worker thread that takes requests from inbox_ and puts responses into   *)
(* outbox_, and the threads that use it.  One thread sends requests and    *)
(* destroys the object, one polls for responses; they may be the same.     *)
(*                                                                         *)
(* The queues are channels (module SpscQueue implements one).  A failed    *)
(* push or pop changes nothing, so that spinning is the absence of a step. *)
(* running_ is stored and loaded relaxed: nothing orders the moment at     *)
(* which the worker sees it change with the arrival of requests.           *)
(***************************************************************************)
EXTENDS Channel

CONSTANTS
  Capacity, TableSize, Keys, Values, Hash, SizeMod,   (* As in LruCache.   *)
  MaxRequests                (* Bound: the number of requests.             *)

VARIABLES
  cache_, inbox_, outbox_,
  running_,    (* stored: its value; visible: the value the worker loads.  *)
  worker,      (* pc and the response in hand.                             *)
  client,      (* The sending thread: pc and the request in hand.          *)
  log,         (* The requests that were sent, in order.                   *)
  received     (* The responses that were polled, in order.                *)

vars == <<cache_, inbox_, outbox_, running_, worker, client, log, received>>

LRU == INSTANCE LruCache WITH cache <- cache_, ret <- [found |-> FALSE, value |-> 0]

(* What lru_cache's constructor ensures, and module LruCache assumes.      *)
ASSUME CacheAssumption ==
  /\ Capacity \in Nat \ {0}
  /\ TableSize = LRU!next_power_of_two(2 * Capacity)
  /\ Keys \subseteq Nat /\ 0 \in Keys
  /\ Values \subseteq Nat /\ 0 \in Values
  /\ Hash \in [Keys -> LRU!Slot]
  /\ SizeMod \in Nat \ {0}

(* The clients below store the numbers of their requests.                  *)
ASSUME ClientAssumption == MaxRequests \in Nat /\ 0 .. MaxRequests \subseteq Values

cache_request  == [req_id : 0 .. MaxRequests, type : {"PUT", "GET"}, key : Keys, value : Values]
cache_response == [req_id : 0 .. MaxRequests, found : BOOLEAN, value : Values]

NoRequest  == [req_id |-> 0, type |-> "PUT", key |-> 0, value |-> 0]
NoResponse == [req_id |-> 0, found |-> FALSE, value |-> 0]

Init ==
  /\ cache_ = LRU!NewCache
  /\ inbox_ = NewChannel /\ outbox_ = NewChannel
  /\ running_ = [stored |-> TRUE, visible |-> TRUE]
  /\ worker = [pc |-> "check", response |-> NoResponse]
  /\ client = [pc |-> "idle", request |-> NoRequest]
  /\ log = <<>> /\ received = <<>>

-----------------------------------------------------------------------------
(* The threads that use the cache.                                         *)

Call(request) ==
  /\ client.pc = "idle" /\ Len(log) < MaxRequests
  /\ client' = [pc |-> "push", request |-> request]
  /\ UNCHANGED <<cache_, inbox_, outbox_, running_, worker, log, received>>

async_put(key, value)  == Call([req_id |-> 0, type |-> "PUT", key |-> key, value |-> value])
async_get(req_id, key) == Call([req_id |-> req_id, type |-> "GET", key |-> key, value |-> 0])

(* The push that ends the spinning of async_put and async_get.             *)
Send ==
  /\ client.pc = "push" /\ ~ Full(inbox_)
  /\ inbox_' = Pushed(inbox_, client.request)
  /\ log' = Append(log, client.request)
  /\ client' = [client EXCEPT !.pc = "idle"]
  /\ UNCHANGED <<cache_, outbox_, running_, worker, received>>

poll_response ==
  /\ client.pc \in {"idle", "push"} /\ ~ Empty(outbox_)
  /\ received' = Append(received, Head(outbox_.ready))
  /\ outbox_' = Popped(outbox_)
  /\ UNCHANGED <<cache_, inbox_, running_, worker, client, log>>

(* The destructor stores running_ and waits until the worker has ended.    *)
Destroy ==
  /\ client.pc = "idle"
  /\ running_' = [running_ EXCEPT !.stored = FALSE]
  /\ client' = [client EXCEPT !.pc = "join"]
  /\ UNCHANGED <<cache_, inbox_, outbox_, worker, log, received>>

Join ==
  /\ client.pc = "join" /\ worker.pc = "done"
  /\ client' = [client EXCEPT !.pc = "joined"]
  /\ UNCHANGED <<cache_, inbox_, outbox_, running_, worker, log, received>>

(* The object is gone.                                                     *)
Gone == client.pc = "joined" /\ UNCHANGED vars

-----------------------------------------------------------------------------
(* worker_loop.                                                            *)

CheckRunning ==
  /\ worker.pc = "check"
  /\ worker' = [worker EXCEPT !.pc = IF running_.visible THEN "pop" ELSE "drain"]
  /\ UNCHANGED <<cache_, inbox_, outbox_, running_, client, log, received>>

Serve ==
  /\ worker.pc = "pop" /\ ~ Empty(inbox_)
  /\ LET req == Head(inbox_.ready)
         res == LRU!get_result(cache_, req.key)
     IN  \/ /\ req.type = "PUT"
            /\ cache_' = LRU!put(cache_, req.key, req.value)
            /\ worker' = [worker EXCEPT !.pc = "check"]
         \/ /\ req.type = "GET"
            /\ cache_' = LRU!get(cache_, req.key)
            /\ worker' = [pc |-> "respond",
                          response |-> [req_id |-> req.req_id, found |-> res.found, value |-> res.value]]
  /\ inbox_' = Popped(inbox_)
  /\ UNCHANGED <<outbox_, running_, client, log, received>>

Idle ==
  /\ worker.pc = "pop" /\ Empty(inbox_)
  /\ worker' = [worker EXCEPT !.pc = "check"]
  /\ UNCHANGED <<cache_, inbox_, outbox_, running_, client, log, received>>

Respond ==
  /\ worker.pc = "respond" /\ ~ Full(outbox_)
  /\ outbox_' = Pushed(outbox_, worker.response)
  /\ worker' = [pc |-> "check", response |-> NoResponse]
  /\ UNCHANGED <<cache_, inbox_, running_, client, log, received>>

DropResponse_AtOnce ==
  /\ worker.pc = "respond" /\ Full(outbox_)
  /\ worker' = [pc |-> "check", response |-> NoResponse]
  /\ UNCHANGED <<cache_, inbox_, outbox_, running_, client, log, received>>

DropResponse_Never == FALSE /\ UNCHANGED vars

(* The spinning on a full outbox_ ends when running_ turns false.          *)
DropResponse ==
  /\ worker.pc = "respond" /\ Full(outbox_) /\ ~ running_.visible
  /\ worker' = [pc |-> "check", response |-> NoResponse]
  /\ UNCHANGED <<cache_, inbox_, outbox_, running_, client, log, received>>

Drain ==
  /\ worker.pc = "drain" /\ ~ Empty(inbox_)
  /\ LET req == Head(inbox_.ready)
     IN  cache_' = IF req.type = "PUT" THEN LRU!put(cache_, req.key, req.value) ELSE cache_
  /\ inbox_' = Popped(inbox_)
  /\ UNCHANGED <<outbox_, running_, worker, client, log, received>>

EndDrain ==
  /\ worker.pc = "drain" /\ Empty(inbox_)
  /\ worker' = [worker EXCEPT !.pc = "done"]
  /\ UNCHANGED <<cache_, inbox_, outbox_, running_, client, log, received>>

Worker == CheckRunning \/ Serve \/ Idle \/ Respond \/ DropResponse \/ Drain \/ EndDrain

-----------------------------------------------------------------------------
(* Visibility of stores to the other thread.                               *)

RequestsArrive ==
  /\ inbox_' \in Arrivals(inbox_)
  /\ UNCHANGED <<cache_, outbox_, running_, worker, client, log, received>>

InboxReturns ==
  /\ inbox_' \in Returns(inbox_)
  /\ UNCHANGED <<cache_, outbox_, running_, worker, client, log, received>>

ResponsesArrive ==
  /\ outbox_' \in Arrivals(outbox_)
  /\ UNCHANGED <<cache_, inbox_, running_, worker, client, log, received>>

OutboxReturns ==
  /\ outbox_' \in Returns(outbox_)
  /\ UNCHANGED <<cache_, inbox_, running_, worker, client, log, received>>

StopArrives ==
  /\ running_.visible # running_.stored
  /\ running_' = [running_ EXCEPT !.visible = running_.stored]
  /\ UNCHANGED <<cache_, inbox_, outbox_, worker, client, log, received>>

Visibility == RequestsArrive \/ InboxReturns \/ ResponsesArrive \/ OutboxReturns \/ StopArrives

Number == Len(log) + 1

Client ==
  \/ \E key \in Keys : async_put(key, Number) \/ async_get(Number, key)
  \/ Send \/ poll_response \/ Destroy \/ Join \/ Gone

Next == Client \/ Worker \/ Visibility

Spec == Init /\ [][Next]_vars

(* The worker and a destructor that waits keep running, and every store    *)
(* becomes visible in finite time, as C++ asks of an implementation.       *)
Progress ==
  /\ WF_vars(Worker) /\ WF_vars(Join)
  /\ WF_vars(RequestsArrive) /\ WF_vars(InboxReturns)
  /\ WF_vars(ResponsesArrive) /\ WF_vars(OutboxReturns) /\ WF_vars(StopArrives)

FairSpec == Spec /\ Progress

-----------------------------------------------------------------------------
(* Properties.                                                             *)

(* The queues never hold more than QueueCapacity items, and the worker and *)
(* the client are at one of their steps.                                   *)
TypeOK ==
  /\ cache_ \in LRU!CacheType
  /\ inbox_.ready \in Seq(cache_request) /\ inbox_.sent \in Seq(cache_request)
  /\ outbox_.ready \in Seq(cache_response) /\ outbox_.sent \in Seq(cache_response)
  /\ \A ch \in {inbox_, outbox_} :
       ch.freed \in Nat /\ Len(Contents(ch)) + ch.freed \in 0 .. QueueCapacity
  /\ running_ \in [stored : BOOLEAN, visible : BOOLEAN]
  /\ worker \in [pc : {"check", "pop", "respond", "drain", "done"}, response : cache_response]
  /\ client \in [pc : {"idle", "push", "join", "joined"}, request : cache_request]
  /\ log \in Seq(cache_request) /\ received \in Seq(cache_response)

(* A cache that executes requests one after another, with its answers.     *)
Execute(s, req) ==
  IF req.type = "PUT"
  THEN [cache |-> LRU!put(s.cache, req.key, req.value), answers |-> s.answers]
  ELSE LET res == LRU!get_result(s.cache, req.key)
       IN  [cache   |-> LRU!get(s.cache, req.key),
            answers |-> Append(s.answers, [req_id |-> req.req_id,
                                           found |-> res.found, value |-> res.value])]

Executed(requests) ==
  LET after[i \in 0 .. Len(requests)] ==
        IF i = 0 THEN [cache |-> LRU!NewCache, answers |-> <<>>]
        ELSE Execute(after[i - 1], requests[i])
  IN  after[Len(requests)]

(* The requests that the worker has taken, and the response in its hand.   *)
Taken   == SubSeq(log, 1, Len(log) - Len(Contents(inbox_)))
Pending == IF worker.pc = "respond" THEN <<worker.response>> ELSE <<>>

(* Until the worker sees the end, no answer is lost, doubled, overtaken or *)
(* wrong: what was received, what is in outbox_ and what the worker holds  *)
(* are the answers to the requests that left inbox_, executed in the order *)
(* in which they were sent (async_cache.h:84-101).                         *)
NoAnswerLost ==
  running_.visible => received \o Contents(outbox_) \o Pending = Executed(Taken).answers

(* The destructor returns, whatever is left in the queues and whatever the *)
(* worker was doing (async_cache.h:140-152; README.md:182-183).            *)
ShutdownTerminates == client.pc = "join" ~> client.pc = "joined"

(* "Drain inbox on shutdown (Flush pending PUTs, discard GETs)"            *)
(* (async_cache.h:103): no PUT is left when the destructor returns.        *)
PutsFlushed ==
  client.pc = "joined" => \A i \in DOMAIN Contents(inbox_) : Contents(inbox_)[i].type # "PUT"
=============================================================================
