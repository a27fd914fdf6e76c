--------------------------- MODULE WebServerProofs --------------------------
(***************************************************************************)
(* Proofs about the web server, for all strings, numberings, requests and  *)
(* clients: the cache and the registry are such as the handlers leave      *)
(* them, and the accept loop has each connection in one place.             *)
(***************************************************************************)
EXTENDS WebServer, StringCacheProofs

-----------------------------------------------------------------------------
(* The accept loop.                                                        *)

Waiting(b, c) == {i \in DOMAIN b : b[i] = c}

Open(phase) == phase # "away"

(* A connection with client c is in one place, if it is open.              *)
OnePlace(c, b, served, phase) ==
  /\ \A i, j \in Waiting(b, c) : i = j
  /\ Open(phase) <=> (served = c \/ Waiting(b, c) # {})
  /\ ~ (served = c /\ Waiting(b, c) # {})

Connection ==
  [phase : {"away", "connected", "sent", "handled", "hung up", "answered"},
   request : Requests \cup {Nothing}]

LoopInv ==
  /\ conn \in [Clients -> Connection] /\ serving \in Clients \cup {Nobody}
  /\ backlog \in Seq(Clients) /\ Len(backlog) <= Backlog
  /\ \A c \in Clients : OnePlace(c, backlog, serving, conn[c].phase)

CacheInv == server \in Servers /\ server.cache.capacity \in {DefaultCapacity} \cup AskedFor

IInv == CacheInv /\ LoopInv

LEMMA TypeIs == IInv => TypeOK
<1> SUFFICES ASSUME IInv PROVE TypeOK
  OBVIOUS
<1> DEFINE caps == {DefaultCapacity} \cup AskedFor
<1>1. server.cache \in CachesOf(caps \cap PositiveInts)
  <2>1. server.cache \in CachesOf(Nat \ {0}) /\ server.cache.capacity \in PositiveInts
    BY ServerIs DEF IInv, CacheInv
  <2>2. server.cache.capacity \in caps \cap PositiveInts
    BY <2>1 DEF IInv, CacheInv
  <2> HIDE DEF caps
  <2> QED
    BY <2>1, <2>2 DEF CachesOf
<1>2. server.registry \in RegistryType
  BY ServerIs DEF IInv, CacheInv
<1>3. server.cache \in CachesOf(({DefaultCapacity} \cup AskedFor) \cap (1 .. INT_MAX))
  BY <1>1 DEF PositiveInts
<1> QED
  BY <1>2, <1>3 DEF TypeOK, IInv, LoopInv, Connection, OnePlace, Open, Waiting

(* Who waits after Connect and after accept.                               *)
LEMMA AppendWaiting ==
  ASSUME NEW b \in Seq(Clients), NEW c \in Clients, NEW d
  PROVE  Waiting(Append(b, c), d) = Waiting(b, d) \cup (IF d = c THEN {Len(b) + 1} ELSE {})
<1> DEFINE a == Append(b, c)
<1>1. /\ a \in Seq(Clients) /\ Len(a) = Len(b) + 1 /\ a[Len(b) + 1] = c
      /\ \A i \in 1 .. Len(b) : a[i] = b[i]
  BY AppendProperties
<1>2. DOMAIN b = 1 .. Len(b) /\ Len(b) \in Nat /\ DOMAIN a = 1 .. Len(b) + 1
  BY <1>1, LenProperties
<1> HIDE DEF a
<1>3. \A i : i \in Waiting(a, d) <=> i \in Waiting(b, d) \/ (i = Len(b) + 1 /\ d = c)
  BY <1>1, <1>2 DEF Waiting
<1>4. Waiting(a, d) = Waiting(b, d) \cup (IF d = c THEN {Len(b) + 1} ELSE {})
  BY <1>3
<1> QED
  BY <1>4 DEF a

LEMMA TailWaiting ==
  ASSUME NEW b \in Seq(Clients), b # <<>>, NEW d
  PROVE  /\ Head(b) \in Clients /\ Tail(b) \in Seq(Clients) /\ Len(Tail(b)) = Len(b) - 1
         /\ Len(b) \in Nat
         /\ \A i : i \in Waiting(Tail(b), d) <=> i \in Nat \ {0} /\ i + 1 \in Waiting(b, d)
         /\ 1 \in Waiting(b, d) <=> d = Head(b)
<1>1. /\ Tail(b) \in Seq(Clients) /\ Len(Tail(b)) = Len(b) - 1
      /\ \A i \in 1 .. Len(Tail(b)) : Tail(b)[i] = b[i + 1]
  BY HeadTailProperties
<1>2. Len(b) \in Nat \ {0} /\ DOMAIN b = 1 .. Len(b) /\ DOMAIN Tail(b) = 1 .. Len(b) - 1
  BY <1>1, LenProperties, EmptySeq
<1>3. Head(b) = b[1] /\ b[1] \in Clients
  BY <1>2, ElementOfSeq
<1>4. \A i : i \in Waiting(Tail(b), d) <=> i \in Nat \ {0} /\ i + 1 \in Waiting(b, d)
  BY <1>1, <1>2 DEF Waiting
<1>5. 1 \in Waiting(b, d) <=> d = Head(b)
  BY <1>2, <1>3 DEF Waiting
<1> QED
  BY <1>1, <1>2, <1>3, <1>4, <1>5

LEMMA ConnFields ==
  ASSUME conn \in [Clients -> Connection], NEW c \in Clients, NEW r \in Connection,
         conn' = [conn EXCEPT ![c] = r]
  PROVE  conn' \in [Clients -> Connection] /\ conn'[c] = r /\ \A d \in Clients : d # c => conn'[d] = conn[d]
  OBVIOUS

(* A client that stays open, or stays closed, is where it was.             *)
LEMMA ClientStep ==
  ASSUME LoopInv, NEW c \in Clients, NEW r, conn' = [conn EXCEPT ![c] = r],
         r \in Connection,
         Open(r.phase) <=> Open(conn[c].phase),
         backlog' = backlog, serving' = serving
  PROVE  LoopInv'
<1>1. conn' \in [Clients -> Connection] /\ conn'[c] = r /\ \A d \in Clients : d # c => conn'[d] = conn[d]
  BY ConnFields DEF LoopInv
<1>2. ASSUME NEW d \in Clients
      PROVE  OnePlace(d, backlog', serving', conn'[d].phase)
  <2>1. OnePlace(d, backlog, serving, conn[d].phase)
    BY DEF LoopInv
  <2>2. Open(conn'[d].phase) <=> Open(conn[d].phase)
    BY <1>1
  <2> QED
    BY <2>1, <2>2 DEF OnePlace
<1> QED
  BY <1>1, <1>2 DEF LoopInv

LEMMA ConnectStep ==
  ASSUME LoopInv, NEW c \in Clients, Connect(c)
  PROVE  LoopInv'
<1> DEFINE r == [conn[c] EXCEPT !.phase = "connected"]
<1>1. /\ conn[c].phase = "away" /\ Len(backlog) < Backlog /\ serving' = serving
      /\ backlog' = Append(backlog, c) /\ conn' = [conn EXCEPT ![c] = r]
  BY DEF Connect
<1>2. conn[c] \in Connection
  BY DEF LoopInv
<1>3. /\ r \in Connection
      /\ r.phase = "connected"
  BY <1>2 DEF Connection
<1> HIDE DEF r
<1>4. conn' \in [Clients -> Connection] /\ conn'[c] = r /\ \A d \in Clients : d # c => conn'[d] = conn[d]
  BY <1>1, <1>3, ConnFields DEF LoopInv
<1>5. backlog \in Seq(Clients) /\ Len(backlog) \in Nat /\ Backlog \in Nat
  BY LenProperties, ClientsAssumption DEF LoopInv
<1>6. backlog' \in Seq(Clients) /\ Len(backlog') <= Backlog
  BY <1>1, <1>5, AppendProperties
<1>7. ASSUME NEW d \in Clients
      PROVE  OnePlace(d, backlog', serving', conn'[d].phase)
  <2>1. OnePlace(d, backlog, serving, conn[d].phase)
    BY DEF LoopInv
  <2>2. Waiting(backlog', d) = Waiting(backlog, d) \cup (IF d = c THEN {Len(backlog) + 1} ELSE {})
    BY <1>1, <1>5, AppendWaiting
  <2>3. CASE d = c
    <3>1. ~ Open(conn[c].phase) /\ Open(conn'[c].phase)
      BY <1>1, <1>3, <1>4 DEF Open
    <3>2. Waiting(backlog, c) = {} /\ serving # c
      BY <2>1, <2>3, <3>1 DEF OnePlace
    <3>3. Waiting(backlog', d) = {Len(backlog) + 1}
      BY <2>2, <2>3, <3>2
    <3> QED
      BY <1>1, <2>3, <3>1, <3>2, <3>3 DEF OnePlace
  <2>4. CASE d # c
    <3>1. Waiting(backlog', d) = Waiting(backlog, d) /\ conn'[d] = conn[d]
      BY <1>4, <2>2, <2>4
    <3> QED
      BY <1>1, <2>1, <3>1 DEF OnePlace
  <2> QED
    BY <2>3, <2>4
<1> QED
  BY <1>1, <1>4, <1>6, <1>7 DEF LoopInv

LEMMA AcceptStep ==
  ASSUME LoopInv, accept
  PROVE  LoopInv'
<1>1. /\ serving = Nobody /\ backlog # <<>> /\ serving' = Head(backlog)
      /\ backlog' = Tail(backlog) /\ conn' = conn
  BY DEF accept
<1>2. backlog \in Seq(Clients) /\ Len(backlog) <= Backlog /\ Backlog \in Nat /\ Nobody \notin Clients
  BY ClientsAssumption DEF LoopInv
<1>3. Head(backlog) \in Clients /\ Tail(backlog) \in Seq(Clients) /\ Len(Tail(backlog)) <= Backlog
  <2>1. /\ Head(backlog) \in Clients /\ Tail(backlog) \in Seq(Clients)
        /\ Len(Tail(backlog)) = Len(backlog) - 1 /\ Len(backlog) \in Nat
    BY <1>1, <1>2, TailWaiting
  <2> QED
    BY <1>2, <2>1
<1>4. ASSUME NEW d \in Clients
      PROVE  OnePlace(d, backlog', serving', conn'[d].phase)
  <2> DEFINE W == Waiting(backlog, d)
             V == Waiting(Tail(backlog), d)
  <2>1. /\ \A i, j \in W : i = j
        /\ Open(conn[d].phase) <=> W # {}
    BY <1>1, <1>2 DEF LoopInv, OnePlace
  <2>2. /\ \A i : i \in V <=> i \in Nat \ {0} /\ i + 1 \in W
        /\ 1 \in W <=> d = Head(backlog)
    BY <1>1, <1>2, TailWaiting
  <2>3. \A i \in W : i \in Nat \ {0}
    BY <1>2, LenProperties DEF Waiting
  <2> HIDE DEF W, V
  <2>4. \A i, j \in V : i = j
    BY <2>1, <2>2
  <2>5. CASE d = Head(backlog)
    <3>1. V = {}
      BY <2>1, <2>2, <2>5
    <3> QED
      BY <1>1, <2>1, <2>2, <2>4, <2>5, <3>1 DEF OnePlace, V
  <2>6. CASE d # Head(backlog)
    <3>1. V # {} <=> W # {}
      <4>1. ASSUME NEW i \in W PROVE i - 1 \in V
        <5>1. i # 1 /\ i \in Nat \ {0}
          BY <2>2, <2>3, <2>6
        <5>2. i - 1 \in Nat \ {0} /\ i - 1 + 1 = i
          BY <5>1
        <5> QED
          BY <2>2, <5>2
      <4> QED
        BY <2>2, <4>1
    <3> QED
      BY <1>1, <2>1, <2>4, <2>6, <3>1 DEF OnePlace, V
  <2> QED
    BY <2>5, <2>6
<1> QED
  BY <1>1, <1>2, <1>3, <1>4 DEF LoopInv

(* The connection that is served is closed.                                *)
LEMMA CloseStep ==
  ASSUME LoopInv, serving # Nobody, serving' = Nobody, backlog' = backlog,
         NEW r, conn' = [conn EXCEPT ![serving] = r], ~ Open(r.phase),
         r \in Connection
  PROVE  LoopInv'
<1>1. serving \in Clients /\ Nobody \notin Clients
  BY ClientsAssumption DEF LoopInv
<1>2. conn' \in [Clients -> Connection] /\ conn'[serving] = r /\ \A d \in Clients : d # serving => conn'[d] = conn[d]
  BY <1>1, ConnFields DEF LoopInv
<1>3. ASSUME NEW d \in Clients
      PROVE  OnePlace(d, backlog', serving', conn'[d].phase)
  <2>1. OnePlace(d, backlog, serving, conn[d].phase) /\ serving' # d
    BY <1>1 DEF LoopInv
  <2>2. CASE d = serving
    BY <1>2, <2>1, <2>2 DEF OnePlace
  <2>3. CASE d # serving
    BY <1>2, <2>1, <2>3 DEF OnePlace
  <2> QED
    BY <2>2, <2>3
<1> QED
  BY <1>2, <1>3 DEF LoopInv

-----------------------------------------------------------------------------
(* Whichever request is handled, the cache has a capacity that was asked   *)
(* for, or the default one (web_server.cpp:164-169).                       *)
LEMMA ResetsAreAskedFor ==
  ASSUME CacheInv, NEW request \in Requests, NEW result \in Handled(server, request),
         server' = result[1]
  PROVE  CacheInv'
<1>1. request \in Request
  BY ClientsAssumption
<1>2. server' \in Servers
  BY <1>1, HandledIs DEF CacheInv
<1>3. CASE request.api # "reset"
  <2>1. server'.cache.capacity = server.cache.capacity
    BY <1>1, <1>3, HandledCapacity DEF CacheInv
  <2> QED
    BY <1>2, <2>1 DEF CacheInv, AskedFor
<1>4. CASE request.api = "reset"
  <2>1. server'.cache.capacity = ResetCapacity(request.capacity) /\ request.capacity \in Int
    BY <1>1, <1>4, HandledCapacity DEF CacheInv, Request
  <2>2. ResetCapacity(request.capacity) \in {request.capacity, DefaultCapacity}
    BY <2>1, PositiveIntsAre
  <2>3. request.capacity \in AskedFor
    BY <1>4 DEF AskedFor
  <2> QED
    BY <1>2, <2>1, <2>2, <2>3 DEF CacheInv, AskedFor
<1> QED
  BY <1>3, <1>4

LEMMA InitIInv == Init => IInv
<1> SUFFICES ASSUME Init PROVE IInv
  OBVIOUS
<1>1. CacheInv
  <2> DEFINE c == CacheOf(DefaultCapacity)
  <2>1. DefaultCapacity \in PositiveInts /\ DefaultCapacity \in Nat \ {0}
    BY PositiveIntsAre
  <2>2. c \in CachesOf({DefaultCapacity}) /\ c.entries = <<>>
    BY <2>1, NewIs
  <2>3. server = [cache |-> c, registry |-> NoStrings]
    BY DEF Init, NewServer
  <2> HIDE DEF c
  <2>4. Known(c, NoStrings) /\ Faithful(NoStrings)
    BY <2>2, EmptyKnown, EmptyRegistry
  <2>5. c.capacity = DefaultCapacity
    BY <2>2 DEF CachesOf
  <2> QED
    BY <2>1, <2>2, <2>3, <2>4, <2>5, IsServer DEF CacheInv
<1>2. conn \in [Clients -> Connection] /\ serving = Nobody /\ backlog = <<>>
  BY DEF Init, Connection, Away
<1>3. /\ backlog \in Seq(Clients) /\ Len(backlog) <= Backlog
      /\ \A c : Waiting(backlog, c) = {}
  BY <1>2, ClientsAssumption DEF Waiting
<1>4. \A c \in Clients : ~ Open(conn[c].phase) /\ serving # c
  BY <1>2, ClientsAssumption DEF Init, Away, Open
<1>5. \A c \in Clients : OnePlace(c, backlog, serving, conn[c].phase)
  BY <1>3, <1>4 DEF OnePlace
<1> QED
  BY <1>1, <1>2, <1>3, <1>5 DEF IInv, LoopInv

LEMMA NextIInv == IInv /\ [Next]_vars => IInv'
<1> SUFFICES ASSUME IInv, [Next]_vars
             PROVE  IInv'
  OBVIOUS
<1>1. \A c \in Clients :
        conn[c] \in Connection
  BY DEF IInv, LoopInv
<1>2. LoopInv /\ CacheInv
  BY DEF IInv
<1>3. Away \in Connection
  BY DEF Away, Connection
<1>4. ASSUME NEW c \in Clients, Connect(c) \/ Send(c) \/ HangUp(c) \/ Receive(c)
      PROVE  IInv'
  <2>1. CacheInv'
    BY <1>2, <1>4 DEF Connect, Send, HangUp, Receive, CacheInv
  <2>2. CASE Connect(c)
    BY <1>2, <2>1, <2>2, ConnectStep DEF IInv
  <2>3. CASE Send(c)
    <3>1. PICK request \in Requests : conn' = [conn EXCEPT ![c] = [phase |-> "sent", request |-> request]]
      BY <2>3 DEF Send
    <3>2. /\ [phase |-> "sent", request |-> request] \in Connection
          /\ Open([phase |-> "sent", request |-> request].phase) /\ Open(conn[c].phase)
          /\ backlog' = backlog /\ serving' = serving
      BY <2>3 DEF Send, Open, Connection
    <3>3. LoopInv'
      BY <1>2, <3>1, <3>2, ClientStep
    <3> QED
      BY <1>2, <2>1, <3>3 DEF IInv
  <2>4. CASE HangUp(c)
    <3> DEFINE r == [conn[c] EXCEPT !.phase = "hung up"]
    <3>1. /\ r \in Connection
          /\ r.phase = "hung up"
      BY <1>1 DEF Connection
    <3>2. /\ conn' = [conn EXCEPT ![c] = r] /\ Open(conn[c].phase)
          /\ backlog' = backlog /\ serving' = serving
      BY <2>4 DEF HangUp, Open
    <3> HIDE DEF r
    <3>3. Open(r.phase)
      BY <3>1 DEF Open
    <3>4. LoopInv'
      BY <1>2, <3>1, <3>2, <3>3, ClientStep
    <3> QED
      BY <1>2, <2>1, <3>4 DEF IInv
  <2>5. CASE Receive(c)
    <3> DEFINE r == [conn[c] EXCEPT !.phase = "answered"]
    <3>1. r \in Connection /\ r.phase = "answered"
      BY <1>1 DEF Connection
    <3>2. /\ conn' = [conn EXCEPT ![c] = r] /\ Open(conn[c].phase)
          /\ backlog' = backlog /\ serving' = serving
      BY <2>5 DEF Receive, Open
    <3> HIDE DEF r
    <3>3. Open(r.phase)
      BY <3>1 DEF Open
    <3>4. LoopInv'
      BY <1>2, <3>1, <3>2, <3>3, ClientStep
    <3> QED
      BY <2>1, <3>4 DEF IInv
  <2> QED
    BY <1>4, <2>2, <2>3, <2>4, <2>5
<1>5. CASE accept
  <2>1. CacheInv'
    BY <1>2, <1>5 DEF accept, CacheInv
  <2> QED
    BY <1>2, <1>5, <2>1, AcceptStep DEF IInv
<1>6. CASE recv_fails \/ send_ends
  <2>1. /\ server' = server /\ serving # Nobody /\ serving' = Nobody /\ backlog' = backlog
        /\ conn' = [conn EXCEPT ![serving] = Away] /\ ~ Open(Away.phase)
    BY <1>6 DEF recv_fails, send_ends, Open, Away
  <2>2. LoopInv'
    BY <1>2, <1>3, <2>1, CloseStep
  <2> QED
    BY <1>2, <2>1, <2>2 DEF IInv, CacheInv
<1>7. CASE handle
  <2> DEFINE request == conn[serving].request
  <2>1. /\ serving # Nobody /\ request # Nothing
        /\ serving' = serving /\ backlog' = backlog
    BY <1>7 DEF handle
  <2>2. PICK result \in Handled(server, request) : server' = result[1]
    BY <1>7 DEF handle
  <2>3. serving \in Clients
    BY <1>2, <2>1 DEF LoopInv
  <2>4. request \in Requests /\ request \in Request
    BY <1>1, <2>1, <2>3, ClientsAssumption DEF Connection
  <2>5. CacheInv'
    BY <1>2, <2>2, <2>4, ResetsAreAskedFor
  <2> DEFINE r == [phase |-> IF conn[serving].phase = "sent" THEN "handled" ELSE conn[serving].phase,
                   request |-> Nothing]
  <2>6. conn' = [conn EXCEPT ![serving] = r]
    BY <1>7 DEF handle
  <2>7. /\ r \in Connection
        /\ Open(r.phase) <=> Open(conn[serving].phase)
    BY <1>1, <2>3 DEF Connection, Open
  <2> HIDE DEF r, request
  <2>8. LoopInv'
    BY <1>2, <2>1, <2>3, <2>6, <2>7, ClientStep
  <2> QED
    BY <2>5, <2>8 DEF IInv
<1>8. CASE UNCHANGED vars
  BY <1>8 DEF vars, IInv, CacheInv, LoopInv
<1> QED
  BY <1>4, <1>5, <1>6, <1>7, <1>8 DEF Next, Loop

(* The cache has the default capacity or one that a reset asked for, which *)
(* is a positive int, and never holds more; every connection is in one     *)
(* place (web_server.cpp:93-101, 164-169, 213-222).                        *)
THEOREM TypeCorrect == Spec => []TypeOK
<1> QED
  BY TypeIs, InitIInv, NextIInv, PTL DEF Spec

(* However the arguments of put are ordered, whatever is reset and however *)
(* long the batches are, the JSON shows every key and value by a string    *)
(* that leads back to it (web_server.cpp:18-36, 138, 193).                 *)
THEOREM ShownKeysAreReached == Spec => []ShownKeysReach
<1>1. IInv => ShownKeysReach
  BY ServerIs, LegibleIs DEF IInv, CacheInv, ShownKeysReach
<1> QED
  BY <1>1, InitIInv, NextIInv, PTL DEF Spec
=============================================================================
