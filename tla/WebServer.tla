----------------------------- MODULE WebServer ------------------------------
(***************************************************************************)
(* The accept loop of src/web_server.cpp, one thread that serves one       *)
(* connection after another, and its clients.  recv waits until the client *)
(* it serves sends or hangs up, and send until the client, or the system's *)
(* buffer for it, has taken the response: meanwhile nobody else is served. *)
(* A request arrives in one piece and fits into the buffer.                *)
(***************************************************************************)
EXTENDS WebApi

CONSTANTS
  Clients, Nobody,
  Backlog,         (* listen(server_fd, 3): connections that may wait.     *)
  Requests,        (* Bound: the requests that clients send.               *)
  Nothing          (* No request was sent.                                 *)

ASSUME ClientsAssumption ==
  /\ Nobody \notin Clients /\ Backlog \in Nat \ {0}
  /\ Requests \subseteq Request /\ Nothing \notin Requests

VARIABLES
  server,
  backlog,     (* The connections that wait for accept, oldest first.      *)
  serving,     (* The client of client_socket.                             *)
  conn         (* For each client its phase and what it has sent.          *)

vars == <<server, backlog, serving, conn>>

Away == [phase |-> "away", request |-> Nothing]

Init ==
  /\ server = NewServer(DefaultCapacity)
  /\ backlog = <<>> /\ serving = Nobody
  /\ conn = [c \in Clients |-> Away]

-----------------------------------------------------------------------------
(* The clients.                                                            *)

Connect(c) ==
  /\ conn[c].phase = "away" /\ Len(backlog) < Backlog
  /\ backlog' = Append(backlog, c)
  /\ conn' = [conn EXCEPT ![c].phase = "connected"]
  /\ UNCHANGED <<server, serving>>

Send(c) ==
  /\ conn[c].phase = "connected"
  /\ \E request \in Requests : conn' = [conn EXCEPT ![c] = [phase |-> "sent", request |-> request]]
  /\ UNCHANGED <<server, backlog, serving>>

(* A browser closes a connection that it does not need, or gives up.       *)
HangUp(c) ==
  /\ conn[c].phase \in {"connected", "sent", "handled"}
  /\ conn' = [conn EXCEPT ![c].phase = "hung up"]
  /\ UNCHANGED <<server, backlog, serving>>

(* The client, or the buffer, has room for the whole response.             *)
Receive(c) ==
  /\ conn[c].phase = "handled"
  /\ conn' = [conn EXCEPT ![c].phase = "answered"]
  /\ UNCHANGED <<server, backlog, serving>>

-----------------------------------------------------------------------------
(* The loop.                                                               *)

accept ==
  /\ serving = Nobody /\ backlog # <<>>
  /\ serving' = Head(backlog) /\ backlog' = Tail(backlog)
  /\ UNCHANGED <<server, conn>>

recv_fails_KeepSocket ==
  /\ serving # Nobody /\ conn[serving].phase = "hung up"
  /\ conn' = [conn EXCEPT ![serving] = Away]
  /\ UNCHANGED <<server, backlog, serving>>

(* bytes_received <= 0: the client closed, or reset a connection that it   *)
(* had sent on.  The loop of send ends in the same way, with sent <= 0.    *)
recv_fails ==
  /\ serving # Nobody /\ conn[serving].phase = "hung up"
  /\ conn' = [conn EXCEPT ![serving] = Away]
  /\ serving' = Nobody
  /\ UNCHANGED <<server, backlog>>

(* A request is handled although its client has hung up meanwhile; only    *)
(* the send fails.                                                         *)
handle ==
  /\ serving # Nobody /\ conn[serving].request # Nothing
  /\ \E result \in Handled(server, conn[serving].request) : server' = result[1]
  /\ conn' = [conn EXCEPT ![serving] =
                [phase |-> IF @.phase = "sent" THEN "handled" ELSE @.phase, request |-> Nothing]]
  /\ UNCHANGED <<backlog, serving>>

(* Everything is sent, and the connection is closed.                       *)
send_ends ==
  /\ serving # Nobody /\ conn[serving].phase = "answered"
  /\ conn' = [conn EXCEPT ![serving] = Away]
  /\ serving' = Nobody
  /\ UNCHANGED <<server, backlog>>

Loop == accept \/ recv_fails \/ handle \/ send_ends

Next ==
  \/ Loop
  \/ \E c \in Clients : Connect(c) \/ Send(c) \/ HangUp(c) \/ Receive(c)

(* Whoever is served has sent, taken the response or closed, or a          *)
(* connection waits.                                                       *)
LoopEnabled ==
  IF serving = Nobody THEN backlog # <<>>
  ELSE conn[serving].phase \in {"hung up", "answered"} \/ conn[serving].request # Nothing

(* The loop runs, which is weak fairness of Loop with its ENABLED written  *)
(* out, and no client holds its connection open for ever without sending,  *)
(* or without taking the response: the server has no timeout.              *)
Fairness ==
  /\ []<>(~ LoopEnabled) \/ []<><<Loop>>_vars
  /\ \A c \in Clients : /\ WF_vars(Send(c) \/ (HangUp(c) /\ conn[c].phase = "connected"))
                         /\ WF_vars(Receive(c) \/ (HangUp(c) /\ conn[c].phase = "handled"))

Spec == Init /\ [][Next]_vars /\ Fairness

-----------------------------------------------------------------------------
(* Properties.                                                             *)

AskedFor == {request.capacity : request \in {r \in Requests : r.api = "reset"}}

(* The cache has the default capacity or one that a reset asked for, which *)
(* is a positive int (web_server.cpp:164-169), and never holds more.  A    *)
(* connection is in one place: it waits in the backlog, or is served, or   *)
(* is none (web_server.cpp:93-101, 213-222).                               *)
TypeOK ==
  /\ server.cache \in CachesOf(({DefaultCapacity} \cup AskedFor) \cap (1 .. INT_MAX))
  /\ server.registry \in RegistryType
  /\ conn \in [Clients -> [phase : {"away", "connected", "sent", "handled", "hung up", "answered"},
                           request : Requests \cup {Nothing}]]
  /\ backlog \in Seq(Clients) /\ Len(backlog) <= Backlog
  /\ \A c \in Clients :
       LET waiting == {i \in DOMAIN backlog : backlog[i] = c}
           open    == conn[c].phase # "away"
       IN  /\ \A i, j \in waiting : i = j
           /\ open <=> (serving = c \/ waiting # {})
           /\ ~ (serving = c /\ waiting # {})

(* Keys identify nodes in the browser (app.js:37-45, 236): however the     *)
(* arguments of put are ordered and whatever else is registered, the JSON  *)
(* shows every key by a string that leads back to it, so that no two nodes *)
(* show the same key (web_server.cpp:18-36, 138, 193).                     *)
ShownKeysReach == Legible(server.cache, server.registry)

(* Every request is answered unless its client gives up, however many      *)
(* connections wait, stay silent, leave a response unread or break off     *)
(* before it (web_server.cpp:93-101, 213-222).                             *)
Served == \A c \in Clients : conn[c].phase = "sent" ~> conn[c].phase \notin {"sent", "handled"}
=============================================================================
