--------------------------- MODULE AbstractQueue ----------------------------
(***************************************************************************)
(* A channel with a producer that calls push and a consumer that calls     *)
(* pop: the results of the last calls are pushed and popped.               *)
(***************************************************************************)
EXTENDS Channel

CONSTANTS Items, Zero

VARIABLES channel, pushed, popped

vars == <<channel, pushed, popped>>

Init == channel = NewChannel /\ pushed = FALSE /\ popped = [ok |-> FALSE, item |-> Zero]

Push(item) ==
  /\ ~ Full(channel)
  /\ channel' = Pushed(channel, item)
  /\ pushed' = TRUE
  /\ UNCHANGED popped

PushFails ==
  /\ Full(channel)
  /\ pushed' = FALSE
  /\ UNCHANGED <<channel, popped>>

Pop ==
  /\ ~ Empty(channel)
  /\ popped' = [ok |-> TRUE, item |-> Head(channel.ready)]
  /\ channel' = Popped(channel)
  /\ UNCHANGED pushed

(* The caller's variable keeps what was in it.                             *)
PopFails ==
  /\ Empty(channel)
  /\ popped' = [popped EXCEPT !.ok = FALSE]
  /\ UNCHANGED <<channel, pushed>>

Visibility ==
  /\ channel' \in Arrivals(channel) \cup Returns(channel)
  /\ UNCHANGED <<pushed, popped>>

Next == (\E item \in Items : Push(item)) \/ PushFails \/ Pop \/ PopFails \/ Visibility

Spec == Init /\ [][Next]_vars
=============================================================================
