------------------------------ MODULE Channel -------------------------------
(***************************************************************************)
(* What one spsc_queue promises to the two threads that share it: a FIFO   *)
(* of at most QueueCapacity items in which news travels late.  sent holds  *)
(* the items that were pushed and are not yet visible to the consumer,     *)
(* ready the ones it can pop, and freed counts the pops that the producer  *)
(* has not seen yet.  A channel is a record, so that a component may own   *)
(* several.                                                                *)
(***************************************************************************)
EXTENDS Integers, Sequences

CONSTANT QueueCapacity   (* The constructor's argument.                     *)

(* The constructor throws on capacity 0.                                   *)
ASSUME QueueCapacityAssumption == QueueCapacity \in Nat \ {0}

NewChannel == [sent |-> <<>>, ready |-> <<>>, freed |-> 0]

Contents(ch) == ch.ready \o ch.sent

Full_NoSpare(ch)  == Len(ch.sent) + Len(ch.ready) + ch.freed = QueueCapacity - 1
Full_OffByOne(ch) == Len(ch.sent) + Len(ch.ready) + ch.freed = QueueCapacity + 1

(* To its producer a channel is full until it has seen an item leave.      *)
Full(ch)  == Len(ch.sent) + Len(ch.ready) + ch.freed = QueueCapacity
Empty(ch) == ch.ready = <<>>

Pushed(ch, item) == [ch EXCEPT !.sent = Append(@, item)]
Popped(ch)       == [sent |-> ch.sent, ready |-> Tail(ch.ready), freed |-> ch.freed + 1]

(* What ch may become when the other side's stores become visible.         *)
Arrivals(ch) ==
  {[sent  |-> SubSeq(ch.sent, n + 1, Len(ch.sent)),
    ready |-> ch.ready \o SubSeq(ch.sent, 1, n),
    freed |-> ch.freed] : n \in 1 .. Len(ch.sent)}
Returns(ch) == {[ch EXCEPT !.freed = n] : n \in 0 .. ch.freed - 1}
=============================================================================
