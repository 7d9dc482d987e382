------------------------------- MODULE MsgFifo ------------------------------
(***************************************************************************)
(* What a queue of messages promises, without its ring: messages leave in  *)
(* the order they entered, and one that is not complete holds up those     *)
(* behind it.                                                              *)
(***************************************************************************)
EXTENDS Sequences, Naturals

CONSTANT Sizes

VARIABLE fifo       \* the messages: size, and whether it is complete

Init == fifo = <<>>

\* Allocated, and possibly complete at once.
Put(size, done) == fifo' = Append(fifo, [size |-> size, done |-> done])

Finish(k) == ~fifo[k].done /\ fifo' = [fifo EXCEPT ![k] = [size |-> @.size, done |-> TRUE]]

Get == fifo # <<>> /\ fifo[1].done /\ fifo' = Tail(fifo)

Next ==
    \/ \E size \in Sizes, done \in BOOLEAN : Put(size, done)
    \/ \E k \in 1..Len(fifo) : Finish(k)
    \/ Get

Spec == Init /\ [][Next]_fifo
=============================================================================
