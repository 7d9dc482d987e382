------------------------------- MODULE CmdFifo ------------------------------
(***************************************************************************)
(* What the queue of commands of a PLCI promises, without its ring:        *)
(* commands leave in the order the applications gave them, and one whose   *)
(* application is gone keeps its place.                                    *)
(***************************************************************************)
EXTENDS Sequences, Naturals

CONSTANTS Lens, Appls, NoAppl

VARIABLE fifo       \* the commands: length and application

Init == fifo = <<>>

Put(len, appl) == fifo' = Append(fifo, [len |-> len, appl |-> appl])

Get == fifo # <<>> /\ fifo' = Tail(fifo)

Clear == fifo' = <<>>

Forget(appl) ==
    fifo' = [k \in DOMAIN fifo |->
                IF fifo[k].appl = appl THEN [fifo[k] EXCEPT !.appl = NoAppl]
                ELSE fifo[k]]

Next ==
    \/ \E len \in Lens, appl \in Appls : Put(len, appl)
    \/ Get \/ Clear
    \/ \E appl \in Appls : Forget(appl)

Spec == Init /\ [][Next]_fifo
=============================================================================
