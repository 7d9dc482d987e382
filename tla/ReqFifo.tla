------------------------------- MODULE ReqFifo ------------------------------
(***************************************************************************)
(* What the request path of the XDI driver promises, without its tables:   *)
(* requests are served in the order they were made, a request that needs   *)
(* several buffers takes turns with the others, and a client is told of    *)
(* the completion of a request that is not in the queue any more.          *)
(***************************************************************************)
EXTENDS Sequences, Naturals

CONSTANT Client

VARIABLES queue,    \* the clients whose request waits for the card
          owed      \* the clients that wait for an answer

InQueue(e) == \E k \in 1..Len(queue) : queue[k] = e

Init == queue = <<>> /\ owed = {}

\* A client makes a request; with no room for it, it is never served.
Ask(e) ==
    /\ e \notin owed /\ ~InQueue(e)
    /\ owed' = owed \cup {e}
    /\ queue' \in {queue, Append(queue, e)}

\* The oldest request is passed on, whole ...
Serve == queue # <<>> /\ queue' = Tail(queue) /\ UNCHANGED owed

\* ... or in part, and queues up again.
Rotate ==
    /\ queue # <<>> /\ queue' = Append(Tail(queue), Head(queue))
    /\ UNCHANGED owed

\* A client is told of the end of its request.
Complete(e) ==
    /\ e \in owed /\ ~InQueue(e)
    /\ owed' = owed \ {e} /\ UNCHANGED queue

Next == (\E e \in Client : Ask(e) \/ Complete(e)) \/ Serve \/ Rotate

Spec == Init /\ [][Next]_<<queue, owed>>
=============================================================================
