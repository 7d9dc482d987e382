------------------------------ MODULE ListSpec ------------------------------
(***************************************************************************)
(* What lists of elements promise, without links.                          *)
(***************************************************************************)
EXTENDS Naturals, Sequences

CONSTANTS Elem, Queue

VARIABLE list       \* the sequence of elements of every list

Init == list = [q \in Queue |-> <<>>]

Absent(e) == \A q \in Queue : \A i \in 1..Len(list[q]) : list[q][i] # e

\* e becomes the element number i + 1 of a list.
Insert(q, i, e) ==
    /\ Absent(e)
    /\ list' = [list EXCEPT ![q] = SubSeq(@, 1, i) \o <<e>> \o SubSeq(@, i + 1, Len(@))]

Remove(q, i) ==
    list' = [list EXCEPT ![q] = SubSeq(@, 1, i - 1) \o SubSeq(@, i + 1, Len(@))]

Next ==
    \E q \in Queue :
        \/ \E e \in Elem, i \in 0..Len(list[q]) : Insert(q, i, e)
        \/ \E i \in 1..Len(list[q]) : Remove(q, i)

Spec == Init /\ [][Next]_list
=============================================================================
