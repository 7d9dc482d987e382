-------------------------------- MODULE DList -------------------------------
(***************************************************************************)
(* The doubly linked lists of kernel/dlist.c, which hold the entities,     *)
(* queues and free lists of most drivers.  A link is part of the element,  *)
(* so that an element is in one list at a time.                            *)
(*                                                                         *)
(* diva_q_remove does not search: it tells the head by a link without      *)
(* predecessor and the tail by one without successor.                      *)
(***************************************************************************)
EXTENDS Naturals, FiniteSets, Sequences

CONSTANTS
    Elem,           \* elements, each with its link
    Queue,          \* lists
    Null            \* the null pointer

ConstantsOK == Null \notin Elem /\ IsFiniteSet(Elem)

VARIABLES
    head, tail,     \* of every list
    prev, next      \* of every element

vars == <<head, tail, prev, next>>

Ptr == Elem \cup {Null}

Init ==
    /\ head = [q \in Queue |-> Null] /\ tail = [q \in Queue |-> Null]
    /\ prev = [e \in Elem |-> Null] /\ next = [e \in Elem |-> Null]

\* The elements of a list in the order of the links, from head on: the walk
\* of diva_q_find.  A ring of links would give more than there are.
Walk(q) ==
    LET at[n \in 1..Cardinality(Elem) + 1] ==
            IF n = 1 THEN head[q]
            ELSE LET e == at[n - 1] IN IF e = Null THEN Null ELSE next[e]
        found == {n \in DOMAIN at : at[n] # Null}
    IN  [n \in 1..Cardinality(found) |-> at[n]]

InList(q) == {Walk(q)[i] : i \in 1..Len(Walk(q))}
Loose == Elem \ UNION {InList(q) : q \in Queue}

-----------------------------------------------------------------------------

AddTail(q, what) ==
    /\ next' = [next EXCEPT ![what] = Null,
                            ![IF head[q] = Null THEN what ELSE tail[q]] =
                                IF head[q] = Null THEN Null ELSE what]
    /\ prev' = [prev EXCEPT ![what] = IF head[q] = Null THEN Null ELSE tail[q]]
    /\ head' = [head EXCEPT ![q] = IF @ = Null THEN what ELSE @]
    /\ tail' = [tail EXCEPT ![q] = what]

diva_q_add_tail(q, what) == what \in Loose /\ AddTail(q, what)

\* Mutant: the new element is put behind the successor.
OneTooFar(q, after, what) ==
    LET e == next[after]
    IN  /\ next' = [next EXCEPT ![what] = next[e], ![e] = what]
        /\ prev' = [x \in Elem |-> IF x = what THEN e
                                   ELSE IF x = next[e] THEN what ELSE prev[x]]
        /\ tail' = [tail EXCEPT ![q] = IF @ = e THEN what ELSE @]
        /\ UNCHANGED head

\* Mutant: the new element is not told to its successor.
OneWay(q, after, what) ==
    /\ next' = [next EXCEPT ![what] = next[after], ![after] = what]
    /\ prev' = [prev EXCEPT ![what] = after]
    /\ UNCHANGED <<head, tail>>

\* Between after and its successor.
Between(q, after, what) ==
    /\ next' = [next EXCEPT ![what] = next[after], ![after] = what]
    /\ prev' = [prev EXCEPT ![what] = after, ![next[after]] = what]
    /\ UNCHANGED <<head, tail>>

diva_q_insert_after(q, after, what) ==
    /\ what \in Loose /\ after \in InList(q) \cup {Null}
    /\ IF after = Null THEN AddTail(q, what)
       ELSE IF next[after] = Null THEN AddTail(q, what)
       ELSE Between(q, after, what)

\* Mutant: the list goes on behind the element that was the first.
Overtaken(q, before, what) ==
    /\ head' = [head EXCEPT ![q] = what]
    /\ prev' = [prev EXCEPT ![what] = Null, ![before] = what]
    /\ next' = [next EXCEPT ![what] = next[before]]
    /\ UNCHANGED tail

\* Before the first element.
AtHead(q, before, what) ==
    /\ head' = [head EXCEPT ![q] = what]
    /\ prev' = [prev EXCEPT ![what] = Null, ![before] = what]
    /\ next' = [next EXCEPT ![what] = before]
    /\ UNCHANGED tail

diva_q_insert_before(q, before, what) ==
    /\ what \in Loose /\ before \in InList(q) \cup {Null}
    /\ IF before = Null THEN AddTail(q, what)
       ELSE IF prev[before] = Null THEN AtHead(q, before, what)
       ELSE Between(q, prev[before], what)

Unlink(q, what) ==
    /\ head' = [head EXCEPT ![q] = IF prev[what] = Null THEN next[what] ELSE @]
    /\ tail' = [tail EXCEPT ![q] = IF next[what] = Null THEN prev[what] ELSE @]
    /\ next' = [e \in Elem |-> IF e = what THEN Null
                               ELSE IF e = prev[what] THEN next[what] ELSE next[e]]
    /\ prev' = [e \in Elem |-> IF e = what THEN Null
                               ELSE IF e = next[what] THEN prev[what] ELSE prev[e]]

diva_q_remove(q, what) == what \in InList(q) /\ Unlink(q, what)

Next ==
    \E q \in Queue, what \in Elem :
        \/ diva_q_add_tail(q, what)
        \/ \E e \in Ptr : diva_q_insert_after(q, e, what)
        \/ \E e \in Ptr : diva_q_insert_before(q, e, what)
        \/ diva_q_remove(q, what)

Spec == Init /\ [][Next]_vars

-----------------------------------------------------------------------------
(* Properties *)

\* The links backwards agree with those forwards, the tail is the last
\* element, no element is met twice or in two lists, and one that is in none
\* has no links: what diva_q_remove decides by (dlist.c:50-63).
WellLinked ==
    /\ \A q \in Queue :
          LET w == Walk(q)
          IN  /\ Cardinality(InList(q)) = Len(w)
              /\ \A i \in 1..Len(w) : prev[w[i]] = IF i = 1 THEN Null ELSE w[i - 1]
              /\ tail[q] = IF w = <<>> THEN Null ELSE w[Len(w)]
    /\ \A p, q \in Queue : p # q => InList(p) \cap InList(q) = {}
    /\ \A e \in Loose : prev[e] = Null /\ next[e] = Null

\* The lists are sequences: an element enters or leaves at one place, and
\* nothing else moves (dlist.c:48-122) ...
Lists == INSTANCE ListSpec WITH list <- [q \in Queue |-> Walk(q)]
ListsAreSequences == Lists!Spec

\* ... and the place is the one that the operation names: behind the last
\* element, or next to the one it was given (dlist.c:69-122).
Place(q, e) == CHOOSE i \in 1..Len(Walk(q)) : Walk(q)[i] = e
AtItsPlace(q, e, what) ==
    /\ diva_q_add_tail(q, what) => Lists!Insert(q, Len(Walk(q)), what)
    /\ e # Null /\ diva_q_insert_after(q, e, what) => Lists!Insert(q, Place(q, e), what)
    /\ e # Null /\ diva_q_insert_before(q, e, what) =>
          Lists!Insert(q, Place(q, e) - 1, what)
AllInPlace == \A q \in Queue, e \in Ptr, what \in Elem : AtItsPlace(q, e, what)
InPlace == [][AllInPlace]_vars
=============================================================================
