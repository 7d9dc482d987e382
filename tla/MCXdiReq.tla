------------------------------ MODULE MCXdiReq ------------------------------
(* Instances of XdiReq for TLC. *)
EXTENDS XdiReq, TLC

CONSTANTS n1, n2, s1, i1, i2, c1, c2

NoOwner  == [c \in {} |-> n1]
OneOwner == [c \in {c1} |-> n1]
TwoOwner == [c \in {c1, c2} |-> n1]

\* Entities of the same kind are interchangeable, and so are the card's Ids.
SymTable == Permutations({n1, n2}) \cup Permutations({i1, i2})

\* Channels of one entity are interchangeable.
SymChan == Permutations({c1, c2})
=============================================================================
