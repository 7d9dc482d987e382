------------------------------- MODULE MCVidi -------------------------------
(* Instances of Vidi for TLC. *)
EXTENDS Vidi, TLC

CONSTANTS n1, n2, g1, i1, i2

\* The card's Ids are interchangeable, and entities of the same kind are.
SymIds == Permutations({i1, i2})
SymAll == SymIds \cup Permutations({n1, n2})
=============================================================================
