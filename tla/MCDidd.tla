------------------------------- MODULE MCDidd -------------------------------
(* Instances of Didd for TLC. *)
EXTENDS Didd, TLC

CONSTANTS a1, a2, dimaint, c1, c2

\* Adapters are interchangeable, and so are clients.
SymDidd == Permutations({a1, a2}) \cup Permutations({c1, c2})
=============================================================================
