------------------------------ MODULE MCXdiInd ------------------------------
(* Instances of XdiInd for TLC. *)
EXTENDS XdiInd

CONSTANTS a, b      \* Ids
=============================================================================
