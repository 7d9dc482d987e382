------------------------------- MODULE MCUmIdi ------------------------------
(* Instances of UmIdi for TLC. *)
EXTENDS UmIdi

CONSTANTS x, y
=============================================================================
