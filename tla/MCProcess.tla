------------------------------ MODULE MCProcess ------------------------------
(***************************************************************************)
(* Instances of Process for TLC: two processes on one data directory.      *)
(***************************************************************************)
EXTENDS Process

CONSTANTS p1, p2
=============================================================================
