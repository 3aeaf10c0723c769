---------------------------- MODULE MCKnowledge ----------------------------
(***************************************************************************)
(* Instances of Knowledge for TLC: subjects, clients and ids are model     *)
(* values.                                                                 *)
(***************************************************************************)
EXTENDS Knowledge

\* The stores share nothing but the cleanup job: one at a time.
Separately == {Queries, Facts}

CONSTANTS q1, q2, f1, c1, c2, s1, m1
=============================================================================
