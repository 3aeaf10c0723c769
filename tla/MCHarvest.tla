------------------------------ MODULE MCHarvest ------------------------------
(***************************************************************************)
(* Instances of Harvest for TLC: two requests with a term in common.       *)
(***************************************************************************)
EXTENDS Harvest, TLC

CONSTANTS q1, q2, google, bing, t1, t2, u1, u2

Asked == q1 :> <<t1>> @@ q2 :> <<t1, t2>>
Order == <<google, bing>>
Found == google :> {u1} @@ bing :> {}
=============================================================================
