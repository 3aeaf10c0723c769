------------------------------ MODULE MCScraper ------------------------------
(***************************************************************************)
(* Instances of Scraper for TLC: two calls that meet on host A, one of     *)
(* them with a URL that has no host and one that the cap leaves out; b1    *)
(* may redirect to a2, which is disallowed.                                *)
(***************************************************************************)
EXTENDS Scraper, TLC

CONSTANTS k1, k2, a1, a2, b1, x1

Hosted == a1 :> "A" @@ a2 :> "A" @@ b1 :> "B" @@ x1 :> "no host"
Leading == a1 :> {} @@ a2 :> {} @@ b1 :> {a2} @@ x1 :> {}
Wanted == k1 :> <<a1, b1>> @@ k2 :> <<x1, a1, a2, b1>>
=============================================================================
