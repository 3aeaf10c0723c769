------------------------------- MODULE Tiers -------------------------------
(***************************************************************************)
(* The tier rules that the search cache, the scrape cache and memory share *)
(* (tier.go, freshEnough of searchcache.go, rememberTier of server.go).    *)
(*                                                                         *)
(* expires_at is kept relative to now, as the ticks that are left: Never   *)
(* is NULL and Expired anything in the past.  A hit count is told apart    *)
(* only up to the promotion threshold.                                     *)
(***************************************************************************)
EXTENDS Integers

CONSTANTS
  ShortTTL, LongTTL,   \* TierConfig, in ticks
  PromoteAfterHits

ASSUME TiersAssumption ==
  /\ ShortTTL \in Nat /\ LongTTL \in Nat
  /\ ShortTTL <= LongTTL
  /\ PromoteAfterHits \in Nat \ {0}

\* "miscased" is any tier name the switches of tier.go do not know.
TierNames == {"short", "long", "permanent", "miscased"}
\* What a caller may send as remember; "absent" is none, or not a known word.
RememberValues == TierNames \cup {"off", "absent"}

Expired == -1
Never == LongTTL + 1
Lefts == Expired .. Never

tierTTL(tier) == IF tier = "long" THEN LongTTL ELSE ShortTTL

\* Mutant: the hit before the threshold promotes already.
MutPromote(tier, hits) ==
  IF tier = "short" /\ hits + 1 >= PromoteAfterHits THEN "long" ELSE tier

promote(tier, hits) ==
  IF tier = "short" /\ hits >= PromoteAfterHits THEN "long" ELSE tier

nextExpiry(tier, hits) ==
  LET new == promote(tier, hits)
  IN [tier |-> new, left |-> IF new = "permanent" THEN Never ELSE tierTTL(new)]

\* Mutant: an unknown word is taken for a tier.
MutNormalizeTier(v) == v

\* The default, remember_default, is "short".
normalizeTier(v) == IF v \in {"short", "long", "permanent"} THEN v ELSE "short"

\* rememberTier compares the lower-cased word but returns the caller's own.
rememberTier(v) == IF v = "absent" THEN "short" ELSE v

\* freshEnough without a max_age: a row that expires right now still counts.
Fresh(left) == left # Expired

IncHits(n) == IF n < PromoteAfterHits THEN n + 1 ELSE n
Older(left) == IF left \in {Expired, Never} THEN left ELSE left - 1
=============================================================================
