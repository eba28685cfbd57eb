------------------------- MODULE MCQuarantineReview -------------------------
(***************************************************************************)
(* Instances of QuarantineReview for TLC: two records, one with two types  *)
(* of indicators, so that a partial release exists, and one with a single  *)
(* type, for which the same selection is a full release or is refused.     *)
(***************************************************************************)
EXTENDS QuarantineReview, TLC

CONSTANTS g1, r1, r2, c1, q1, q2, hash, url

MCHolds == (q1 :> {hash, url}) @@ (q2 :> {url})
MCHoldsOne == q1 :> {hash, url}

RequestSymmetry == Permutations({r1, r2})
=============================================================================
