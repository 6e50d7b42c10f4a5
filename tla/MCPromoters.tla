---------------------------- MODULE MCPromoters ----------------------------
(* Instances of Promoters for TLC: both edges are of one referrer.         *)
EXTENDS Promoters, TLC

CONSTANTS alice, first, second

MCReferrer == (first :> alice) @@ (second :> alice)
=============================================================================
