--------------------------- MODULE MCWalletHistory ---------------------------
(* An account with one checkout and one payout, and any two requests at    *)
(* once: either slot runs any handler.                                     *)
EXTENDS WalletHistory, TLC

CONSTANTS s1, s2

\* One Credit at a time: a reward or top-up, and a reversal.
MCDeltas == {-1, 1}

Slots == Permutations({s1, s2})
=============================================================================
