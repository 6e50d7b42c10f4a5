-------------------------- MODULE MCWalletCredits --------------------------
(* Instances of WalletCredits for TLC.                                     *)
EXTENDS WalletImplementsBank, TLC

\* One Credit at a time: a reward or top-up, and a reversal.
MCUnitDeltas == {-1, 1}
=============================================================================
