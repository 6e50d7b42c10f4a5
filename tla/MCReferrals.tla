---------------------------- MODULE MCReferrals ----------------------------
(* Instances of Referrals for TLC.                                         *)
EXTENDS Referrals, TLC

\* Users are interchangeable, and so are callers.
Symmetry == Permutations(Users) \cup Permutations(Callers)
=============================================================================
