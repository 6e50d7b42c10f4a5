-------------------------- MODULE MCRewardPosting --------------------------
(* Instances of RewardPosting for TLC.                                     *)
EXTENDS RewardPosting, TLC

\* Scheduler loops are interchangeable, and so are message handlers.
Symmetry == Permutations(Schedulers) \cup Permutations(Consumers)
=============================================================================
