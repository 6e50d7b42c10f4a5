------------------------- MODULE MCWebhookDelivery -------------------------
(* Instances of WebhookDelivery for TLC.                                   *)
EXTENDS WebhookDelivery, TLC

\* Rows are interchangeable, and so are dispatcher loops.
Symmetry == Permutations(Rows) \cup Permutations(Dispatchers)
=============================================================================
