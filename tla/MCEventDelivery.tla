-------------------------- MODULE MCEventDelivery --------------------------
(* Instances of EventDelivery for TLC: a refund and its purchase.          *)
EXTENDS EventDelivery, TLC

CONSTANTS purchase, refund

MCEvents == {purchase, refund}
MCParent == (refund :> purchase) @@ (purchase :> None)
=============================================================================
