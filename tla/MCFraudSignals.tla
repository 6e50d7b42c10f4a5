--------------------------- MODULE MCFraudSignals ---------------------------
(* An instance of FraudSignals for TLC: uma invites vic, and both use one card. *)
EXTENDS FraudSignals

CONSTANTS uma, vic

Fact(kind, user, self, ip, code, card) ==
    [kind |-> kind, user |-> user, self |-> self, ip |-> ip, code |-> code, card |-> card]
MCFacts == [
    join_vic |-> Fact("registered", vic, TRUE, "i", "cu", None),
    paid_uma |-> Fact("paid", uma, FALSE, None, None, "c"),
    refund_uma |-> Fact("refund", uma, FALSE, None, None, "c"),
    paid_vic |-> Fact("paid", vic, FALSE, None, None, "c")]
MCReports == DOMAIN MCFacts
MCCodeOwner == [cu |-> uma]
=============================================================================
