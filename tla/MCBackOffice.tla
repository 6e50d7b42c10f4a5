---------------------------- MODULE MCBackOffice ----------------------------
(* An instance of each part of BackOffice for TLC.                         *)
EXTENDS BackOffice, TLC

CONSTANTS x, y, uma, vic, buyer, anna, bert, root, h1, h2

Two == {h1, h2}
Symmetry == Permutations(Two)
JustX == {x}
JustY == {y}
JustUma == {uma}
JustOne == {1}
UmaAndVic == {uma, vic}

\* AdminConsole
PageRows == {x, y}
PageAnswers ==
    [p \in {"users", "fraud", "promoters", "settlements", "webhooks", "tenants"} |->
        IF p = "tenants" THEN {<<x>>, <<x, y>>} ELSE {<<>>, <<x>>, <<y>>, <<x, y>>}]
PageTours ==
    {{"users", "tenants"}, {"fraud"}, {"webhooks"}, {"promoters"}, {"settlements"}}

\* Books
Adjust(user, currency, amount) ==
    [user |-> user, currency |-> currency, amount |-> amount]
Asked == {Adjust(uma, x, 2), Adjust(vic, x, -1), Adjust(uma, y, 2)}

\* FraudSignals: uma invites vic, and both use one card.
Fact(kind, user, self, ip, code, card) ==
    [kind |-> kind, user |-> user, self |-> self, ip |-> ip, code |-> code, card |-> card]
MCFacts == [
    join_vic |-> Fact("registered", vic, TRUE, "i", "cu", None),
    paid_uma |-> Fact("paid", uma, FALSE, None, None, "c"),
    refund_uma |-> Fact("refund", uma, FALSE, None, None, "c"),
    paid_vic |-> Fact("paid", vic, FALSE, None, None, "c")]
MCReports == DOMAIN MCFacts
MCCodeOwner == [cu |-> uma]

\* Reporting
PaidAndOther == {"paid", "other"}

\* StripeAdapter
Object(kind, user, invoice, dispute, redemption) ==
    [kind |-> kind, user |-> user, link |-> None, invoice |-> invoice, expanded |-> FALSE,
     dispute |-> dispute, status |-> "lost", redemption |-> redemption]
MCContent == [
    expired |-> Object("expired", None, None, None, "r2"),
    paid |-> Object("paid", uma, "i", None, None),
    paid_j |-> Object("paid", vic, "j", None, None),
    refund |-> Object("refunded", None, "i", None, None),
    dispute |-> Object("disputed", None, "i", "d", None),
    lost |-> Object("closed", None, None, "d", None)]
MCStripeEvents == DOMAIN MCContent
MCInvoiceUser == [i |-> uma, j |-> vic]

\* RewardTerms
Numeral(whole, frac) == [whole |-> whole, frac |-> frac]
TwoAndHalf == Numeral(2, <<5>>)
AlmostTwo == Numeral(1, <<9, 9, 9>>)
Typed == {TwoAndHalf}
Sold == {1, 79, 1999}
Percent(depth, value, enabled) ==
    [depth |-> depth, type |-> "percent", value |-> value, enabled |-> enabled]
ByApi(tiers) == [enabled |-> TRUE, made |-> "api", tiers |-> tiers]
MCApiTerms ==
    {ByApi(<<Percent(2, AlmostTwo, TRUE)>>),
     ByApi(<<Percent(1, TwoAndHalf, FALSE), Percent(1, AlmostTwo, TRUE)>>)}
\* ancestors by referral, source of each user, and who is due at each depth.
Family(ancestors, source_, at_) ==
    [buyer |-> buyer, ancestors |-> ancestors, at |-> at_,
     source |-> [w \in {buyer, anna, bert, root} |->
                    IF w \in DOMAIN source_ THEN source_[w] ELSE None],
     home |-> [w \in {buyer, anna, bert, root} |-> IF w = root THEN "root" ELSE "shop"]]
MCFamilies ==
    {Family(<<anna, bert>>, [w \in {} |-> None], <<anna, bert, None>>),
     Family(<<anna>>, [w \in {anna} |-> bert], <<anna, bert, None>>),
     Family(<<anna, buyer>>, [w \in {anna} |-> root], <<anna, None, None>>),
     Family(<<>>, [w \in {buyer, anna} |-> IF w = buyer THEN anna ELSE buyer],
            <<anna, None, None>>)}

\* Calculations
Minors == {0, 1, 3, 50, 999}
EurRates == {0, 1, 166667, 500000, 900000, 1500000}
FourInstants == 1..4
=============================================================================
