---------------------------- MODULE RewardTerms ----------------------------
(***************************************************************************)
(* What a sale earns whom: the reward configuration of one tenant, the     *)
(* form of the admin console that edits it, the server that accepts or     *)
(* refuses what the form sends, and the computation of the rewards from    *)
(* what is stored.                                                         *)
(*                                                                         *)
(* The form keeps a text; what it shows is parsed from the text after      *)
(* every edit, and an edit writes the text anew.  Saving sends the text.   *)
(* A numeral is its whole part and its fraction digits.                    *)
(***************************************************************************)
EXTENDS Integers, Sequences, SequencesExt

CONSTANTS
    Values,     \* numerals an admin types into a tier, with any digits
    Blank,      \* ... or leaves out
    Junk,       \* ... or any other text
    ApiTerms,   \* configurations another client of the admin API stores
    Amounts,    \* amounts of sales, in minor units
    Families,   \* who referred the buyer: see EffectiveChain
    MaxTiers,   \* bound: tiers in the form
    None        \* no user

VARIABLES
    saved,      \* tenantConfig.rewardConfig
    text        \* tenantConfigDrafts.rewardConfig, as the form has it

vars == <<saved, text>>

Zero == [whole |-> 0, frac |-> <<>>]
ApiValues == UNION {{c.tiers[i].value : i \in DOMAIN c.tiers} : c \in ApiTerms}
Tier == [depth : 1..10, type : {"percent", "flat"},
         value : Values \cup ApiValues \cup {Blank, Junk, Zero}, enabled : BOOLEAN]

\* A new tenant has no terms; "made" records who wrote them.
NoTerms == [enabled |-> FALSE, tiers |-> <<>>, made |-> "api"]

Terms == [enabled : BOOLEAN, made : {"api", "form"}, tiers : Seq(Tier)]

Init == saved = NoTerms /\ text = NoTerms

-----------------------------------------------------------------------------
(* The form.                                                               *)

\* What the form shows of a text: its rows are numbered anew.
ToDraft(c) ==
    [c EXCEPT !.tiers = [i \in DOMAIN c.tiers |->
        [c.tiers[i] EXCEPT !.depth = i,
                           !.value = IF @ = Blank THEN Zero ELSE @]]]

Reindexed(tiers) == [i \in DOMAIN tiers |-> [tiers[i] EXCEPT !.depth = i]]

\* Every edit rewrites the text from the draft.
Push(draft) ==
    /\ text' = [draft EXCEPT !.tiers = Reindexed(@), !.made = "form"]
    /\ UNCHANGED saved

Draft == ToDraft(text)

SwitchProgramme == Push([Draft EXCEPT !.enabled = ~@])

AddTier ==
    /\ Len(Draft.tiers) < MaxTiers
    /\ Push([Draft EXCEPT !.tiers = Append(@,
           [depth |-> Len(@) + 1, type |-> "percent", value |-> Zero,
            enabled |-> \A i \in DOMAIN @ : @[i].enabled])])

\* The row numbered d goes, which the draft has in place d; the others close up.
DeleteTier(d) == Push([Draft EXCEPT !.tiers = Reindexed(RemoveAt(@, d))])

UpdateTier(d, type, value) ==
    Push([Draft EXCEPT !.tiers = [i \in DOMAIN @ |->
        IF @[i].depth = d THEN [@[i] EXCEPT !.type = type, !.value = value]
                          ELSE @[i]]])

SetTierEnabled(d, enabled) ==
    Push([Draft EXCEPT !.tiers = [i \in DOMAIN @ |->
        IF @[i].depth >= d THEN [@[i] EXCEPT !.enabled = enabled] ELSE @[i]]])

\* The tenants are loaded again and with them the text of the form.
Reload ==
    /\ text' = saved
    /\ UNCHANGED saved

-----------------------------------------------------------------------------
(* The server.                                                             *)

Accepted(c) ==
    /\ c.tiers # <<>>
    /\ \A i \in DOMAIN c.tiers :
          /\ c.tiers[i].depth \in 1..10
          /\ c.tiers[i].value \notin {Blank, Junk}
          /\ Len(c.tiers[i].value.frac) \in 0..4

Store(c) ==
    /\ Accepted(c)
    /\ saved' = c
    /\ UNCHANGED text

Save == Store(text)

-----------------------------------------------------------------------------
(* The computation.                                                        *)

\* The first n digits of a fraction, padded with zeros, as a number.
Padded(frac, n) ==
    LET number[k \in 0..n] ==
            IF k = 0 THEN 0
            ELSE number[k - 1] * 10 + IF k <= Len(frac) THEN frac[k] ELSE 0
    IN  number[n]

ParseMoneyToMinor(v) == v.whole * 100 + Padded(v.frac, 2)
ParsePercentScaled(v) == v.whole * 10000 + Padded(v.frac, 4)

ApplyTier(amount, tier) ==
    IF tier.type = "flat" THEN ParseMoneyToMinor(tier.value)
    ELSE (amount * ParsePercentScaled(tier.value)) \div 1000000

\* The buyer's ancestors: the rows of the ancestry in the order of their
\* depth, then from the last of them the members' sources, no user twice.
EffectiveChain(f, maxDepth) ==
    LET rows == [d \in 1..Len(f.ancestors) |-> [to |-> f.ancestors[d], depth |-> d]]
        explicit == SelectSeq(rows,
            LAMBDA r : r.depth <= maxDepth /\ r.to # f.buyer)
        last(s) == IF s = <<>> THEN [to |-> f.buyer, depth |-> 0] ELSE Last(s)
        chain[n \in 0..maxDepth] ==
            IF n = 0 THEN explicit
            ELSE LET found == chain[n - 1]
                     next == f.source[last(found).to]
                 IN IF \/ last(found).depth >= maxDepth
                       \/ next = None
                       \/ next \in {f.buyer} \cup {r.to : r \in ToSet(found)}
                    THEN found
                    ELSE Append(found, [to |-> next, depth |-> last(found).depth + 1])
    IN ToSet(chain[maxDepth])

\* The first of some tiers, if there is one.
FirstTier(c, fit) == {c.tiers[i] : i \in {i \in fit : \A j \in fit : i <= j}}

\* Mutant of TierOf: a tier that is switched off counts.
AnyTierOf(c, depth) == FirstTier(c, {i \in DOMAIN c.tiers : c.tiers[i].depth = depth})

TierOf(c, depth) ==
    FirstTier(c, {i \in DOMAIN c.tiers : c.tiers[i].depth = depth /\ c.tiers[i].enabled})

\* The reward consumer and computeRewards, for a sale of a triggering type.
ComputeRewards(c, f, amount) ==
    LET reach == IF Len(c.tiers) > 3 THEN Len(c.tiers) ELSE 3
        ancestors == {r \in EffectiveChain(f, reach) :
                         f.home[r.to] = f.home[f.buyer]}
    IN IF ~Accepted(c) \/ ~c.enabled THEN {}
       ELSE UNION {{[to |-> r.to, depth |-> r.depth, amount |-> ApplyTier(amount, t)] :
                       t \in {t \in TierOf(c, r.depth) : ApplyTier(amount, t) > 0}} :
                   r \in ancestors}

Next ==
    \/ SwitchProgramme
    \/ AddTier
    \/ \E d \in 1..MaxTiers :
          \/ d \in DOMAIN Draft.tiers /\ DeleteTier(d)
          \/ /\ d \in DOMAIN Draft.tiers
             /\ \E type \in {"percent", "flat"}, value \in Values \cup {Blank, Junk} :
                   UpdateTier(d, type, value)
          \/ /\ d \in DOMAIN Draft.tiers
             /\ \E enabled \in BOOLEAN : SetTierEnabled(d, enabled)
    \/ Reload
    \/ Save
    \/ \E c \in ApiTerms : Store(c)

Spec == Init /\ [][Next]_vars

-----------------------------------------------------------------------------
(* Properties.                                                             *)

\* Configuration and text are of their type.
TypeOK ==
    /\ {saved, text} \subseteq Terms
    /\ Len(saved.tiers) <= MaxTiers /\ Len(text.tiers) <= MaxTiers

\* The number a numeral stands for, in units of one ten thousandth, from the
\* place of each digit.
Units(v) ==
    v.whole * 10000 +
    (IF Len(v.frac) >= 1 THEN v.frac[1] * 1000 ELSE 0) +
    (IF Len(v.frac) >= 2 THEN v.frac[2] * 100 ELSE 0) +
    (IF Len(v.frac) >= 3 THEN v.frac[3] * 10 ELSE 0) +
    (IF Len(v.frac) >= 4 THEN v.frac[4] ELSE 0)

\* n is the largest whole number with n * unit <= total.
IsFloor(n, total, unit) == n * unit <= total /\ total < (n + 1) * unit

\* When the form has written the terms and shows them, a sale pays exactly
\* the rows the form shows: the row numbered d pays its percentage or its sum,
\* rounded down, to the buyer's ancestor at that depth if he is a member of
\* the same tenant, a row that is switched off pays nobody, and nobody else is
\* paid (reward-config.ts, tenants.controller.ts updateConfig, RewardConsumer
\* .processEvent and RewardService.computeRewards).
PaysWhatTheFormShows ==
    saved.made = "form" /\ text = saved =>
        \A f \in Families, amount \in Amounts :
            LET paid == ComputeRewards(saved, f, amount)
                shown(d) == d \in DOMAIN Draft.tiers /\ Draft.tiers[d].enabled
            IN /\ \A p \in paid :
                     /\ saved.enabled /\ shown(p.depth)
                     /\ f.at[p.depth] = p.to
                     /\ LET t == Draft.tiers[p.depth]
                        IN IF t.type = "flat"
                           THEN IsFloor(p.amount, Units(t.value), 100)
                           ELSE IsFloor(p.amount, amount * Units(t.value), 1000000)
               /\ \A d \in DOMAIN f.at :
                     (saved.enabled /\ shown(d) /\ f.at[d] # None) =>
                        LET t == Draft.tiers[d]
                            due == IF t.type = "flat" THEN Units(t.value) >= 100
                                   ELSE amount * Units(t.value) >= 1000000
                        IN due => \E p \in paid : p.depth = d /\ p.to = f.at[d]
=============================================================================
