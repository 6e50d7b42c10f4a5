----------------------------- MODULE CreditBank -----------------------------
(***************************************************************************)
(* What a wallet promises, in one atomic step per operation: Credits are   *)
(* issued, set aside for a purchase or a payout, and what was set aside is *)
(* then either spent or given back, once.                                  *)
(***************************************************************************)
EXTENDS Integers

CONSTANTS Holds,        \* purchases and payouts
          Deltas,       \* Credits issued at once; a reversal is negative
          Sizes         \* Credits a hold may set aside

VARIABLES issued,       \* Credits ever issued
          balance,      \* Credits free to be set aside
          stage,        \* "free", "held", "spent" or "returned"
          amount        \* Credits set aside for each hold

bankVars == <<issued, balance, stage, amount>>

Init ==
    /\ issued = 0
    /\ balance = 0
    /\ stage = [h \in Holds |-> "free"]
    /\ amount = [h \in Holds |-> 0]

Issue ==
    \E d \in Deltas :
        /\ issued' = issued + d
        /\ balance' = balance + d
        /\ UNCHANGED <<stage, amount>>

SetAside(h) ==
    \E a \in Sizes :
        /\ stage[h] = "free"
        /\ stage' = [stage EXCEPT ![h] = "held"]
        /\ amount' = [amount EXCEPT ![h] = a]
        /\ balance' = balance - a
        /\ UNCHANGED issued

Spend(h) ==
    /\ stage[h] = "held"
    /\ stage' = [stage EXCEPT ![h] = "spent"]
    /\ UNCHANGED <<issued, balance, amount>>

GiveBack(h) ==
    /\ stage[h] = "held"
    /\ stage' = [stage EXCEPT ![h] = "returned"]
    /\ balance' = balance + amount[h]
    /\ UNCHANGED <<issued, amount>>

Next == Issue \/ \E h \in Holds : SetAside(h) \/ Spend(h) \/ GiveBack(h)

Spec == Init /\ [][Next]_bankVars
=============================================================================
