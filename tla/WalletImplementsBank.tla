------------------------ MODULE WalletImplementsBank ------------------------
(***************************************************************************)
(* The refinement mapping from the statements of WalletCredits to the      *)
(* atomic operations of CreditBank.  A reservation takes effect when its   *)
(* row is created, a release when its row's status is written; until the   *)
(* grants follow, the mapping counts what is still to be drained and what  *)
(* has been restored too early.                                            *)
(***************************************************************************)
EXTENDS WalletCredits

Pending(w) == at[w].pc \in {"allocate", "drain"}

\* What a reservation has still to drain, and a release has restored so far.
ToDrain(w) == IF Pending(w) THEN SumFunction(at[w].todo) ELSE 0
RestoredSoFar(w) ==
    IF at[w].pc = "restore"
    THEN SumFunction(alloc[at[w].hold]) - SumFunction(at[w].todo) ELSE 0

\* What is free to be set aside, whatever slots have drained or restored of it.
Float(w) == ToDrain(w) + RestoredSoFar(w)
FreeBalance ==
    SumFunction(remaining) - SumFunction([w \in Handlers |-> Float(w)])

\* Credits of a hold: its allocation rows and those its reservation will create.
Planned(h, g) == {at[w].todo[g] : w \in {v \in Handlers : Pending(v) /\ at[v].hold = h}}
HoldCredits(h, g) == Max({alloc[h][g]} \cup Planned(h, g))
HoldAmount(h) == SumFunction([g \in Grants |-> HoldCredits(h, g)])

Stage(h) ==
    CASE row[h] = "absent" -> "free"
      [] row[h] = "reserved" -> "held"
      [] row[h] \in {"posted", "sent"} -> "spent"
      [] row[h] = "released" -> "returned"

Bank == INSTANCE CreditBank WITH
    issued <- SumFunction(issued),
    balance <- FreeBalance,
    stage <- [h \in Holds |-> Stage(h)],
    amount <- [h \in Holds |-> HoldAmount(h)],
    Sizes <- UNION {1..a : a \in Amounts}
=============================================================================
