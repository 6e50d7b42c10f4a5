---------------------------- MODULE WalletHistory ----------------------------
(***************************************************************************)
(* WalletCredits with a record of where its handlers got in each other's   *)
(* way, and what holds of everything else.  The code runs the statements   *)
(* of a handler outside a transaction and nothing serialises handlers, so  *)
(* two can work on one hold, two reservations can plan to take from one    *)
(* grant, and one can die after its first write.  None of this is excluded *)
(* here; the properties say how far the damage reaches.                    *)
(***************************************************************************)
EXTENDS WalletImplementsBank

VARIABLES
    disturbed,  \* holds two handlers had at once, or one left half done
    contested   \* grants two reservations planned to take from at once

historyVars == <<vars, disturbed, contested>>

WorksOn(w, h) == Busy(w) /\ at[w].hold = h

\* Two handlers are at work on h.
Shared(h) == \E v, w \in Handlers : v # w /\ WorksOn(v, h) /\ WorksOn(w, h)

\* Labels between a handler's first write to its hold's rows and its last.
Midway == {"allocate", "drain", "restore", "close", "entry", "sent"}

\* Two running reservations have still to take from g.
Contended(g) ==
    \E v, w \in Handlers :
        /\ v # w /\ Pending(v) /\ Pending(w)
        /\ at[v].todo[g] > 0 /\ at[w].todo[g] > 0

\* A handler dies midway and leaves h half done.
LeftHalfDone(h) ==
    \E w \in Handlers : WorksOn(w, h) /\ at[w].pc \in Midway /\ Die(w)

HistoryInit == Init /\ disturbed = {} /\ contested = {}

HistoryNext ==
    /\ Next
    /\ disturbed' = disturbed \cup {h \in Holds : Shared(h)' \/ LeftHalfDone(h)}
    /\ contested' = contested \cup {g \in Grants : Contended(g)'}

HistorySpec == HistoryInit /\ [][HistoryNext]_historyVars

-----------------------------------------------------------------------------
(* Properties.                                                             *)

\* A grant that two reservations never planned to take from at once is never
\* drawn below what was in it, however many run: a positive grant stays at
\* zero or above, a reversal at its own amount (the decrement is unguarded).
NoOverdraft ==
    \A g \in Grants \ contested :
        remaining[g] >= IF issued[g] > 0 THEN 0 ELSE issued[g]

Held(h, g) == IF row[h] \in {"reserved", "posted", "sent"} THEN alloc[h][g] ELSE 0

\* Allocated but not yet drained, and given back by a release still running.
Undrained(w, g) == IF at[w].pc = "drain" /\ IsNext(w, g) THEN at[w].todo[g] ELSE 0
Restored(w, g) ==
    IF at[w].pc = "restore" THEN alloc[at[w].hold][g] - at[w].todo[g] ELSE 0

\* No disturbed hold took from g.
Sound(g) == \A h \in disturbed : alloc[h][g] = 0

\* Credits are conserved grant by grant through every step of every handler, but
\* for the grants a disturbed hold took from: what was issued is in the grant or
\* in a hold that has not been released.
CreditsConserved ==
    \A g \in Grants :
        Sound(g) =>
            issued[g] =
                remaining[g]
                + SumFunction([h \in Holds |-> Held(h, g)])
                - SumFunction([w \in Handlers |-> Undrained(w, g) + Restored(w, g)])

\* A hold that was posted, sent or released stays so, unless it is disturbed:
\* redelivered and late webhooks and repeated admin requests change nothing.
SettledOnce ==
    [][\A h \in Holds \ disturbed' :
          row[h] \in {"posted", "sent", "released"} => row'[h] = row[h]]_historyVars

\* With no handler at work on it, the tables of an undisturbed payout tell one
\* story, whatever handlers do to other holds and whichever died before its
\* first write.
PayoutTablesAgree ==
    \A p \in Payouts \ disturbed :
        (\A w \in Handlers : ~WorksOn(w, p)) =>
            /\ row[p] = "reserved" => payout[p] \in {"requested", "approved"}
            /\ payout[p] = "sent" <=> row[p] = "sent"
            /\ payout[p] \in {"failed", "cancelled"} <=> row[p] = "released"
            /\ payout[p] = "sent" <=> p \in ledger

\* The step is no statement of a handler at work on h.
PassesBy(h) ==
    \A w \in Handlers : WorksOn(w, h) \/ WorksOn(w, h)' => at'[w] = at[w]

\* For every undisturbed hold the wallet is a CreditBank: each statement that is
\* not of a handler on a disturbed hold is one operation of the bank or none,
\* however much has been disturbed before.
ImplementsBank ==
    /\ Bank!Init
    /\ [][(\A h \in disturbed' : PassesBy(h))
            => [Bank!Next]_(Bank!bankVars)]_historyVars
=============================================================================
