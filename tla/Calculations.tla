---------------------------- MODULE Calculations ----------------------------
(***************************************************************************)
(* Two pure computations, each on one input chosen at the start: an amount *)
(* of money turned into Credits (WalletFxService), and the subscriptions   *)
(* of a user read off his events (IdentityService).                        *)
(***************************************************************************)
EXTENDS Integers, Folds

CONSTANTS
    Sums,       \* amounts in minor units
    Rates,      \* EUR per unit of the currency, in millionths
    Instants,   \* occurredAt of the events
    None        \* no rate; no instant

VARIABLE input

Money == [kind : {"money"}, currency : {"EUR", "USD"}, minor : Sums,
          rate : Rates \cup {None}]

\* What the events of one subscription say: at each instant at most one event,
\* in any order of arrival.
Histories == [kind : {"events"},
              log : [Instants ->
                         {"none", "subscription_started", "subscription_cancelled"}]]

Init == input \in Money \cup Histories

\* An input is computed on, not changed.
Next == UNCHANGED input

-----------------------------------------------------------------------------
(* WalletFxService.normalizeToCredits: None for the error.                 *)

\* Mutant of MultiplyMinorByDecimal: the quotient is cut off.
CutOff(minor, scaled) == (minor * scaled) \div 1000000

MultiplyMinorByDecimal(minor, scaled) == (minor * scaled + 500000) \div 1000000

NormalizeToCredits(m) ==
    IF m.currency = "EUR" THEN m.minor
    ELSE IF m.rate = None THEN None
    ELSE MultiplyMinorByDecimal(m.minor, m.rate)

-----------------------------------------------------------------------------
(* IdentityService.getSubscriptionSummariesByExternalUserId.               *)

NoRow == [status |-> "none", startedAt |-> None, cancelledAt |-> None]

\* One event on the row of its subscription.
Applied(row, type, t) ==
    CASE type = "none" -> row
      [] type = "subscription_started" ->
            [status |-> "active", startedAt |-> t, cancelledAt |-> None]
      [] type = "subscription_cancelled" /\ row = NoRow ->
            [status |-> "cancelled", startedAt |-> t, cancelledAt |-> t]
      [] OTHER ->
            [status |-> "cancelled", startedAt |-> row.startedAt, cancelledAt |-> t]

\* The events in the order of their occurredAt, the latest applied last.
Latest(T) == CHOOSE t \in T : \A u \in T : u <= t
Summary(log) ==
    MapThenFoldSet(LAMBDA t, row : Applied(row, log[t], t), NoRow,
                   LAMBDA t : t, Latest, Instants)

-----------------------------------------------------------------------------
(* Properties.                                                             *)

TypeOK == input \in Money \cup Histories

\* A sum in a foreign currency becomes the nearest number of Credits, half a
\* Credit upwards, a sum in EUR is its cents whatever the rate, and without a
\* rate nothing is credited (WalletFxService.normalizeToCredits).
CreditsAreNearest(m) ==
    LET credits == NormalizeToCredits(m) IN
    IF m.currency = "EUR" THEN credits = m.minor
    ELSE IF m.rate = None THEN credits = None
    ELSE LET rest == m.minor * m.rate - credits * 1000000
         IN -500000 <= rest /\ rest < 500000

\* A subscription is active exactly if the last of its events started it; it
\* started when it was last started, or else when it was first cancelled, and
\* it ended with its last event (getSubscriptionSummariesByExternalUserId).
SummaryIsHistory(log) ==
    LET at(type) == {t \in Instants : log[t] = type}
        starts == at("subscription_started")
        all == starts \cup at("subscription_cancelled")
        least(T) == CHOOSE t \in T : \A u \in T : t <= u
    IN Summary(log) =
        IF all = {} THEN NoRow
        ELSE LET active == Latest(all) \in starts
             IN [status |-> IF active THEN "active" ELSE "cancelled",
                 startedAt |-> IF starts = {} THEN least(all) ELSE Latest(starts),
                 cancelledAt |-> IF active THEN None ELSE Latest(all)]

\* Both computations agree with what they stand for, on every input.
CalculationsAgree ==
    IF input.kind = "money" THEN CreditsAreNearest(input)
                            ELSE SummaryIsHistory(input.log)
=============================================================================
