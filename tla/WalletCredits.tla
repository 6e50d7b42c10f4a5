--------------------------- MODULE WalletCredits ---------------------------
(***************************************************************************)
(* The Credits of one wallet account: the grants that fund it, the         *)
(* redemptions that spend them in a Stripe checkout and the payouts that   *)
(* pay them out.                                                           *)
(*                                                                         *)
(* The services issue one autocommitted Prisma statement after another, so *)
(* a handler is a process whose steps are its statements, and handlers     *)
(* interleave between any two of them.  A handler may die between two      *)
(* statements (a statement throws, or the process crashes): what it wrote  *)
(* stays and nothing undoes it.  A statement whose effect no other step    *)
(* can observe is folded into its neighbour.                               *)
(***************************************************************************)
EXTENDS Integers, FiniteSets, FiniteSetsExt, Functions

CONSTANTS
    Redemptions,  \* ids of walletRedemption rows
    Payouts,      \* ids of payoutRequest rows, each with its reservation row
    Reservers,    \* slots in which prepareCheckout and requestPayout run
    Finishers,    \* slots in which webhook, release and admin handlers run
    GrantLimit,   \* bound: grants the account ever has
    Deltas,       \* amounts a grant may be issued with; reversals are negative
    Amounts,      \* Credits a request may ask for
    MaxDeaths,    \* bound: handlers that die midway
    NoHold        \* the hold of a handler that has none

Holds == Redemptions \cup Payouts
Handlers == Reservers \cup Finishers
Grants == 1..GrantLimit     \* in createdAt order

ASSUME WalletAssumption ==
    /\ Redemptions \cap Payouts = {}
    /\ NoHold \notin Holds
    /\ GrantLimit \in Nat
    /\ Deltas \subseteq Int
    /\ Amounts \subseteq Nat \ {0}
    /\ MaxDeaths \in Nat

VARIABLES
    count,      \* number of walletGrant rows
    issued,     \* walletGrant.amountIssued
    remaining,  \* walletGrant.amountRemaining
    row,        \* status of each hold's row (redemption or payout reservation)
    alloc,      \* allocation rows: Credits each hold takes from each grant
    payout,     \* payoutRequest.status
    ledger,     \* payouts whose payout-sent entry is in the ledger
    session,    \* Stripe checkout session that carries the redemption's id
    deaths,     \* handlers that have died
    at          \* control state and locals of each handler slot

grantVars == <<count, issued, remaining>>
holdVars == <<row, alloc>>
payoutVars == <<payout, ledger>>
vars == <<grantVars, holdVars, payoutVars, session, deaths, at>>

RowStatus == {"absent", "reserved", "posted", "sent", "released"}
PayoutStatus == {"absent", "requested", "approved", "sent", "failed", "cancelled"}
SessionStatus == {"none", "open", "completed", "expired"}
Jobs == {"none", "checkout", "payout", "post", "release",
         "approve", "send", "fail", "cancel"}
Labels == {"idle", "list", "allocate", "drain", "session", "post", "restore",
           "close", "approve", "lookup", "entry", "sent"}

Nothing == [g \in Grants |-> 0]

\* A slot with no request in it.
Idle == [pc |-> "idle", job |-> "none", hold |-> NoHold, amount |-> 0,
         todo |-> Nothing]

\* todo: Credits the handler has still to take from, or give back to, each grant.
HandlerState == [pc : Labels, job : Jobs, hold : Holds \cup {NoHold},
                 amount : Nat, todo : [Grants -> Nat]]

\* Every row and every handler's local is of its type; a payout never has a
\* status of its reservation, nor the other way round.
TypeOK ==
    /\ count \in 0..GrantLimit
    /\ issued \in [Grants -> Int]
    /\ remaining \in [Grants -> Int]
    /\ row \in [Holds -> RowStatus]
    /\ alloc \in [Holds -> [Grants -> Nat]]
    /\ payout \in [Payouts -> PayoutStatus]
    /\ ledger \subseteq Payouts
    /\ session \in [Redemptions -> SessionStatus]
    /\ deaths \in 0..MaxDeaths
    /\ at \in [Handlers -> HandlerState]

Init ==
    /\ count = 0
    /\ issued = Nothing
    /\ remaining = Nothing
    /\ row = [h \in Holds |-> "absent"]
    /\ alloc = [h \in Holds |-> Nothing]
    /\ payout = [p \in Payouts |-> "absent"]
    /\ ledger = {}
    /\ session = [h \in Redemptions |-> "none"]
    /\ deaths = 0
    /\ at = [w \in Handlers |-> Idle]

Start(w, pc, job, h, amount, todo) ==
    /\ at[w].pc = "idle"
    /\ at' = [at EXCEPT ![w] = [pc |-> pc, job |-> job, hold |-> h,
                                amount |-> amount, todo |-> todo]]
Goto(w, pc) == at' = [at EXCEPT ![w].pc = pc]
Return(w) == at' = [at EXCEPT ![w] = Idle]

-----------------------------------------------------------------------------
(* Grants.                                                                 *)

\* createGrant and recordDelta: a reward, a reversal or a manual adjustment.
RecordDelta ==
    \E d \in Deltas \ {0} :
        /\ count < GrantLimit
        /\ count' = count + 1
        /\ issued' = [issued EXCEPT ![count + 1] = d]
        /\ remaining' = [remaining EXCEPT ![count + 1] = d]
        /\ UNCHANGED <<holdVars, payoutVars, session, deaths, at>>

\* getWalletBalance sums every grant, the negative ones too.
Balance == SumFunction(remaining)

\* What listAvailableGrants shows of a grant.
Available(g) == IF remaining[g] > 0 THEN remaining[g] ELSE 0

\* Mutant of AllocateFifo: plans from amountIssued, not amountRemaining.
AllocateFromIssued(plan, amount) ==
    /\ \A g \in Grants : plan[g] <= issued[g]
    /\ SumFunction(plan) = amount

\* plan is what allocateFifo returns for the grants as they are: nothing from a
\* grant unless every older one is taken whole.
AllocateFifo(plan, amount) ==
    /\ \A g \in Grants : plan[g] <= Available(g)
    /\ SumFunction(plan) = amount
    /\ \A g, older \in Grants :
          older < g /\ plan[g] > 0 => plan[older] = Available(older)

-----------------------------------------------------------------------------
(* Reserving: prepareCheckout with reserveRedemption, and requestPayout    *)
(* with reservePayout.                                                     *)

Unused(h) == row[h] = "absent" /\ \A w \in Handlers : at[w].hold # h

\* The balance read clips the request; the purchase price is one of Amounts.
PrepareCheckout(w) ==
    \E h \in Redemptions, want \in Amounts : \E applied \in 1..want :
        /\ Unused(h)
        /\ applied = IF want <= Balance THEN want ELSE Balance
        /\ Start(w, "list", "checkout", h, applied, Nothing)
        /\ UNCHANGED <<grantVars, holdVars, payoutVars, session, deaths>>

\* The balance check and the creation of the payout request.
RequestPayout(w) ==
    \E p \in Payouts, amount \in Amounts :
        /\ payout[p] = "absent"
        /\ Balance >= amount
        /\ payout' = [payout EXCEPT ![p] = "requested"]
        /\ Start(w, "list", "payout", p, amount, Nothing)
        /\ UNCHANGED <<grantVars, holdVars, ledger, session, deaths>>

\* List the grants, allocate from that snapshot, create the hold's row.
Reserve(w) ==
    /\ at[w].pc = "list"
    /\ \E plan \in [Grants -> 0..at[w].amount] :
          /\ AllocateFifo(plan, at[w].amount)
          /\ at' = [at EXCEPT ![w].pc = "allocate", ![w].todo = plan]
    /\ row' = [row EXCEPT ![at[w].hold] = "reserved"]
    /\ UNCHANGED <<grantVars, alloc, payoutVars, session, deaths>>

\* allocateFifo throws; a payout request stays behind without a reservation.
InsufficientGrants(w) ==
    /\ at[w].pc = "list"
    /\ SumFunction([g \in Grants |-> Available(g)]) < at[w].amount
    /\ Return(w)
    /\ UNCHANGED <<grantVars, holdVars, payoutVars, session, deaths>>

\* The loop over the plan goes from the oldest grant to the youngest.
IsNext(w, g) ==
    /\ at[w].todo[g] > 0
    /\ \A older \in Grants : older < g => at[w].todo[older] = 0

CreateAllocation(w) ==
    \E g \in Grants :
        /\ at[w].pc = "allocate"
        /\ IsNext(w, g)
        /\ alloc' = [alloc EXCEPT ![at[w].hold][g] = at[w].todo[g]]
        /\ Goto(w, "drain")
        /\ UNCHANGED <<grantVars, row, payoutVars, session, deaths>>

DrainGrant(w) ==
    \E g \in Grants :
        LET last == \A other \in Grants \ {g} : at[w].todo[other] = 0
        IN  /\ at[w].pc = "drain"
            /\ IsNext(w, g)
            /\ remaining' = [remaining EXCEPT ![g] = @ - at[w].todo[g]]
            /\ IF last /\ at[w].job = "payout" THEN Return(w)
               ELSE at' = [at EXCEPT ![w].pc = IF last THEN "session" ELSE "allocate",
                                     ![w].todo[g] = 0]
            /\ UNCHANGED <<count, issued, holdVars, payoutVars, session, deaths>>

\* createCheckoutSession succeeds and the client learns the redemption's id...
OpenSession(w) ==
    /\ at[w].pc = "session"
    /\ session' = [session EXCEPT ![at[w].hold] = "open"]
    /\ Return(w)
    /\ UNCHANGED <<grantVars, holdVars, payoutVars, deaths>>

\* Mutant of SessionRejected: releases the row but not the grants.
RejectedReleasesRowOnly(w) ==
    /\ at[w].pc = "session"
    /\ row' = [row EXCEPT ![at[w].hold] = "released"]
    /\ Return(w)
    /\ UNCHANGED <<grantVars, alloc, payoutVars, session, deaths>>

\* ...or throws: the error carries no id and the hold is not released.
SessionRejected(w) ==
    /\ at[w].pc = "session"
    /\ Return(w)
    /\ UNCHANGED <<grantVars, holdVars, payoutVars, session, deaths>>

-----------------------------------------------------------------------------
(* Stripe settles a session once; the code sees it only through webhooks.  *)

SettleSession(h, outcome) ==
    /\ session[h] = "open"
    /\ session' = [session EXCEPT ![h] = outcome]
    /\ UNCHANGED <<grantVars, holdVars, payoutVars, deaths, at>>

CompleteSession(h) == SettleSession(h, "completed")
ExpireSession(h) == SettleSession(h, "expired")

-----------------------------------------------------------------------------
(* Finishing a redemption.  Each handler reads the row, returns unless it  *)
(* is reserved, and writes its status later without looking again.         *)

\* Mutant of MarkPosted: posts whatever the row's status is.
MarkPostedUnchecked(w, h) ==
    /\ session[h] = "completed"
    /\ Start(w, "post", "post", h, 0, Nothing)
    /\ UNCHANGED <<grantVars, holdVars, payoutVars, session, deaths>>

\* The checkout.session.completed webhook, after ingest.
MarkPosted(w, h) ==
    /\ session[h] = "completed"
    /\ row[h] = "reserved"
    /\ Start(w, "post", "post", h, 0, Nothing)
    /\ UNCHANGED <<grantVars, holdVars, payoutVars, session, deaths>>

FinishPost(w) ==
    /\ at[w].pc = "post"
    /\ row' = [row EXCEPT ![at[w].hold] = "posted"]
    /\ Return(w)
    /\ UNCHANGED <<grantVars, alloc, payoutVars, session, deaths>>

\* Mutant of ReleaseRedemption: releases whatever the row's status is.
ReleaseUnchecked(w, h) ==
    /\ Start(w, "restore", "release", h, 0, alloc[h])
    /\ UNCHANGED <<grantVars, holdVars, payoutVars, session, deaths>>

ReleaseRedemption(w, h) ==
    /\ row[h] = "reserved"
    /\ Start(w, "restore", "release", h, 0, alloc[h])
    /\ UNCHANGED <<grantVars, holdVars, payoutVars, session, deaths>>

\* Mutant of ExpiredWebhook: the expiry is not recognised, as before its
\* lifecycle was wired.
ExpiryIgnored(w, h) == session[h] = "cancelled" /\ ReleaseRedemption(w, h)

\* The checkout.session.expired webhook.
ExpiredWebhook(w, h) == session[h] = "expired" /\ ReleaseRedemption(w, h)

\* POST checkout-sessions/release: any time after the client learnt the id.
ReleaseCheckoutReservation(w, h) ==
    session[h] # "none" /\ ReleaseRedemption(w, h)

\* Shared with failPayout and cancelPayout: one increment per allocation.
RestoreGrant(w) ==
    \E g \in Grants :
        /\ at[w].pc = "restore"
        /\ at[w].todo[g] > 0
        /\ remaining' = [remaining EXCEPT ![g] = @ + at[w].todo[g]]
        /\ at' = [at EXCEPT ![w].todo[g] = 0]
        /\ UNCHANGED <<count, issued, holdVars, payoutVars, session, deaths>>

FinishRelease(w) ==
    /\ at[w].pc = "restore"
    /\ at[w].todo = Nothing
    /\ row' = [row EXCEPT ![at[w].hold] = "released"]
    /\ IF at[w].job = "release" THEN Return(w) ELSE Goto(w, "close")
    /\ UNCHANGED <<grantVars, alloc, payoutVars, session, deaths>>

-----------------------------------------------------------------------------
(* Finishing a payout: the admin handlers.                                 *)

ReadPayout(w, p, allowed, pc, job) ==
    /\ payout[p] \in allowed
    /\ Start(w, pc, job, p, 0, Nothing)
    /\ UNCHANGED <<grantVars, holdVars, payoutVars, session, deaths>>

\* Mutants of MarkSent and FailPayout: a status too many is accepted.
MarkSentUnapproved(w, p) ==
    ReadPayout(w, p, {"requested", "approved"}, "lookup", "send")
FailSentPayout(w, p) ==
    ReadPayout(w, p, {"requested", "approved", "sent"}, "lookup", "fail")

ApprovePayout(w, p) == ReadPayout(w, p, {"requested"}, "approve", "approve")
MarkSent(w, p) == ReadPayout(w, p, {"approved"}, "lookup", "send")
FailPayout(w, p) == ReadPayout(w, p, {"requested", "approved"}, "lookup", "fail")
CancelPayout(w, p) == ReadPayout(w, p, {"requested"}, "lookup", "cancel")

WritePayout(w, pc, status) ==
    /\ at[w].pc = pc
    /\ payout' = [payout EXCEPT ![at[w].hold] = status]
    /\ Return(w)
    /\ UNCHANGED <<grantVars, holdVars, ledger, session, deaths>>

FinishApprove(w) == WritePayout(w, "approve", "approved")

\* requireWalletReservation throws when there is no row.
ReservationMissing(w) ==
    /\ at[w].pc = "lookup"
    /\ row[at[w].hold] = "absent"
    /\ Return(w)
    /\ UNCHANGED <<grantVars, holdVars, payoutVars, session, deaths>>

\* releaseReservation reads the allocations; it checks no status.
ReleaseReservation(w) ==
    /\ at[w].pc = "lookup"
    /\ at[w].job \in {"fail", "cancel"}
    /\ row[at[w].hold] # "absent"
    /\ at' = [at EXCEPT ![w].pc = "restore", ![w].todo = alloc[at[w].hold]]
    /\ UNCHANGED <<grantVars, holdVars, payoutVars, session, deaths>>

ClosePayout(w) ==
    WritePayout(w, "close", IF at[w].job = "fail" THEN "failed" ELSE "cancelled")

\* WalletPayoutService.markSent checks no status either.
SendReservation(w) ==
    /\ at[w].pc = "lookup"
    /\ at[w].job = "send"
    /\ row[at[w].hold] # "absent"
    /\ row' = [row EXCEPT ![at[w].hold] = "sent"]
    /\ Goto(w, "entry")
    /\ UNCHANGED <<grantVars, alloc, payoutVars, session, deaths>>

\* postEntry under the key payout-sent:<id>: a repeat changes nothing.
PostSentEntry(w) ==
    /\ at[w].pc = "entry"
    /\ ledger' = ledger \cup {at[w].hold}
    /\ Goto(w, "sent")
    /\ UNCHANGED <<grantVars, holdVars, payout, session, deaths>>

FinishSend(w) == WritePayout(w, "sent", "sent")

-----------------------------------------------------------------------------
\* A statement throws or the process crashes: the rest of the handler is lost.
Die(w) ==
    /\ at[w].pc # "idle"
    /\ deaths < MaxDeaths
    /\ deaths' = deaths + 1
    /\ Return(w)
    /\ UNCHANGED <<grantVars, holdVars, payoutVars, session>>

Reserving(w) ==
    \/ PrepareCheckout(w) \/ RequestPayout(w)

Finishing(w) ==
    \/ \E h \in Redemptions :
          \/ MarkPosted(w, h)
          \/ ExpiredWebhook(w, h)
          \/ ReleaseCheckoutReservation(w, h)
    \/ \E p \in Payouts :
          \/ ApprovePayout(w, p) \/ MarkSent(w, p)
          \/ FailPayout(w, p) \/ CancelPayout(w, p)

\* The next statement of the request that slot w runs.
Advance(w) ==
    \/ Reserve(w) \/ InsufficientGrants(w)
    \/ CreateAllocation(w) \/ DrainGrant(w)
    \/ OpenSession(w) \/ SessionRejected(w)
    \/ FinishPost(w) \/ RestoreGrant(w) \/ FinishRelease(w)
    \/ FinishApprove(w) \/ ReservationMissing(w) \/ ReleaseReservation(w)
    \/ ClosePayout(w) \/ SendReservation(w) \/ PostSentEntry(w) \/ FinishSend(w)

Next ==
    \/ RecordDelta
    \/ \E h \in Redemptions : CompleteSession(h) \/ ExpireSession(h)
    \/ \E w \in Reservers : Reserving(w)
    \/ \E w \in Finishers : Finishing(w)
    \/ \E w \in Handlers : Advance(w) \/ Die(w)

Spec == Init /\ [][Next]_vars

\* The event loop runs every handler on, Stripe settles every session (it
\* expires after a day) and redelivers a webhook until it is answered.  Slots
\* are no resource of the code, so that a webhook finds one is strong fairness.
Fairness ==
    /\ \A w \in Handlers : WF_vars(Advance(w))
    /\ \A h \in Redemptions :
          /\ WF_vars(CompleteSession(h) \/ ExpireSession(h))
          /\ SF_vars(\E w \in Finishers : MarkPosted(w, h) \/ ExpiredWebhook(w, h))

FairSpec == Spec /\ Fairness

-----------------------------------------------------------------------------
(* Properties.                                                             *)

Busy(w) == at[w].pc # "idle"

\* A payout shown as sent is in the ledger, and the ledger holds no payout
\* that no admin approved, however the admin handlers interleave or die.
SentIsInLedger ==
    \A p \in Payouts :
        /\ payout[p] = "sent" => p \in ledger
        /\ p \in ledger => payout[p] \notin {"absent", "requested"}

\* Every checkout that reached Stripe ends with its redemption settled.
CheckoutSettles ==
    \A h \in Redemptions :
        session[h] # "none" ~> row[h] \in {"posted", "released"}
=============================================================================
