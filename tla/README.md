# Verification of UPRM

UPRM is a referral and rewards platform: partner sites report events (a
purchase, a refund, a chargeback), users who referred the buyer earn Credits,
and Credits are spent in a Stripe checkout or paid out. The code is a
TypeScript monorepo over PostgreSQL (Prisma) and RabbitMQ. Almost every service
issues one autocommitted statement after another; where it opens a transaction
the isolation is READ COMMITTED. What is hard about it is therefore what happens
between two statements: another request, another worker, a second delivery of a
message, an error, a crash.

This directory holds TLA+ models of the parts where that matters, TLC
configurations that check them on small instances, and theorems about them that
TLAPS proves for every instance.

## 1. Inventory

Paths are below `src/`. "Statement" means one autocommitted SQL statement.

| Component | State | Operations | Hard because |
|---|---|---|---|
| Wallet (`packages/domain/wallet`) | `WalletGrant`, `WalletRedemption`, `WalletPayoutReservation` and their allocation rows | `createGrant`/`recordDelta`, `reserveRedemption`, `markPosted`, `releaseRedemption`, `reservePayout`, `markSent`, `releaseReservation` | no transaction: balance check, plan, row, allocations and decrements are statements of their own; decrements are unguarded |
| Payouts (`packages/domain/payouts`) | `PayoutRequest.status` | `requestPayout`, `approvePayout`, `markSent`, `failPayout`, `cancelPayout` | status read once, written last; reservation and ledger entry in between |
| Checkout with Credits (`apps/api-core/src/billing`, `apps/admin-api/src/webhooks/stripe-webhooks.controller.ts`) | Stripe session metadata | `prepareCheckout`, `releaseCheckoutReservation`, the completed and expired webhooks | webhooks are redelivered and race with the client |
| Ledger (`packages/domain/ledger`) | `LedgerEntry`, `LedgerLine` | `postEntry` under an idempotency key | a repeat reports a duplicate, and callers act on that |
| Reward posting (`packages/domain/rewards`) | `ScheduledPosting.status` | `scheduleRewards`, `postDueRewards`, `cancelForEvent`, `compensateForLinkedEvent` | several worker loops, a claim by compare-and-set, a catch block that gives claims back |
| Reward consumer (`apps/worker/src/rewards`) | messages in flight (prefetch 10) | `handle`: ack, or nack with requeue | redelivery; a refund may overtake its sale |
| Fraud cases (`packages/domain/fraud`) | `RiskCase.status`, `RewardHold.status` | `recordSignal`, `ensureOpenCase`, `allowCase`, `rejectCase`, `escalateCase`, `getActiveHoldForScheduledPosting` | holds race with the posting of what they hold |
| Event ingestion (`packages/domain/events`) | `IngestedEvent`, `EventLink`, `OutboxMessage` | `ingest`, `emitFraudSignals` | unique-key races, links between events in either order, work after the commit |
| Outbox relay (`packages/domain/outbox`) | `OutboxMessage.status`, `attempts` | `dispatchBatch`, `startLoop` | claim, publish and record are three steps; workers die between them |
| Outbound webhooks (`packages/domain/webhooks`, `apps/worker/src/webhooks`) | `WebhookDelivery` | `enqueueForEndpoints`, `claimDueBatch`, `markDelivered`, `markFailure`, `replayDelivery` | optimistic claim of rows read earlier, retries, dead letters |
| Referral graph (`packages/domain/referrals`) | `ReferralEdge`, `ReferralAncestry` | `applyCode`, `lockEdge`, `getEffectiveReferralChain` | a projection of a graph that changes above and below |
| Promoter programme (`packages/domain/promoter`, `apps/worker/src/promoters`) | `PromoterApplication`, `PromoterProfile`, `PromoterMetricsDaily` | `submitApplication`, `approveApplication`, `rejectApplication`, `manualActivatePromoter`, `rollupDailyMetrics`, `evaluateAutoQualifications`, the qualification loop | admins and the loop write the same rows after reads of their own; the loop counts days that end while it runs |
| Settlement (`packages/domain/settlements`), manual adjustments (`apps/admin-api/src/users`) | `SettlementCycle` and its frozen figures, `LedgerAccount`, `WalletAccount` | `openCycle`, `closeCycle`, `adjustWallet`, `ensureAccount` of ledger and wallet | a sum read account by account while others post; accounts that two requests create at once |
| Identity and tenants (`packages/domain/identity`, `packages/domain/tenants`, `apps/admin-api/src/tenants`) | `Tenant`, `TenantUser`, `ApiKey`, the JSON column `webhookConfig` | `POST /admin/tenants`, `POST /users`, `findOrCreateTenantUser`, `registerCheckoutProduct`, `updateWebhookConfig` | a creation of many statements that may end between any two; read-modify-write of one column |
| Fraud signals (`packages/domain/fraud`, `packages/domain/events`) | `RiskSignal` by dedupe key, scores, open cases | `emitFraudSignals` and its five checks, `recordSignal`, `ensureOpenCase` | insert, score and case are three steps of requests that race; a signal is never made up for |
| Stripe adapter (`packages/domain/payments`, `apps/admin-api/src/webhooks`) | events answered, the ingested rows they lead to | `normalize`, the look-ups of charge, invoice and antecedent, the webhook handler | Stripe delivers in any order, several at once, and again |
| Reporting (`packages/domain/reporting`, `apps/worker/src/reporting`) | four daily read models | `rebuildAll`, the roll-up loop, the dashboard | a moving window that starts inside a day, late events, runs that fail halfway |
| Reward terms (`packages/domain/rewards/src/reward.service.ts`, `apps/admin-web/src/reward-config.ts`) | `tenantConfig.rewardConfig` and its draft in the form | edits, save, `parseRewardConfig`, `computeRewards`, `getEffectiveReferralChain` | numerals cut to digits and multiplied as integers; two chains that meet; rows renumbered |
| Admin console (`apps/admin-web/src/App.tsx`) | the state of one React component | sign in and out, visits, loads, rows opened and closed, submits | answers in any order, one flag for all calls, handlers that keep the state of an old render |
| Exchange rates, subscription summaries | none | `normalizeToCredits`, `getSubscriptionSummariesByExternalUserId` | rounding, order of events |
| Authentication, audit, client library | little or none | wrappers, append-only records | |

How they interact: the API ingests an event and writes an outbox row in the same
transaction. The relay publishes the row to RabbitMQ. The reward consumer
computes rewards from the referral chain and schedules them, or, for a refund or
a chargeback, cancels and reverses those of the linked event. The scheduler loop
posts due rewards that no fraud case holds: a ledger entry, the row's status, a
wallet grant. Ingestion feeds fraud signals, which open cases and place holds.
Grants fund checkouts and payouts; Stripe webhooks settle checkouts, and become
events themselves, and admins settle payouts. Webhook rows tell partners what
happened. The admin console configures tenants, among them the terms that
`computeRewards` reads, and adjusts wallets; settlement and reporting read what
the others wrote.

What makes each correct: Credits are neither created nor lost nor spent twice
(wallet, payouts, checkout); a reward is paid at most once, only if it was not
cancelled, and ledger and wallet agree (rewards, ledger, fraud); an acknowledged
event is stored once, linked, published and handled (ingestion, outbox); a
webhook row is sent by one dispatcher at a time and ends delivered or given up
for a reason (webhooks); the projection matches the graph and the graph has no
cycle (referrals); a promoter is who earned it or was approved (promoters); a
suspicion once recorded is acted on (fraud signals); a compensation is for its
own payment (Stripe); users descend from their tenant's owner and the settings
of one part leave the others alone (tenants); a figure that is shown or frozen
is a count over its sources (reporting, settlement); a sale pays what the form
shows (terms); and an admin acts on what is on the screen (console).
`PROJECT.json` lists the components with their status and,
under `hazards`, the lines where each of these could go wrong.

## 2. How the models are built

- A handler, loop or request is a *slot*: a record with a control label `pc` and
  the locals the code keeps between statements. A slot that is idle may start any
  request whose first read allows it.
- One action is one statement; a transaction is its reads, each a step, and one
  step for its commit. A statement whose effect no other step can observe is
  folded into its neighbour (for example, reading the status at the start of a
  handler that only writes locals before the next statement).
- Amounts, identities and messages are members of small sets. Text, formatting,
  metrics and audit records are left out.
- Errors and crashes are actions of their own, with a bound on their number. A
  crash loses the locals and keeps the rows.
- Definitions whose comment starts with "Mutant of" are variants of the
  definition that follows, each with a plausible bug. They are used by no
  specification: they exist to show that a property notices the bug.

| Module | Models | State and actions |
|---|---|---|
| `WalletCredits` | one wallet account with its grants, redemptions and payouts | `remaining`, `alloc`, `row`, `payout`, `ledger`, `session` are the tables and Stripe's session; `PrepareCheckout`, `RequestPayout`, `MarkPosted`, ... start a handler, `Reserve`, `CreateAllocation`, `DrainGrant`, `RestoreGrant`, ... are its statements, `Die` ends it midway |
| `CreditBank` | the promise of a wallet: issue, set aside, spend or give back, each one atomic step | abstract specification |
| `WalletImplementsBank` | the refinement mapping between the two | a reservation counts from its row, a release until its status is written |
| `WalletHistory` | `WalletCredits` with a record of its races | `disturbed` (holds two handlers had at once, or one left half done by a death), `contested` (grants two reservations had planned to take from at once); its properties say what holds of the rest |
| `RewardPosting` | the rewards of one sale, from the message to the wallet | `status` (scheduledPosting), `entry`/`reversal` (ledger), `granted`/`deducted` (wallet), `queue` (broker), `hold`/`caseStatus` (fraud); slots `sched`, `cons`, `rev` run `postDueRewards`, the message handler and the fraud service |
| `EventDelivery` | request, outbox, relay, broker | `stored`, `link`, `outbox`, `attempts`, `queue`; slots `caller` and `relay`; of its races, `outrun` (an event whose request lost a signal's key, and the event it lost it to) and `crossed` (pairs whose transactions were open at the same time) |
| `WebhookDelivery` | outbound webhook rows and dispatcher loops | `status`, `attemptCount`, `nextAttempt`, `due`, `aged`, `received`; slots `disp` |
| `Referrals` | edges, ancestry projection, concurrent `applyCode` | `referrer`, `edgeId`, `locked`, `ancestry`; slots `at`; of its races, `overtaken` (users whose call had read their referrer's ancestors when the referrer's edge was committed) |
| `Promoters` | applications, profiles and the daily counts of one tenant, the loop of the workers | `status`, `applicant`, `profiles` (open rows), `metrics`, `locks` (days on which `lockEdge` ran), `day`; slots `req` (users and admins) and `run` (the loop) |
| `FraudSignals` | the screening of stored events, signals, scores and cases | `events`, `signals`, `active` (open cases), `answer`; slots `screen` go through the five checks and, for a signal, `dedupe`, `create`, `score`, `find`, `open` |
| `StripeAdapter` | the Stripe webhook | `stored` (ingested rows by Stripe event), `told` (what the wallet was told), `answered`; slots `hook` are at `charge`, `invoice`, `user`, `opened`, `ingest`, `tell` |
| `Tenancy` | tenants, owners, keys, users, `webhookConfig` | `tenants`, `owned`, `keyed`, `source`, `config`; slots `request` |
| `Books` | adjustments and settlement cycles of one tenant | `accounts`, `wallets`, `entries`, `grants`, `reward`, `cycle`; slots `desk` |
| `Reporting` | the read models and the loop that rebuilds them | the source rows `log`, `joined`, `credited`, `posted`; `table`, the read model a behaviour follows; `rollup`, the loop |
| `AdminConsole` | the state of `App` | `list`, `sel`, `detail`, `pane` per page, `token`, `auth`, `view`, `loading`; slots `call` are handlers that await an answer |
| `RewardTerms` | the form of the terms, the server that accepts them, the computation | `saved`, `text`; `EffectiveChain`, `ComputeRewards` are operators |
| `Calculations` | two pure functions | `input`; `NormalizeToCredits`, `Summary` are operators |
| `BackOffice` | the nine parts from `Referrals` on that share no state with each other, side by side, and what their tables can hold (its assumptions) | `part` names the part of a behaviour; the variables of the others stay 0 |
| other `MC...` | instances for TLC: values a `.cfg` cannot write, symmetry sets | |
| `FiniteSums` | what a sum over a finite set is | lemmas for the proofs |
| `...Proofs`, `WalletBank` | theorems | section 5 |

`RewardPosting` takes over where `EventDelivery` ends: `EventDelivery!Handle(e)`
stands for the whole of the consumer in `RewardPosting`, and the duplicates
that `Republish` puts on its queue are those `RecordThrows` and `Requeue` of
`EventDelivery` produce. `GrantReward` and `DeductReward` of `RewardPosting` are
`RecordDelta` of `WalletCredits`. `FraudSignals` is what `EventDelivery` does in
its label `screen`, and its `open` is `OpenCase` of `RewardPosting`.
What `StripeAdapter` adds to `told` is what `CompleteSession` and
`ExpireSession` of `WalletCredits` start from, and what it stores is ingested as
`EventDelivery` ingests. `RewardTerms` computes the set of rewards that
`RewardPosting` schedules, from the ancestors that `Referrals` keeps and the
sources that `Tenancy` keeps. `RecordDelta` of `Books` is
that of `WalletCredits`.

## 3. Runs

`tlc -workers 2 -config X.cfg M` in this directory; every run ends in less than
three minutes. `PROJECT.json` gives the module of each.

| Run | Checks | Shows |
|---|---|---|
| `MCWalletHistory` | `NoOverdraft`, `CreditsConserved`, `PayoutTablesAgree`, `SettledOnce`, `ImplementsBank` | a checkout, a payout, two grants, a reversal and two slots that run any handler, so that two reservations, two releases, two admins or a webhook and a client meet at every statement, and one dies anywhere. Nothing is cut away: each property speaks of what was not disturbed, however much else was |
| `MCWalletRaces` | `SentIsInLedger`, `CheckoutSettles` | two finishing handlers race with a reservation and with each other, and one handler dies midway |
| `MCRewardsFaults` | `CancelledNotPaid`, `WalletFollowsLedger`, `GrantedAtMostOnce`, `DeductedAtMostOnce`, `CancelledForGood` | two scheduler loops, two message handlers, a fraud request, repeated messages, one fault at any statement |
| `MCRewardsLive` | `PendingSettles` | three rewards of one sale, only one of them suspect, in batches of two; nothing that is pending waits for ever |
| `MCEventsFaults` | `ClaimedByOneRelay`, `DispatchedIsPublished`, `HandledOnceWithoutFaults`, `AcceptedIsScreened`, `LinkedInTurn`, `AcceptedIsHandled` | a refund and its purchase, two requests at once for either or for the same one, signals whose key another request takes, two relays, two throws (enough to use up the two attempts of a row), one death |
| `MCWebhooks` | `TypeOK`, `ClaimedOnce`, `OutcomeIsJustified`, `EveryRowIsSettled` | two dispatcher loops, a throw, a death, a replay, rows that pass a day of age at any time |
| `MCPromoters` | `TypeOK`, `ApprovedIsPromoter`, `PromotedIsEarned`, `EarnedIsPromoted` | two requests of users and admins, a runner of the loop, two edges locked and locked again, a window of two days, one day that ends at any point, one fault |
| `MCBackOffice` | `PartsTypeOK` and twelve properties of the parts, below | nine parts that share no state, each on an instance of its own |
| `MCRewardsRejectedPosted` | `RejectedNeverPosts`, violated | finding 1 |
| `MCEventsCrash` | `NoEventIsLost`, violated | finding 2 |
| `MCReferralsCycle` | `NoCycle`, violated | finding 3 |
| `MCFraudDuplicate` | `FirstReportIsNew`, violated | finding 4 |

The parts of `BackOffice`: a behaviour belongs to one part and never leaves
it, so the run is the nine checks one after the other, and two of the slots
(`h1`, `h2`, which the parts share) are interchangeable. Each property is an implication from its part.

| Part | Properties | Instance |
|---|---|---|
| `Referrals` | `InheritsAncestry` | three users, four edges, replaced and locked, two calls at once |
| `AdminConsole` | `AdjustsShownUser`, `KeepsSelection` | two rows, two calls in flight, one or two pages in a session |
| `Tenancy` | `MembersAreRooted`, `RegisteredStaysOffered` | the root tenant and another, two requests of all kinds, each may end anywhere |
| `Books` | `StoresLiability` | two users, one in debt, two adjustments, one cycle, two admins |
| `FraudSignals` | `SuspicionIsNoticed` | four events of two users on one card, two requests, one failure |
| `Reporting` | `RollupIsExact`, `KeepsOldDays` | three days of two instants, a window of two days, one event and one reward at any time, any run may stop |
| `StripeAdapter` | `CompensatesItsOwn`, `AnsweredIsDone` | two payments, a refund, a dispute and its end, two deliveries at once, each again |
| `RewardTerms` | `AmountsAreExact` | two rows in the form, terms of another client, three sales, four families |
| `Calculations` | `AmountsAreExact` | five sums at six rates or none; every history of four events |

That the state has its types is checked for `Webhooks`, `Promoters` and the
back office; for the wallet, the events and the rewards `TypeCorrect` is proved
instead (section 5).

**Why the bounds are enough.** Two processes of each racing kind are enough to
have every pair of statements in either order; every race the code is exposed
to is between two holders of one row. Two grants are needed for an allocation
to span a grant boundary; they are of one Credit, so that a request for two spans
both and a request for one may compete for either.
One fault suffices to break a handler at any statement; the properties that
need more (attempts used up, a throw followed by a death) have more. Chains of
three users are needed for an ancestor to be inherited, and for a cycle that the
check misses; longer ones are left to the proof, since a call reads only what its
referrer's rows say. A page of two rows has a row that is selected and
one that is not; two events on one card are a pair of users. Two calls in flight
suffice for one to clear the flag of the other. A window of two days out of three
has a day before it, its partial first day and a whole one. The loop of `Promoters` visits one tenant: a
second one only adds evaluations (with two the run takes three times as long
and finds no error). Bounds that are named in the modules (`GrantLimit`,
`MaxDeaths`, `MaxFaults`, `MaxCopies`, `MaxThrows`, `MaxCrashes`, `MaxReplays`,
`MaxEdges`, `LastDay`,
`MaxAdjustments`, `MaxFailures`, `LastInstant`, `MaxTiers`) cap a counter in the guard that increases it.
`BatchSize` and `MaxAttempts` are the constants of the code (50 and 100 rows,
10 and 6 attempts) made small, so that a batch is shorter than what is due
(three rewards, two a batch) and a row can run out of attempts. `Lookback` is two days
where the code has ninety. Where a run says `CHECK_DEADLOCK FALSE` the
model really stops: all requests are done and the bounds are used up.

**What the properties do not say, because the code does not do it.** Each of
these was found while modelling; a property carries the weakest condition under
which it holds, and the condition names the gap.

- *Two finishing handlers for one redemption.* `releaseRedemption` reads
  `reserved` and writes `released` after it has restored the grants. Two releases
  at once restore twice, and a post can follow a release. A hold on which two
  handlers were at work is `disturbed`; `SettledOnce`, `PayoutTablesAgree` and
  `ImplementsBank` speak of the others, and `CreditsConserved` of the grants that
  no disturbed hold took from.
- *Two reservations on one payout account.* `requestPayout` checks the balance,
  then plans, then drains, without a lock or a guarded decrement: two of them
  overdraw the grants both planned to take from (`contested`), and only those:
  `NoOverdraft`.
- *A handler that dies midway* leaves its hold half done (`disturbed`): a payout
  reserved in part, a redemption restored but still `reserved`. A death before the
  first write to the hold disturbs nothing. A `requestPayout` that ends between its
  two tables leaves a payout no admin operation accepts.
- *A reservation without a session.* If `createCheckoutSession` throws, the
  error does not carry the redemption and nobody releases it: `CheckoutSettles`
  speaks of redemptions that have a session.
- *A worker that dies.* Claims are never taken back: a reward stays
  `processing`, an outbox row `in_progress`, a webhook row `delivering`; and a
  retry that finds its ledger entry skips the wallet. Hence `faults = 0` in
  `WalletFollowsLedger`, no fault in `MCRewardsLive`, `crashes > 0` in
  `AcceptedIsHandled` and `EveryRowIsSettled`.
- *A refund that comes early.* A refund handled before the rewards of its sale
  are scheduled, or while one is `processing`, cancels and reverses nothing and
  is acknowledged. The properties say what a cancellation means, not that a
  refund leads to one.
- *A refund and a chargeback.* Each reverses the same posted reward once:
  `DeductedAtMostOnce` counts per compensating event.
- *Two cases, two holds.* Two signals at once may open two cases of one user,
  and a reward released by one case cannot be held by another. No property. A
  request that fails after it inserted a signal leaves it without a case, since
  the retry finds the key: `SuspicionIsNoticed` leaves out users and events whose
  request failed.
- *Screening.* A request that loses the key of a signal to another is answered
  "duplicate" with its other checks not run (finding 4); `AcceptedIsScreened` says
  that without a throw nothing else leaves an event unscreened, and that of events
  that lost keys to each other one at least is screened. A request that throws
  after the commit leaves its event unscreened.
- *Links.* A refund and its purchase whose transactions are open at the same time
  need not see each other: `LinkedInTurn` leaves such a pair out (`crossed`), and
  no other.
- *Attempts.* A row that used up its attempts stays pending and is never looked
  at: the third alternative of `AcceptedIsHandled`. A webhook row is
  dead after six attempts, that is five retries, where the guide says six.
- *Referrals under concurrency.* Two `applyCode` for a chain may leave a user
  without the ancestors of the referrer: one reads them before the other writes
  them. `InheritsAncestry` leaves out who was `overtaken` so, and nobody else; an
  edge added above does not reach below in any case.
- *Promoters.* Two reviews of one application read its status before either
  writes: it may end rejected and leave the profile of the approval. Two
  submissions at once leave two open applications, two activations or an
  activation and the loop two open profiles. None of this takes a promotion away
  from an approved user (`ApprovedIsPromoter`). An edge locked after the last run
  of its day is not counted (`EarnedIsPromoted` ends with the day), and `lockEdge`
  moves the day of an edge that is locked already, so that a window counts it
  twice (`PromotedIsEarned` counts calls of `lockEdge`). Nothing under `apps/`
  calls `lockEdge`; the model lets it happen at any time.
- *The console.* One `loading` flag disables the buttons of every page and is
  cleared by whichever call ends first: `AdjustsShownUser` is about an admin who
  clicks only while nothing that sets it is out. The wallets page, which a path
  shows but the navigation does not list, adjusts the same user and is left out
  (`apps/admin-web/src/App.tsx:1519`). `loadUsers` goes by the
  selection of the render it started in, and a replay selects its row again:
  `KeepsSelection` leaves the users and webhooks out. It says nothing of a
  promoter created by hand, which is in the model and which an effect deselects at
  once (`Added`); of a fraud decision, which
  is for the row selected while the detail shown may be of another; of the users
  page, which is not reloaded when the tenants arrive; of drafts, which a reload
  of the tenants overwrites; or of a `loadTenants` that ends after the logout
  and signs in again. A logout leaves the lists of the other pages.
- *Tenants.* A creation that dies leaves a tenant without owner or key whose
  slug is taken: nothing completes it. Of two overlapping writes to
  `webhookConfig` one is lost (`RegisteredStaysOffered` is about tenants without
  such); `updateConfig` writes all three configurations blindly.
- *Books.* A cycle is in the tenant's base currency, three letters, and rewards
  are in `credit`, so what a cycle freezes are adjustments and never rewards,
  where `docs/plans/2026-04-26-global-credit-wallet-redesign.md:575-580` speaks
  of rewards. Two cycles may be open, and one may be closed twice. Of two
  adjustments that create a user's wallet account at once one throws, after its
  ledger entry. An adjustment in any currency becomes Credits one to one.
- *Stripe.* A refund taken up before its `invoice.paid` is stored is answered as
  ignored and lost: `AnsweredIsDone` leaves such events out. The session's
  metadata is not put on the subscription or the payment.
- *Terms.* The form numbers rows anew, so that terms another client stored for
  depth 2 only change when they are edited: `AmountsAreExact` is about terms the
  form wrote. `getEffectiveReferralChain` is read three deep or as deep as there
  are tiers. Sales in any currency are percented into Credits one to one. The
  form of the promoter configuration writes only `enabled` and `types` and drops
  the automatic rules; `bonusTiers` is read by nobody.
- *Reports.* A window of ninety days starts at the time of day of the run, and
  the rebuild replaces the whole of that first day by the part of it that the window
  holds: its figures shrink from run to run and stay so. `RollupIsExact`
  leaves that day out.

**Findings.**

1. `rejectCase` cancels held rewards that are pending. A scheduler that passed
   its hold check before the case opened posts the reward although the case was
   rejected (`packages/domain/fraud/src/fraud.service.ts:228`); the plan of that
   phase says such rows "never post later".
2. A relay that dies after marking its batch `in_progress`
   (`packages/domain/outbox/src/relay.service.ts:55`) loses the events of the
   batch; the implementation guide says the relay retries until acked.
3. The cycle check of `applyCode` reads the ancestry rows of the referrer
   (`packages/domain/referrals/src/referral.service.ts:92`), which are not
   updated when an edge is added further up: C joins B, B joins A, and then A
   joins C is accepted. The guide says it is rejected.
4. `ingest` takes any violated unique key for that of the event
   (`packages/domain/events/src/ingestion.service.ts:145`), and the signals are
   written inside the same `try`. Of two events that lead to one signal, the
   request that loses is answered "duplicate" for an event it stored itself, and
   its remaining checks never run. The comment speaks of the idempotency key
   only.

## 4. Fairness

Safety is checked without fairness. The liveness properties use `FairSpec`:

- a started request, loop or handler takes its next statement (weak fairness per
  slot): Node's event loop runs every promise that is ready, and the loops of the
  worker sleep and poll again for as long as the process lives. A
  death is an action nothing is obliged to take, and a slot that died is a
  process that was restarted;
- the broker delivers what is queued, because a nack requeues and prefetch
  bounds only how many are in hand (`WF` on `Deliver`, `Handle`);
- the clock of the webhooks runs (`BecomesDue`); days need not pass;
- a run of the qualification loop goes on and another follows it. That a run is
  over before its day ends is not assumed;
- Stripe settles every open session, since sessions expire, and repeats a
  webhook until it is answered. Weak fairness would not do there: with finitely
  many slots the webhook is disabled each time another handler takes the last
  one, which no limit in the code does, so it is strong fairness on "some slot
  takes this webhook".

Clients, admins and the `Die`/`...Throws` actions have no fairness. The parts of
`MCBackOffice` have safety properties only and no fairness: their requests may
end anywhere, as a process that dies, and their answers may never come.

## 5. Proofs

`tlapm M.tla` checks the proofs of a module. They use the named assumptions of
the component's module and nothing else, unless the theorem says so; they hold
for every value of the constants, where the runs fix small ones. The bounds on
faults, deaths and copies are constants too, so "any number" below is any bound.
Every safety and action property that a passing run checks is also a theorem.

**`FiniteSums`.** The models add up with `SumFunctionOnSet`, a recursive function on
sets; that it exists, takes one element out, agrees with itself on equal
functions, and adds up over the parts of a partition is proved here once. The
provers have no induction over data, but the library proves that strict inclusion is
well founded on finite sets: if a claim failed for some subset, it would fail for a
smallest one (`SmallestBad`), from which an element can be taken.

**`WalletCreditsProofs`.** `TypeCorrect`; `LedgerSound` (`SentIsInLedger`);
`UncontestedIsCovered` (`NoOverdraft`), for any number of reservations, admin
handlers, webhooks and deaths. `TypeInv` adds to `TypeOK` which kind of hold each
job works on. `LedgerInv` says what a handler in the middle of `markSent` has
already written: it passed the approval check, and past `entry` the ledger has its
payout; the status never falls back below approved, which is why two admins who
race cannot show a payout as sent that is not in the ledger. `RowsInv` is what
holds of the rows in every state, however disturbed: there is nothing to drain or
restore of a grant not yet issued, a handler drains and restores only what has an
allocation row, checkouts are posted and payouts are sent. Every
statement is classed by what it does to the grants (`Keeps`, `Plans`, `Allocates`,
`Drains`, `Restores`), and the invariants that follow are proved over those five
kinds. `OverdraftInv` says that what one reservation has still to drain from a
grant is available in it, unless the grant is contested: drains come from plans
that saw the grant, and of two plans that both name it the second makes it
contested.

**`WalletBank`.** `ConservedAroundRaces` (`CreditsConserved`), `SettlesOnce`
(`SettledOnce`), `PayoutTellsOneStory` (`PayoutTablesAgree`) and `BankAroundRaces`
(`ImplementsBank`). They hold of every behaviour of `WalletHistory`; the one
assumption (`Finite`) is that holds and handlers are finitely many, which the sums need.
The step of a handler is of one of two kinds. Its hold is undisturbed: then
nobody else works on it (`Apart`, for undisturbed holds, is an invariant because a
second handler would make it disturbed), and `CalmInv` says for each label what the
handler has still to do and what the rows show of it. Or the hold is disturbed,
and nothing is known of its rows; but the statements write only that hold's rows
and grants it took from, and those grants the properties leave out
(`DirtyMove`). A hold becomes disturbed at the step at which a second handler
starts or one dies, and it is only at such a step that the claims about it are
given up. Conservation per grant is then a sum over the holds in which
one hold changes (`SumChanges`). For the refinement each statement is mapped to
the operation of `CreditBank` it completes, or shown to leave the free balance as
it was: a drain takes from the grant what it takes from the list of what is still
to be drained. What is left to a disturbed hold is not a bank, and
`ImplementsBank` says only that every other statement still is.

**`EventDeliveryProofs`.** `TypeCorrect`, `RowsAreClaimedOnce`
(`ClaimedByOneRelay`), `PublishedSoundly` (`DispatchedIsPublished`),
`PublishedOnce` (`HandledOnceWithoutFaults`), `ScreenedSoundly`
(`AcceptedIsScreened`), `LinkedOneByOne` (`LinkedInTurn`). `InsertInv` is the unique key: two
transactions never insert one event, so a committed row is fresh. `BatchInv`:
rows in a batch are `in_progress`, below the attempts limit and in one batch
only; it is what keeps `attempts` in its type as well. `PublishedInv` counts: a
row that no relay is about to record or give back was published at most as often
as it has failed, and a failure needs a throw. A death loses the batch and with
it the row, never the count. `ScreenInv`: until a throw, a stored event that is
not screened is in the hands of the request that stored it, or that request has
lost a signal's key to the request of another stored event (`outrun`); and if a key
was lost, an event is screened or a request is still screening, since of two that
want one key one gets it. `LinkInv`: the links that a transaction is about to write
join its event to its parent and to what waits for it, as far as they are stored;
what commits after it has looked was open at the same time and is recorded as
`crossed`.

**`RewardPostingProofs`.** `TypeCorrect`, `PaidAtMostOnce` (`GrantedAtMostOnce`),
`CancelledUnpaid` (`CancelledNotPaid`), `CancelledStaysSo` (`CancelledForGood`),
`ReversedAtMostOnce` (`DeductedAtMostOnce`) and `BooksAgree`
(`WalletFollowsLedger`), both for finitely many handlers and compensations, which
the cardinalities need. `OwnerInv` makes the claim by compare-and-set an ownership: the
rows that schedulers have between claim and release are distinct, have the
status the label of the scheduler says, and have no grant while one is about to
be written. Cancellation writes pending rows only, so it never meets an owned
one; a claim that is given back after a ledger entry is claimed again but finds
the key. `DeductInv` counts, per reward, the deductions made and those a handler
is about to make against the reversals in the ledger: a handler gets one by
writing a reversal that was not there, and a handler that fails loses it; without
a fault the count is exact. `BooksInv` adds, for runs without a fault, that a
posted row has its entry, and that an entry has its grant or a scheduler about
to write it; from it follows that no scheduler finds its own entry there already,
which is the branch that would skip the grant.

**`PromotersProofs`.** `TypeCorrect` (`TypeOK`), `ApprovedStaysPromoter`
(`ApprovedIsPromoter`) and `PromotionsAreEarned` (`PromotedIsEarned`).
`ReviewsNameApplicants` ties the copy of the application row that a review holds
to the row: the row never disappears and never changes its user, so the profile
an approval creates is that of the applicant although the row is not read again.
An approval may close any profile it saw, but leaves a manual one; the loop only
adds. `LoopInv` is about the loop: the count of a run and that of a metric row are
at most the number of edges for which `lockEdge` ran on that day, and since locks are
never undone that outlives every change of the day; the sum over the rows of a
window is at most the number of pairs of an edge and a day, because the days part
those pairs.

**`WebhookDeliveryProofs`.** `TypeCorrect` (`TypeOK`), `ClaimedByOne`
(`ClaimedOnce`), `OutcomesJustified` (`OutcomeIsJustified`). The claim is
optimistic, by status and `nextAttemptAt` of a copy that may be old. `RowsInv`
and `HandsInv` say why that is enough: only a failure moves `nextAttemptAt`, it
never moves back, and a row that is delivered is final; so a copy that still
matches is of the row's present attempt, and of two matching copies one is
claimed first and makes the other miss. `SlotsInv` says what a dispatcher knows
of the row it has sent: its attempt number is that of the row plus one, and what it is about to
call delivered was received.

**`BackOfficeProofs`** takes the parts of `BackOffice` one after the other.
`PartsAreTyped` (`PartsTypeOK`) is about all of them, and each of the others about the part
its property belongs to. `BackOfficeAssumption`, which TLC evaluates on the run,
says what the tables can hold, each as weak as the code has it: "no user" is not a
user, nor "no event" an event; events name people and an active code has an
owner (`FactsKnown`); every session names its user, which
`buildStripeCheckoutSessionParams` sees to (`SessionsNameUsers`); a page is
answered with rows (`PagesListRows`); the tenant's currency, three letters, is not
`credit` (`BooksKnown`); days have instants and a run goes back a day at least, ninety
in `reporting-rollup.ts` (`WindowKnown`); the form has at most the ten tiers that
`parseRewardConfig` accepts, and numerals are written with digits (`TermsKnown`);
amounts are integers, and no sale is below 0 (`AmountsKnown`); the members that a family
names at each depth, which stand for what `getEffectiveReferralChain` should find, are
those it does find (`FamiliesKnown`: TLC evaluates that for each family, reading up to
ten deep; the walk itself folds over a chain that may be of any length).

- *Fraud signals.* `CasesAndCardsAreNoticed` (`SuspicionIsNoticed`). What a set of
  signals scores is never expanded, except that the empty set scores nothing: a
  user's score changes only with the user's own signals. `CasesInv` says so with the
  request that has just inserted one still to read the score, and that an active
  case was once opened, which is what ends a request without a new case. `CardsInv`:
  of two events of one card, the signal is there or a request of one of them has that
  check ahead; the check cannot then miss, since both events were stored before it.
  `FraudLocalsInv` adds what a request knows of its event and key; that the checks of
  registrations find nothing in a payment is part of it, because a key that is taken
  ends the request with its remaining checks.
- *Tenancy.* `UsersAreRooted` (`MembersAreRooted`), `ProductsStay`
  (`RegisteredStaysOffered`). `TenancyLocalsInv` is about knowledge that does not age:
  rows are never deleted, so what a request has found stays. That every user descends
  from user0 is said without induction: a group of users each of whom names one of the
  group contains user0; a new user is named by nobody, so a group that is closed with
  him is closed without him. `ConfigInv`: while a tenant's configuration requests do
  not overlap there is one writer and its copy is up to date.
- *Stripe.* `LinksAreOwn` (`CompensatesItsOwn`), `AnswersAreDone` (`AnsweredIsDone`).
  `SlotOK` says for each label what a request has found: the invoice of its charge, an
  antecedent that was stored, the user of that antecedent or of the subscription; the
  stored rows never change, so none of it is ever out of date. `Tied` is the same of
  what is stored.
- *Referrals.* `AncestryIsInherited` (`InheritsAncestry`), for any number of calls
  at once. `FreshOK` says that at its commit a call still holds what is above the
  referrer, unless its user is `overtaken`: another call may commit an edge of the
  referrer in between, and that commit records every user whose call has read and
  not yet written.
- *Console.* `AdjustmentsAreShown` (`AdjustsShownUser`), `SelectionsAreKept`
  (`KeepsSelection`). The flag that disables the buttons is shared by all calls, so the
  invariant cannot be read off it. `PatientInv` is about an admin who does not click
  while a call that sets it is out: at most one such call is out, except after a login,
  when the lists of the users and of the tenants are loaded together, and then no detail is
  shown (`LoadPair`); whatever loads a detail or submits is about the user selected.
- *Books.* `CyclesStoreLiability` (`StoresLiability`). A snapshot lists the accounts
  and then sums them up one at a time. `Counted`: unless an adjustment was posted since,
  the sum so far is that of the users listed and done, and whoever has a posting is
  listed; who is not listed is owed nothing, so the sum over the listed is the sum over
  all.
- *Reports.* `DashboardIsExact` (`RollupIsExact`), `OldDaysStay` (`KeepsOldDays`). A
  table is what many runs left of it, some of which failed, each with a window of its
  own. The inductive invariant (`ReportInv`) does not describe the rows that earlier runs
  left but bounds them: of every day after the first of the window, no more is shown than
  there is to count (`Bounded`). Sources only grow and windows only move on, so a
  bound once true stays true, and a run that replaces such a day shows all there is to
  count in it, which is no less. After a run without disturbance the table is the
  run's rows and rows of days it does not replace (`Rebuilt`), and those of a day inside
  the window are then a count over all sources.
- *Terms.* `AmountsStayExact` (`AmountsAreExact`), with the next part. `TermInv` adds
  to the types that the form numbers its rows by their places (`InPlace`) and that what
  is stored was accepted: of a depth there is then one row, and a text that shows no
  number was never stored. That a padded numeral has the value of its digits is
  unfolded digit by digit (`FourDigits`), and rounding down is `FloorOfQuotient`.
- *Calculations.* The exchange rounds to the nearest Credit (`CreditsAreNearest`). The
  summary of a subscription is a fold over the events in their order; `RowsAreHistories`
  shows that what `SummaryIsHistory` says satisfies the recursion (`LatestApplied`)
  and, by a smallest difference, that nothing else does.

Each invariant is stronger than the property because the property says nothing
about the locals of a handler, which is where the race is; each was found by
looking at what the steps of the other processes could do to those locals.

## 6. Checked only, and not modelled

Only model-checked: the liveness properties (`CheckoutSettles`, `PendingSettles`,
`AcceptedIsHandled`, `EveryRowIsSettled`, `EarnedIsPromoted`), because TLAPS does
not reason about fairness and `ENABLED`; and that the walk up the ancestors, over
the families of the run, finds whom it should (`FamiliesKnown`, section 5). No
theorem assumes anything of a behaviour; where the code lets a race spoil a property,
the property itself names what the race has touched (section 3), and the theorem
covers all behaviours. No module declares a RECURSIVE operator.

Not modelled: the layout of the console, its pages without a selection and its
forms for promoters and fraud; HTTP wrappers, the client library,
authentication, audit records and metrics (no state another part depends on);
the creation and listing of referral codes, rows without races; the start and
shutdown of the worker; signatures, formatting and the parameters of a Stripe
session; the text of notes. `WalletFxService` has no caller outside the tests;
it is modelled as the operator it is. External to the code, and modelled as its statements and its
`nack` rely on them: the database (READ COMMITTED and unique keys), RabbitMQ (at
least once, in no order), Stripe (any order, again until answered) and the
browser.

## 7. Plan

What is modelled covers every component whose state another one depends on. The
suite stays at a dozen runs: a new part joins `MCBackOffice` if it shares no
state with others, and a condition moves into the property (as `LinkedInTurn`
does) rather than into a run of its own. Left, in this order:

1. Proofs: `FamiliesKnown` from what the projection and the members' sources hold, by
   induction along the chain.
2. Larger instances of the parts: a fourth user of `Referrals`, a third call of the
   console. Each multiplies the states of `MCBackOffice` and would need a run of its
   own.
3. The forms for promoters and fraud, with a property about what a save keeps:
   today it would say that the promoter form drops the automatic rules.
4. Referral codes, and the audit records as a history that the actions write.
