----------------------------- MODULE BackOffice -----------------------------
(***************************************************************************)
(* The parts of the system that share no state with each other, side by    *)
(* side: each behaviour is one of Referrals, AdminConsole, Tenancy, Books, *)
(* FraudSignals, Reporting, StripeAdapter, RewardTerms or Calculations,    *)
(* and the variables of the others stay 0.                                 *)
(***************************************************************************)
EXTENDS FraudSignals

\* The constants of each part are explained where the part is modelled; those of
\* Books and Reporting that name users are People of FraudSignals.
CONSTANTS
    Rows, Answers, Slots, Tours,                            \* AdminConsole
    Root, Slugs, Externals, Refs, Versions, Handlers,       \* Tenancy
    Base, Credit, MaxAdjustments, Requests, Rewarded,
    Cycles, Admins,                                         \* Books
    Users, Callers, MaxEdges,                               \* Referrals
    EventIds, Types, Payouts, PerDay, Lookback,
    LastInstant,                                            \* Reporting
    StripeEvents, Content, InvoiceUser, Hooks,              \* StripeAdapter
    Values, Blank, Junk, ApiTerms, Amounts, Families,
    MaxTiers,                                               \* RewardTerms
    Sums, Rates, Instants                                   \* Calculations

VARIABLES
    part,   \* the part this behaviour is of
    tour, token, auth, view, loading, list, sel, detail, pane, call,
    patient, tenants, owned, keyed, source, config, offered, raced, request,
    accounts, expenses, wallets, adjustment, entries, grants, reward, cycle,
    desk, referrer, edgeId, locked, ancestry, edges,
    overtaken, at, clock, log, joined, credited, posted,
    follows, table, exact, rollup, stored, told, answered, early, hook,
    saved, text, input

GraphVars == <<referrer, edgeId, locked, ancestry, edges, overtaken, at>>
PageVars == <<tour, token, auth, view, loading, list, sel, detail, pane,
    call, patient>>
TenancyVars == <<tenants, owned, keyed, source, config, offered, raced,
    request>>
BookVars == <<accounts, expenses, wallets, adjustment, entries, grants,
    reward, cycle, desk>>
FraudVars == <<members, events, signals, active, suspected, answer, halted,
    unscreened, screen>>
ReportVars == <<clock, log, joined, credited, posted, follows, table, exact,
    rollup>>
StripeVars == <<stored, told, answered, early, hook>>
TermVars == <<saved, text>>
SumVars == <<input>>
NoGraph ==
    /\ referrer = 0 /\ edgeId = 0 /\ locked = 0 /\ ancestry = 0 /\ edges = 0
    /\ overtaken = 0 /\ at = 0
NoPage ==
    /\ tour = 0 /\ token = 0 /\ auth = 0 /\ view = 0 /\ loading = 0
    /\ list = 0 /\ sel = 0 /\ detail = 0 /\ pane = 0 /\ call = 0
    /\ patient = 0
NoTenancy ==
    /\ tenants = 0 /\ owned = 0 /\ keyed = 0 /\ source = 0 /\ config = 0
    /\ offered = 0 /\ raced = 0 /\ request = 0
NoBook ==
    /\ accounts = 0 /\ expenses = 0 /\ wallets = 0 /\ adjustment = 0
    /\ entries = 0 /\ grants = 0 /\ reward = 0 /\ cycle = 0
    /\ desk = 0
NoFraud ==
    /\ members = 0 /\ events = 0 /\ signals = 0 /\ active = 0
    /\ suspected = 0 /\ answer = 0 /\ halted = 0 /\ unscreened = 0
    /\ screen = 0
NoReport ==
    /\ clock = 0 /\ log = 0 /\ joined = 0 /\ credited = 0 /\ posted = 0
    /\ follows = 0 /\ table = 0 /\ exact = 0 /\ rollup = 0
NoStripe ==
    /\ stored = 0 /\ told = 0 /\ answered = 0 /\ early = 0 /\ hook = 0
NoTerm ==
    /\ saved = 0 /\ text = 0
NoSum ==
    /\ input = 0
-----------------------------------------------------------------------------
(* The parts; FraudSignals is extended.                                    *)

Graph == INSTANCE Referrals
Page == INSTANCE AdminConsole
Tenancy == INSTANCE Tenancy
Book == INSTANCE Books WITH Users <- People
Report == INSTANCE Reporting WITH Customers <- People
Stripe == INSTANCE StripeAdapter
Term == INSTANCE RewardTerms
Sum == INSTANCE Calculations

-----------------------------------------------------------------------------
(* What the tables can hold.                                               *)

\* Events name people, and an active code has an owner.
FactsKnown ==
    /\ None \notin People \cup Reports
    /\ IsFiniteSet(Reports)
    /\ \A e \in Reports : Facts[e].user \in People
    /\ \A e \in Reports :
          Facts[e].code # None => CodeOwner[Facts[e].code] \in People

\* buildStripeCheckoutSessionParams names the user of every session, with or
\* without a redemption.
SessionsNameUsers ==
    \A e \in StripeEvents :
        Content[e].kind = "completed" /\ Content[e].redemption # None =>
            Content[e].user # None

\* The API answers a page with rows, and every row has an id.
PagesListRows ==
    /\ None \notin Rows
    /\ \A p \in Page!Pages : Answers[p] \subseteq Seq(Rows)

\* The tenant's currency has three letters, so it is not Credits, and an admin
\* adjusts what people have in one of the two.
BooksKnown ==
    /\ IsFiniteSet(People) /\ Rewarded \subseteq People
    /\ MaxAdjustments \in Nat /\ Credit # Base /\ None \notin People
    /\ Requests \subseteq [user : People, currency : Book!Currencies, amount : Int]

\* A day has instants, and a run goes back one day at least.
WindowKnown ==
    PerDay \in Nat \ {0} /\ Lookback \in Nat \ {0} /\ LastInstant \in Nat

\* The form has at most the ten tiers that the API accepts, and an API client
\* stores no more.  A numeral is written with digits.
Numerals == [whole : Nat, frac : Seq(0..9)]
TermsKnown ==
    /\ MaxTiers \in 1..10 /\ ApiTerms \subseteq Term!Terms
    /\ \A c \in ApiTerms : Len(c.tiers) <= MaxTiers /\ c.made = "api"
    /\ Values \cup Term!ApiValues \subseteq Numerals

\* The members that a family names at each depth are those the code finds, when
\* it looks for as many as there are tiers.
FamiliesKnown ==
    \A f \in Families, reach \in 3..10 :
        {r \in Term!EffectiveChain(f, reach) : f.home[r.to] = f.home[f.buyer]}
        = {[to |-> f.at[d], depth |-> d] :
              d \in {d \in DOMAIN f.at : d <= reach /\ f.at[d] # None}}

\* Amounts and rates are integers (bigints in the code), a sale is not below 0
\* (schemas.ts), and instants are points in time.
AmountsKnown ==
    /\ Sums \subseteq Int /\ Rates \subseteq Int /\ Amounts \subseteq Nat
    /\ IsFiniteSet(Instants) /\ Instants \subseteq Int

ASSUME BackOfficeAssumption ==
    /\ None \notin Users /\ MaxEdges \in Nat
    /\ PagesListRows /\ BooksKnown /\ WindowKnown
    /\ TermsKnown /\ FamiliesKnown /\ AmountsKnown
    /\ None \notin Tenancy!Members /\ FactsKnown
    /\ None \notin StripeEvents /\ SessionsNameUsers

-----------------------------------------------------------------------------
BackOfficeInit ==
    \/ /\ part = "graph" /\ Graph!Init
       /\ NoPage /\ NoTenancy /\ NoBook /\ NoFraud /\ NoReport /\ NoStripe
       /\ NoTerm /\ NoSum
    \/ /\ part = "page" /\ Page!Init
       /\ NoGraph /\ NoTenancy /\ NoBook /\ NoFraud /\ NoReport /\ NoStripe
       /\ NoTerm /\ NoSum
    \/ /\ part = "tenancy" /\ Tenancy!Init
       /\ NoGraph /\ NoPage /\ NoBook /\ NoFraud /\ NoReport /\ NoStripe
       /\ NoTerm /\ NoSum
    \/ /\ part = "book" /\ Book!Init
       /\ NoGraph /\ NoPage /\ NoTenancy /\ NoFraud /\ NoReport /\ NoStripe
       /\ NoTerm /\ NoSum
    \/ /\ part = "fraud" /\ Init
       /\ NoGraph /\ NoPage /\ NoTenancy /\ NoBook /\ NoReport /\ NoStripe
       /\ NoTerm /\ NoSum
    \/ /\ part = "report" /\ Report!Init
       /\ NoGraph /\ NoPage /\ NoTenancy /\ NoBook /\ NoFraud /\ NoStripe
       /\ NoTerm /\ NoSum
    \/ /\ part = "stripe" /\ Stripe!Init
       /\ NoGraph /\ NoPage /\ NoTenancy /\ NoBook /\ NoFraud /\ NoReport
       /\ NoTerm /\ NoSum
    \/ /\ part = "term" /\ Term!Init
       /\ NoGraph /\ NoPage /\ NoTenancy /\ NoBook /\ NoFraud /\ NoReport
       /\ NoStripe /\ NoSum
    \/ /\ part = "sum" /\ Sum!Init
       /\ NoGraph /\ NoPage /\ NoTenancy /\ NoBook /\ NoFraud /\ NoReport
       /\ NoStripe /\ NoTerm

BackOfficeNext ==
    /\ \/ /\ part = "graph" /\ Graph!Next
          /\ UNCHANGED <<PageVars, TenancyVars, BookVars, FraudVars, ReportVars,
                         StripeVars, TermVars, SumVars>>
       \/ /\ part = "page" /\ Page!Next
          /\ UNCHANGED <<GraphVars, TenancyVars, BookVars, FraudVars, ReportVars,
                         StripeVars, TermVars, SumVars>>
       \/ /\ part = "tenancy" /\ Tenancy!Next
          /\ UNCHANGED <<GraphVars, PageVars, BookVars, FraudVars, ReportVars,
                         StripeVars, TermVars, SumVars>>
       \/ /\ part = "book" /\ Book!Next
          /\ UNCHANGED <<GraphVars, PageVars, TenancyVars, FraudVars, ReportVars,
                         StripeVars, TermVars, SumVars>>
       \/ /\ part = "fraud" /\ Next
          /\ UNCHANGED <<GraphVars, PageVars, TenancyVars, BookVars, ReportVars,
                         StripeVars, TermVars, SumVars>>
       \/ /\ part = "report" /\ Report!Next
          /\ UNCHANGED <<GraphVars, PageVars, TenancyVars, BookVars, FraudVars,
                         StripeVars, TermVars, SumVars>>
       \/ /\ part = "stripe" /\ Stripe!Next
          /\ UNCHANGED <<GraphVars, PageVars, TenancyVars, BookVars, FraudVars,
                         ReportVars, TermVars, SumVars>>
       \/ /\ part = "term" /\ Term!Next
          /\ UNCHANGED <<GraphVars, PageVars, TenancyVars, BookVars, FraudVars,
                         ReportVars, StripeVars, SumVars>>
       \/ /\ part = "sum" /\ Sum!Next
          /\ UNCHANGED <<GraphVars, PageVars, TenancyVars, BookVars, FraudVars,
                         ReportVars, StripeVars, TermVars>>
    /\ UNCHANGED part

backOfficeVars == <<part, GraphVars, PageVars, TenancyVars, BookVars, FraudVars,
                    ReportVars, StripeVars, TermVars, SumVars>>

BackOfficeSpec == BackOfficeInit /\ [][BackOfficeNext]_backOfficeVars

-----------------------------------------------------------------------------
(* The properties of the parts, each stated where its part is modelled.    *)

\* Each part's state is of its type.
PartsTypeOK ==
    CASE part = "graph" -> Graph!TypeOK
      [] part = "page" -> Page!TypeOK
      [] part = "tenancy" -> Tenancy!TypeOK
      [] part = "book" -> Book!TypeOK
      [] part = "fraud" -> TypeOK
      [] part = "report" -> Report!TypeOK
      [] part = "stripe" -> Stripe!TypeOK
      [] part = "term" -> Term!TypeOK
      [] part = "sum" -> Sum!TypeOK

\* Referrals.AncestryInherited: who is referred inherits the referrer's
\* ancestors (ReferralService.applyCode).
InheritsAncestry == part = "graph" => Graph!AncestryInherited

\* AdminConsole.KeepsSelection: an answer takes no selection away (App.tsx).
KeepsSelection == [][part = "page" => Page!KeepsSelection]_backOfficeVars

\* AdminConsole.AdjustsShownUser: an adjustment is for the user shown (App.tsx).
AdjustsShownUser == part = "page" => Page!AdjustsShownUser

\* Tenancy.MembersAreRooted: all users descend from user0, owners first
\* (TenantsController.create, IdentityService.findOrCreateTenantUser).
MembersAreRooted == part = "tenancy" => Tenancy!MembersAreRooted

\* Tenancy.RegisteredStaysOffered: other settings leave products as they were
\* registered (TenantService.registerCheckoutProduct).
RegisteredStaysOffered == part = "tenancy" => Tenancy!RegisteredStaysOffered

\* Books.StoresLiability: a cycle stores what is owed (SettlementService).
StoresLiability == [][part = "book" => Book!StoresLiability]_backOfficeVars

\* FraudSignals.CrossingOpensCase, SharedCardIsSignalled: a score that reaches
\* the threshold opens a case, and two users of one card are noticed
\* (FraudService.recordSignal, EventIngestionService.emitFraudSignals).
SuspicionIsNoticed ==
    part = "fraud" => CrossingOpensCase /\ SharedCardIsSignalled

\* Reporting.RollupIsExact: a run's figures are a count over the sources
\* (ReportingService.rebuildAll).
RollupIsExact == part = "report" => Report!RollupIsExact

\* Reporting.KeepsOldDays: a run leaves the days before its window alone
\* (ReportingService.rebuildAll).
KeepsOldDays == [][part = "report" => Report!KeepsOldDays]_backOfficeVars

\* StripeAdapter.CompensatesItsOwn: a refund or dispute links to its own
\* payment (StripeWebhookService.resolveRefundOrChargebackContext).
CompensatesItsOwn == part = "stripe" => Stripe!CompensatesItsOwn

\* StripeAdapter.AnsweredIsDone: what was answered was done
\* (StripeWebhooksController.handle).
AnsweredIsDone == part = "stripe" => Stripe!AnsweredIsDone

\* RewardTerms.PaysWhatTheFormShows, Calculations.CalculationsAgree: a sale
\* pays the rows of the form, and the sums done by integer arithmetic are those
\* of the fractions (RewardService.computeRewards, WalletFxService,
\* IdentityService.getSubscriptionSummariesByExternalUserId).
AmountsAreExact ==
    /\ part = "term" => Term!PaysWhatTheFormShows
    /\ part = "sum" => Sum!CalculationsAgree
=============================================================================
