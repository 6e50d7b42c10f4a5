SPECIFICATION BackOfficeSpec
CONSTANTS
    Users = {u1, u2, u3}
    Callers <- Two
    MaxEdges = 4
    None = None
    x = x
    y = y
    uma = uma
    vic = vic
    buyer = buyer
    anna = anna
    bert = bert
    root = root
    h1 = h1
    h2 = h2
    Rows <- PageRows
    Answers <- PageAnswers
    Slots <- Two
    Tours <- PageTours
    Root = root
    Slugs <- JustX
    Externals <- JustUma
    Refs <- JustY
    Versions <- JustOne
    Handlers <- Two
    Base = x
    Credit = y
    MaxAdjustments = 2
    Requests <- Asked
    Rewarded <- JustUma
    Cycles <- JustX
    Admins <- Two
    People <- UmaAndVic
    Reports <- MCReports
    Facts <- MCFacts
    CodeOwner <- MCCodeOwner
    Velocity = 1
    Screeners <- Two
    MaxFailures = 1
    EventIds <- JustOne
    Types <- PaidAndOther
    Payouts <- JustOne
    PerDay = 2
    Lookback = 2
    LastInstant = 5
    StripeEvents <- MCStripeEvents
    Content <- MCContent
    InvoiceUser <- MCInvoiceUser
    Hooks <- Two
    Values <- Typed
    Blank = x
    Junk = y
    ApiTerms <- MCApiTerms
    Amounts <- Sold
    Families <- MCFamilies
    MaxTiers = 2
    Sums <- Minors
    Rates <- EurRates
    Instants <- FourInstants
SYMMETRY Symmetry
CHECK_DEADLOCK FALSE
INVARIANTS
    PartsTypeOK
    InheritsAncestry
    AdjustsShownUser
    MembersAreRooted
    RegisteredStaysOffered
    SuspicionIsNoticed
    RollupIsExact
    CompensatesItsOwn
    AnsweredIsDone
    AmountsAreExact
PROPERTIES
    KeepsSelection
    StoresLiability
    
