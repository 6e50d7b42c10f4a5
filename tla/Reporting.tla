------------------------------ MODULE Reporting ------------------------------
(***************************************************************************)
(* The four daily read models of one tenant and the loop that rebuilds     *)
(* them.  Every run takes the instant "now", goes back a number of whole   *)
(* days from it, reads the source rows of that window, and per table, in   *)
(* one transaction, deletes the rows of the window's days and writes them  *)
(* anew.                                                                   *)
(*                                                                         *)
(* The four rebuilds of a run share no row and fail one by one, so that a  *)
(* behaviour follows one of them, with the sources it reads.  Its reads    *)
(* are one step and its transaction is one.  Rewards are in one currency.  *)
(***************************************************************************)
EXTENDS Integers, FiniteSets, Functions

CONSTANTS
    Customers,      \* external user ids
    EventIds,
    Types,          \* event types; "paid" stands for PAID_EVENT_TYPES
    Payouts,        \* referral rewards, by scheduledPosting id
    PerDay,         \* instants of a day
    Lookback,       \* lookbackDays (90 in the code)
    LastInstant     \* bound: the clock stops

Times == 0..LastInstant
UtcDay(t) == t \div PerDay
Days == 0..UtcDay(LastInstant)
Tables == {"conversion", "performance", "liability", "retention"}

VARIABLES
    clock,
    log,            \* ingestedEvent rows; clients choose occurredAt
    joined,         \* tenantUser.joinedAt of the customers there are
    credited,       \* ledgerEntry rows of rewards
    posted,         \* scheduledPosting rows with status posted, with updatedAt
    follows,        \* the read model this behaviour is about
    table,          \* its rows
    exact,          \* history: a run is complete and nothing came after its reads
    rollup          \* control state and locals of the loop

sourceVars == <<log, joined, credited, posted>>
vars == <<clock, sourceVars, follows, table, exact, rollup>>

Nothing == [events |-> {}, members |-> {}, entries |-> {}, posted |-> {}]
Idle == [pc |-> "idle", now |-> 0, read |-> Nothing]

\* The columns of the unique index.
KeyOf(row) ==
    CASE follows = "conversion" -> <<row.day, row.type>>
      [] follows = "retention" -> <<row.cohort, row.day>>
      [] OTHER -> <<row.day>>

\* The clock and the sources are of their types; a table has one row per key.
TypeOK ==
    /\ clock \in Times
    /\ log \subseteq [id : EventIds, type : Types, user : Customers, at : Times]
    /\ DOMAIN joined \subseteq Customers /\ \A u \in DOMAIN joined : joined[u] \in Times
    /\ credited \subseteq [id : Payouts, user : Customers, at : Times]
    /\ posted \subseteq [id : Payouts, at : Times]
    /\ follows \in Tables
    /\ \A r, s \in table : KeyOf(r) = KeyOf(s) => r = s
    /\ rollup.pc \in {"idle", "write"} /\ exact \in BOOLEAN

Init ==
    /\ clock = 0
    /\ log = {} /\ joined = <<>> /\ credited = {} /\ posted = {}
    /\ follows \in Tables /\ table = {}
    /\ exact = FALSE
    /\ rollup = Idle

-----------------------------------------------------------------------------
(* The sources.                                                            *)

EventTables == {"conversion", "retention"}

Report(e, type, u, at) ==
    /\ follows \in EventTables
    /\ \A r \in log : r.id # e
    /\ log' = log \cup {[id |-> e, type |-> type, user |-> u, at |-> at]}
    /\ exact' = FALSE
    /\ UNCHANGED <<clock, joined, credited, posted, follows, table, rollup>>

Join(u) ==
    /\ follows \in EventTables
    /\ u \notin DOMAIN joined
    /\ joined' = [x \in DOMAIN joined \cup {u} |-> IF x = u THEN clock ELSE joined[x]]
    /\ exact' = FALSE
    /\ UNCHANGED <<clock, log, credited, posted, follows, table, rollup>>

\* The worker posts the ledger entry of a reward, then marks its row.
PostEntry(p, u) ==
    /\ follows \notin EventTables
    /\ \A r \in credited : r.id # p
    /\ credited' = credited \cup {[id |-> p, user |-> u, at |-> clock]}
    /\ exact' = FALSE
    /\ UNCHANGED <<clock, log, joined, posted, follows, table, rollup>>

MarkPosted(p) ==
    /\ \E r \in credited : r.id = p
    /\ \A r \in posted : r.id # p
    /\ posted' = posted \cup {[id |-> p, at |-> clock]}
    /\ exact' = FALSE
    /\ UNCHANGED <<clock, log, joined, credited, follows, table, rollup>>

Tick ==
    /\ clock < LastInstant
    /\ clock' = clock + 1
    /\ exact' = FALSE
    /\ UNCHANGED <<sourceVars, follows, table, rollup>>

-----------------------------------------------------------------------------
(* One run of the loop.                                                    *)

\* Lookback days back including today, with the time of day of now.
WindowStart(now) == now - (Lookback - 1) * PerDay
\* Mutant of InWindow: lt for lte.
InWindowBeforeNow(now, at) == WindowStart(now) <= at /\ at < now
InWindow(now, at) == WindowStart(now) <= at /\ at <= now

\* Mutant of DayInWindow: the deletion starts a day early.
DayOrTheOneBefore(now, day) == UtcDay(WindowStart(now)) - 1 <= day /\ day <= UtcDay(now)
\* The days whose rows a run deletes.
DayInWindow(now, day) == UtcDay(WindowStart(now)) <= day /\ day <= UtcDay(now)

RunOnce ==
    /\ rollup.pc = "idle"
    /\ rollup' =
          [pc |-> "write", now |-> clock,
           read |-> [events |-> {r \in log : InWindow(clock, r.at)},
                     members |-> DOMAIN joined,
                     entries |-> credited,
                     posted |-> {r \in posted : InWindow(clock, r.at)}]]
    /\ exact' = FALSE
    /\ UNCHANGED <<clock, sourceVars, follows, table>>

UsersOf(rows) == {r.user : r \in rows}

\* rebuildConversionDaily: a bucket per day and type of the events.
ConversionRows(now, read) ==
    LET Bucket(k) == {r \in read.events : <<UtcDay(r.at), r.type>> = k}
    IN  {[day |-> k[1], type |-> k[2], events |-> Cardinality(Bucket(k)),
          external |-> Cardinality(UsersOf(Bucket(k))),
          known |-> Cardinality(UsersOf(Bucket(k)) \cap read.members)]
         : k \in {<<UtcDay(r.at), r.type>> : r \in read.events}}

\* rebuildRewardPerformanceDaily: entries count on the day of the ledger entry,
\* rewards on the day they were marked.
PerformanceRows(now, read) ==
    LET entries == {r \in read.entries : InWindow(now, r.at)}
        On(rows, d) == {r \in rows : UtcDay(r.at) = d}
    IN  {[day |-> d, entries |-> Cardinality(On(entries, d)),
          users |-> Cardinality(UsersOf(On(entries, d))),
          posted |-> Cardinality(On(read.posted, d))]
         : d \in {UtcDay(r.at) : r \in entries \cup read.posted}}

\* rebuildTenantLiabilityDaily: one row, for the day of asOf, over all postings.
LiabilityRows(now, read) ==
    IF read.entries = {} THEN {}
    ELSE {[day |-> UtcDay(now), owed |-> Cardinality({r \in read.entries : r.at <= now}),
           accounts |-> Cardinality(UsersOf(read.entries))]}

\* rebuildCohortRetentionDaily: cohorts of the users who joined in the window.
RetentionRows(now, read) ==
    LET members == {u \in read.members : InWindow(now, joined[u])}
        Cohort(c) == {u \in members : UtcDay(joined[u]) = c}
        Active(d) ==
            UsersOf({r \in read.events : r.type = "paid" /\ UtcDay(r.at) = d}) \cap members
        keys == {k \in Days \X Days : k[1] <= k[2] /\ Cohort(k[1]) \cap Active(k[2]) # {}}
    IN  {[cohort |-> k[1], day |-> k[2], size |-> Cardinality(Cohort(k[1])),
          retained |-> Cardinality(Cohort(k[1]) \cap Active(k[2]))] : k \in keys}

NewRows(now, read) ==
    CASE follows = "conversion" -> ConversionRows(now, read)
      [] follows = "performance" -> PerformanceRows(now, read)
      [] follows = "liability" -> LiabilityRows(now, read)
      [] follows = "retention" -> RetentionRows(now, read)

Replaced(now, row) ==
    CASE follows = "liability" -> row.day = UtcDay(now)
      [] follows = "retention" -> DayInWindow(now, row.cohort)
      [] OTHER -> DayInWindow(now, row.day)

\* Nothing has come since the reads of this run.
Untouched ==
    /\ clock = rollup.now
    /\ rollup.read.events = {r \in log : InWindow(clock, r.at)}
    /\ rollup.read.members = DOMAIN joined /\ rollup.read.entries = credited
    /\ rollup.read.posted = {r \in posted : InWindow(clock, r.at)}

WriteTable ==
    LET kept == {row \in table : ~Replaced(rollup.now, row)}
        new == NewRows(rollup.now, rollup.read)
    IN  /\ rollup.pc = "write"
        /\ \A r \in kept, s \in new : KeyOf(r) # KeyOf(s)
        /\ table' = kept \cup new
        /\ exact' = Untouched
        /\ rollup' = Idle
        /\ UNCHANGED <<clock, sourceVars, follows>>

\* A statement throws, on a unique key for one; the loop counts a failure.
RebuildFails ==
    /\ rollup.pc = "write"
    /\ rollup' = Idle
    /\ exact' = FALSE
    /\ UNCHANGED <<clock, sourceVars, follows, table>>

Next ==
    \/ \E e \in EventIds, type \in Types, u \in Customers, at \in Times :
          Report(e, type, u, at)
    \/ \E u \in Customers : Join(u) \/ \E p \in Payouts : PostEntry(p, u)
    \/ \E p \in Payouts : MarkPosted(p)
    \/ Tick \/ RunOnce
    \/ WriteTable \/ RebuildFails

Spec == Init /\ [][Next]_vars

-----------------------------------------------------------------------------
\* getDashboardSeries: the rows of the last days, and of all cohorts.
Dashboard(days) ==
    {row \in table :
        follows = "retention" \/ row.day \in (UtcDay(clock) - (days - 1))..UtcDay(clock)}

\* A count over all the sources, for one day d.
OnDay(rows, d) == {r \in rows : UtcDay(r.at) = d /\ r.at <= clock}
CohortOf(d) == {u \in DOMAIN joined : UtcDay(joined[u]) = d}
PaidOn(u, d) == \E r \in OnDay(log, d) : r.user = u /\ r.type = "paid"

Conversions(d) ==
    LET Of(type) == {r \in OnDay(log, d) : r.type = type}
    IN  {[day |-> d, type |-> type, events |-> Cardinality(Of(type)),
          external |-> Cardinality(UsersOf(Of(type))),
          known |-> Cardinality(UsersOf(Of(type)) \cap DOMAIN joined)]
         : type \in {t \in Types : Of(t) # {}}}

Retention(d) ==
    {<<Cardinality(CohortOf(d)), Cardinality({u \in CohortOf(d) : PaidOn(u, day)}), day>>
     : day \in {day \in d..UtcDay(clock) : \E u \in CohortOf(d) : PaidOn(u, day)}}

(* After a run that did not fail and while nothing new has come, the dashboard
   of the last Lookback - 1 days is what a count over all the sources gives,
   although the run read only a window that starts in the middle of a day and
   replaced some rows and kept others.  The day the window starts in is left
   out: see OldDaysAreKept. *)
RollupIsExact ==
    exact =>
        \A d \in (UtcDay(clock) - (Lookback - 2))..UtcDay(clock) :
            LET shown == Dashboard(Lookback - 1)
                today == {row \in shown : row.day = d}
            IN  CASE follows = "conversion" -> today = Conversions(d)
                  [] follows = "performance" ->
                      SumFunctionOnSet([row \in today |-> row.entries + row.posted], today)
                      = Cardinality(OnDay(credited, d)) + Cardinality(OnDay(posted, d))
                  [] follows = "liability" ->
                      d = UtcDay(clock) =>
                      \A row \in today : row.owed = Cardinality(credited)
                  [] follows = "retention" ->
                      {<<row.size, row.retained, row.day>>
                       : row \in {row \in shown : row.cohort = d}} = Retention(d)

Figure(row) ==
    CASE follows = "conversion" -> row.events
      [] follows = "performance" -> row.entries + row.posted
      [] follows = "liability" -> row.owed
      [] follows = "retention" -> row.retained

\* The day a row's figure belongs to; of a cohort, the day it joined.
DayOf(row) == IF follows = "retention" THEN row.cohort ELSE row.day
RowsOf(rows, d) == {row \in rows : DayOf(row) = d}

Shown(d) == SumFunctionOnSet([row \in table |-> Figure(row)], RowsOf(table, d))

(* A step may make the figure of a day smaller only if it is the day in the
   middle of which the window of the run starts: the run reads the second part
   of that day and deletes the rows of the whole of it.  What leaves the window
   afterwards stays as that run left it. *)
KeepsOldDays ==
    \A d \in Days : Shown(d)' < Shown(d) => d = UtcDay(rollup.now) - (Lookback - 1)
OldDaysAreKept == [][KeepsOldDays]_vars
=============================================================================
