----------------------------- MODULE Promoters -----------------------------
(***************************************************************************)
(* The promoter programme of one tenant: users apply, admins approve,      *)
(* reject or activate by hand, and the qualification loop of the workers   *)
(* counts paid referrals per day and promotes who has enough of them.      *)
(*                                                                         *)
(* A step is one statement.  A transaction under READ COMMITTED is the     *)
(* statements that read, and one step for its commit.  Of the profile rows *)
(* only the open ones (effectiveTo is null) are kept: nothing reads others.*)
(***************************************************************************)
EXTENDS Integers, FiniteSets, Functions

CONSTANTS
    Users,          \* tenant users
    Edges,          \* their referral edges
    Referrer,       \* [Edges -> Users]
    Applications,   \* ids of promoterApplication rows
    Slots,          \* requests of users and admins that run at once
    Runners,        \* worker processes that run the qualification loop
    Tenants, Own,   \* tenants the loop visits; this one
    Required,       \* autoPromoterRule.requiredPaidReferrals
    WindowDays,     \* autoPromoterRule.windowDays
    LastDay,        \* bound: days that pass
    MaxFaults,      \* bound: runs that throw or die
    None            \* no user or application

ASSUME PromoterAssumption ==
    /\ Referrer \in [Edges -> Users]
    /\ IsFiniteSet(Edges)
    /\ Own \in Tenants
    /\ None \notin Users \cup Applications
    /\ Required \in Nat \ {0}
    /\ WindowDays \in Nat \ {0}
    /\ LastDay \in Nat \ {0}
    /\ MaxFaults \in Nat

VARIABLES
    day,        \* today
    locks,      \* the days lockEdge ran for an edge; the last is its lockedAt
    metrics,    \* promoterMetricsDaily.newPaidReferralsCount
    applicant,  \* promoterApplication.tenantUserId
    status,     \* promoterApplication.status
    profiles,   \* open promoterProfile rows of each user
    req,        \* control state and locals of each request
    run,        \* ... of each run of the loop
    faults

reviewVars == <<applicant, status>>
vars == <<day, locks, metrics, reviewVars, profiles, req, run, faults>>

Days == 1..LastDay
Profile == [kind : {"manual", "auto"}, by : Slots \cup Runners]
NoCounts == [u \in Users |-> 0]
IdleRequest == [pc |-> "idle", user |-> None, app |-> None, seen |-> {}]
IdleRun == [pc |-> "idle", day |-> 1, tenants |-> {}, counts |-> NoCounts, todo |-> {}]

\* Tables, requests and runs are of their types: a review writes no status and a
\* roll-up no count that the tables do not know.
TypeOK ==
    /\ day \in Days
    /\ locks \in [Edges -> SUBSET Days]
    /\ metrics \in [Users -> [Days -> Nat]]
    /\ applicant \in [Applications -> Users \cup {None}]
    /\ status \in [Applications -> {"absent", "submitted", "approved", "rejected"}]
    /\ profiles \in [Users -> SUBSET Profile]
    /\ req \in [Slots ->
          [pc : {"idle", "create", "close", "commit", "reject"},
           user : Users \cup {None}, app : Applications \cup {None},
           seen : SUBSET Profile]]
    /\ run \in [Runners ->
          [pc : {"idle", "turn", "edges", "upsert", "metrics", "profiles", "promote"},
           day : Days, tenants : SUBSET Tenants, counts : [Users -> Nat],
           todo : SUBSET Users]]
    /\ faults \in 0..MaxFaults

Init ==
    /\ day = 1
    /\ locks = [e \in Edges |-> {}]
    /\ metrics = [u \in Users |-> [d \in Days |-> 0]]
    /\ applicant = [a \in Applications |-> None]
    /\ status = [a \in Applications |-> "absent"]
    /\ profiles = [u \in Users |-> {}]
    /\ req = [s \in Slots |-> IdleRequest]
    /\ run = [r \in Runners |-> IdleRun]
    /\ faults = 0

-----------------------------------------------------------------------------
(* Time and referrals.                                                     *)

NextDay ==
    /\ day < LastDay
    /\ day' = day + 1
    /\ UNCHANGED <<locks, metrics, reviewVars, profiles, req, run, faults>>

\* lockEdge sets lockedAt, also of an edge that is locked.
LockEdge(e) ==
    /\ locks' = [locks EXCEPT ![e] = @ \cup {day}]
    /\ UNCHANGED <<day, metrics, reviewVars, profiles, req, run, faults>>

LockedOn(u, d) ==
    {e \in Edges : Referrer[e] = u /\ d \in locks[e] /\ \A f \in locks[e] : f <= d}

-----------------------------------------------------------------------------
(* Applications.                                                           *)

OpenApplications(u) == {a \in Applications : applicant[a] = u /\ status[a] = "submitted"}

Begin(s, pc, u, a) ==
    /\ req[s].pc = "idle"
    /\ req' = [req EXCEPT ![s] = [pc |-> pc, user |-> u, app |-> a, seen |-> {}]]
    /\ UNCHANGED <<day, locks, metrics, reviewVars, profiles, run, faults>>

\* A user with an open application is refused; the row is created later.
SubmitApplication(s, u) ==
    /\ OpenApplications(u) = {}
    /\ Begin(s, "create", u, None)

CreateApplication(s) ==
    \E a \in Applications :
        /\ req[s].pc = "create"
        /\ status[a] = "absent"
        /\ status' = [status EXCEPT ![a] = "submitted"]
        /\ applicant' = [applicant EXCEPT ![a] = req[s].user]
        /\ req' = [req EXCEPT ![s] = IdleRequest]
        /\ UNCHANGED <<day, locks, metrics, profiles, run, faults>>

\* requireSubmittedApplication reads the row before the transaction, or the
\* update, that reviews it.
ApproveApplication(s, a) ==
    /\ status[a] = "submitted"
    /\ Begin(s, "close", applicant[a], a)

RejectApplication(s, a) ==
    /\ status[a] = "submitted"
    /\ Begin(s, "reject", applicant[a], a)

ManualActivatePromoter(s, u) == Begin(s, "close", u, None)

\* updateMany closes the open profiles that are committed when it runs.
CloseProfiles(s) ==
    /\ req[s].pc = "close"
    /\ req' = [req EXCEPT ![s].pc = "commit", ![s].seen = profiles[req[s].user]]
    /\ UNCHANGED <<day, locks, metrics, reviewVars, profiles, run, faults>>

\* The transaction of approveApplication or, with an application row of its
\* own, of manualActivatePromoter.  The application's status is not read again.
CommitActivation(s) ==
    LET u == req[s].user
    IN  \E a \in Applications :
        /\ req[s].pc = "commit"
        /\ IF req[s].app = None THEN status[a] = "absent" ELSE a = req[s].app
        /\ profiles' = [profiles EXCEPT ![u] =
              (@ \ req[s].seen) \cup {[kind |-> "manual", by |-> s]}]
        /\ status' = [status EXCEPT ![a] = "approved"]
        /\ applicant' = [applicant EXCEPT ![a] = u]
        /\ req' = [req EXCEPT ![s] = IdleRequest]
        /\ UNCHANGED <<day, locks, metrics, run, faults>>

WriteRejected(s) ==
    /\ req[s].pc = "reject"
    /\ status' = [status EXCEPT ![req[s].app] = "rejected"]
    /\ req' = [req EXCEPT ![s] = IdleRequest]
    /\ UNCHANGED <<day, locks, metrics, applicant, profiles, run, faults>>

\* The request throws or its process dies; its transaction leaves nothing.
RequestFails(s) ==
    /\ req[s].pc # "idle"
    /\ faults < MaxFaults
    /\ faults' = faults + 1
    /\ req' = [req EXCEPT ![s] = IdleRequest]
    /\ UNCHANGED <<day, locks, metrics, reviewVars, profiles, run>>

\* What getPromoterStatus answers from.
PromoterSource(u) ==
    IF profiles[u] # {} THEN "profile"
    ELSE IF OpenApplications(u) # {} THEN "application" ELSE "default"

-----------------------------------------------------------------------------
(* The qualification loop.                                                 *)

otherVars == <<day, locks, reviewVars, req>>

\* Mutant of RunOnce: takes the date of a time zone that is ahead.
RunAhead(r) ==
    /\ run[r].pc = "idle"
    /\ run' = [run EXCEPT ![r] =
          [IdleRun EXCEPT !.pc = "turn", !.day = day + 1, !.tenants = Tenants]]
    /\ UNCHANGED <<otherVars, metrics, profiles, faults>>

\* runOnce takes the time and the tenants.
RunOnce(r) ==
    /\ run[r].pc = "idle"
    /\ run' = [run EXCEPT ![r] =
          [IdleRun EXCEPT !.pc = "turn", !.day = day, !.tenants = Tenants]]
    /\ UNCHANGED <<otherVars, metrics, profiles, faults>>

\* Each tenant's turn rolls up that tenant and evaluates all of them.
TakeTurn(r) ==
    \E t \in run[r].tenants :
        /\ run[r].pc = "turn"
        /\ run' = [run EXCEPT ![r].tenants = @ \ {t},
                              ![r].pc = IF t = Own THEN "edges" ELSE "metrics"]
        /\ UNCHANGED <<otherVars, metrics, profiles, faults>>

FinishRun(r) ==
    /\ run[r].pc = "turn"
    /\ run[r].tenants = {}
    /\ run' = [run EXCEPT ![r] = IdleRun]
    /\ UNCHANGED <<otherVars, metrics, profiles, faults>>

\* Mutant of ReadEdges: counts every locked edge, whatever its day.
ReadAllEdges(r) ==
    LET counts == [u \in Users |->
              Cardinality({e \in Edges : Referrer[e] = u /\ locks[e] # {}})]
    IN  /\ run[r].pc = "edges"
        /\ run' = [run EXCEPT ![r].pc = "upsert", ![r].counts = counts,
                              ![r].todo = {u \in Users : counts[u] > 0}]
        /\ UNCHANGED <<otherVars, metrics, profiles, faults>>

\* rollupDailyMetrics counts the edges locked on the day of the run.
ReadEdges(r) ==
    LET counts == [u \in Users |-> Cardinality(LockedOn(u, run[r].day))]
    IN  /\ run[r].pc = "edges"
        /\ run' = [run EXCEPT ![r].pc = "upsert", ![r].counts = counts,
                              ![r].todo = {u \in Users : counts[u] > 0}]
        /\ UNCHANGED <<otherVars, metrics, profiles, faults>>

UpsertMetrics(r) ==
    \E u \in run[r].todo :
        /\ run[r].pc = "upsert"
        /\ metrics' = [metrics EXCEPT ![u][run[r].day] = run[r].counts[u]]
        /\ run' = [run EXCEPT ![r].todo = @ \ {u}]
        /\ UNCHANGED <<otherVars, profiles, faults>>

FinishRollup(r) ==
    /\ run[r].pc = "upsert"
    /\ run[r].todo = {}
    /\ run' = [run EXCEPT ![r].pc = "metrics", ![r].counts = NoCounts]
    /\ UNCHANGED <<otherVars, metrics, profiles, faults>>

\* Mutant of Window: ends before the day of the run.
WindowBefore(d) == {e \in Days : d - WindowDays <= e /\ e < d}

\* The days from windowStart to the day of the run.
Window(d) == {e \in Days : d - (WindowDays - 1) <= e /\ e <= d}

\* evaluateAutoQualifications sums the metrics of the window per user.
ReadMetrics(r) ==
    /\ run[r].pc = "metrics"
    /\ run' = [run EXCEPT ![r].pc = "profiles", ![r].counts =
          [u \in Users |-> FoldFunctionOnSet(+, 0, metrics[u], Window(run[r].day))]]
    /\ UNCHANGED <<otherVars, metrics, profiles, faults>>

\* A user with an open profile is skipped: the newest is either an override or
\* already automatic.
ReadProfiles(r) ==
    /\ run[r].pc = "profiles"
    /\ run' = [run EXCEPT ![r].pc = "promote", ![r].counts = NoCounts, ![r].todo =
          {u \in Users : run[r].counts[u] >= Required /\ profiles[u] = {}}]
    /\ UNCHANGED <<otherVars, metrics, profiles, faults>>

\* Mutant of Promote: closes what is open, though it saw nothing open.
PromoteAndClose(r) ==
    \E u \in run[r].todo :
        /\ run[r].pc = "promote"
        /\ profiles' = [profiles EXCEPT ![u] = {[kind |-> "auto", by |-> r]}]
        /\ run' = [run EXCEPT ![r].todo = @ \ {u}]
        /\ UNCHANGED <<otherVars, metrics, faults>>

\* The transaction for a user without an open profile closes nothing.
Promote(r) ==
    \E u \in run[r].todo :
        /\ run[r].pc = "promote"
        /\ profiles' = [profiles EXCEPT ![u] = @ \cup {[kind |-> "auto", by |-> r]}]
        /\ run' = [run EXCEPT ![r].todo = @ \ {u}]
        /\ UNCHANGED <<otherVars, metrics, faults>>

FinishTurn(r) ==
    /\ run[r].pc = "promote"
    /\ run[r].todo = {}
    /\ run' = [run EXCEPT ![r].pc = "turn"]
    /\ UNCHANGED <<otherVars, metrics, profiles, faults>>

\* A statement throws: the failure is counted and the next tenant has its turn.
TurnThrows(r) ==
    /\ run[r].pc \notin {"idle", "turn"}
    /\ faults < MaxFaults
    /\ faults' = faults + 1
    /\ run' = [run EXCEPT ![r].pc = "turn", ![r].counts = NoCounts, ![r].todo = {}]
    /\ UNCHANGED <<otherVars, metrics, profiles>>

RunnerDies(r) ==
    /\ run[r].pc # "idle"
    /\ faults < MaxFaults
    /\ faults' = faults + 1
    /\ run' = [run EXCEPT ![r] = IdleRun]
    /\ UNCHANGED <<otherVars, metrics, profiles>>

Qualify(r) ==
    \/ RunOnce(r) \/ TakeTurn(r) \/ FinishRun(r)
    \/ ReadEdges(r) \/ UpsertMetrics(r) \/ FinishRollup(r)
    \/ ReadMetrics(r) \/ ReadProfiles(r) \/ Promote(r) \/ FinishTurn(r)

-----------------------------------------------------------------------------
Request(s) ==
    \/ \E u \in Users : SubmitApplication(s, u) \/ ManualActivatePromoter(s, u)
    \/ \E a \in Applications : ApproveApplication(s, a) \/ RejectApplication(s, a)
    \/ CreateApplication(s) \/ CloseProfiles(s) \/ CommitActivation(s)
    \/ WriteRejected(s) \/ RequestFails(s)

Next ==
    \/ NextDay
    \/ \E e \in Edges : LockEdge(e)
    \/ \E s \in Slots : Request(s)
    \/ \E r \in Runners : Qualify(r) \/ TurnThrows(r) \/ RunnerDies(r)

Spec == Init /\ [][Next]_vars

\* The loop of every worker goes on; a run is over before the next interval.
FairSpec == Spec /\ \A r \in Runners : WF_vars(Qualify(r))

-----------------------------------------------------------------------------
(* Properties.                                                             *)

\* Whoever has an approved application has a manual profile open, and is shown
\* by it, however reviews, activations and runs of the loop interleave.
ApprovedIsPromoter ==
    \A a \in Applications :
        status[a] = "approved" =>
            /\ \E p \in profiles[applicant[a]] : p.kind = "manual"
            /\ PromoterSource(applicant[a]) = "profile"

\* The loop promotes nobody for whom lockEdge ran fewer than the required times
\* in the window of the run, however often roll-ups count a day again.
PromotedIsEarned ==
    [][\A u \in Users, r \in Runners :
          LET row == [kind |-> "auto", by |-> r]
          IN  row \in profiles'[u] \ profiles[u] =>
                Cardinality({l \in Edges \X Window(run[r].day) :
                    Referrer[l[1]] = u /\ l[2] \in locks[l[1]]}) >= Required]_vars

\* A user with the required referrals of one day gets a profile, unless the
\* day ends first.
EarnedIsPromoted ==
    \A u \in Users, d \in Days :
        day = d /\ Cardinality(LockedOn(u, d)) >= Required
            ~> day # d \/ profiles[u] # {}
=============================================================================
