-------------------------- MODULE PromotersProofs --------------------------
(***************************************************************************)
(* ApprovedIsPromoter, PromotedIsEarned and the types, for any number of   *)
(* users, applications, admins, runners, days and faults.  IInv is about   *)
(* the reviews, in which the counts of the loop play no part.  LoopInv is  *)
(* about the loop: what a run or a metric row has counted is never more    *)
(* than the edges and days for which lockEdge has run.                     *)
(***************************************************************************)
EXTENDS Promoters, FiniteSums

Review == [pc : {"idle", "create", "close", "commit", "reject"},
           user : Users \cup {None}, app : Applications \cup {None},
           seen : SUBSET Profile]

ReviewTypes ==
    /\ applicant \in [Applications -> Users \cup {None}]
    /\ status \in [Applications -> {"absent", "submitted", "approved", "rejected"}]
    /\ profiles \in [Users -> SUBSET Profile]
    /\ req \in [Slots -> Review]

ApplicantsKnown ==
    \A a \in Applications : status[a] # "absent" => applicant[a] \in Users

RequestsNameUsers ==
    \A s \in Slots : req[s].pc # "idle" => req[s].user \in Users

\* What a review took from the application row stays so.
ReviewsNameApplicants ==
    \A s \in Slots :
        /\ req[s].pc = "reject" => req[s].app # None
        /\ req[s].pc # "idle" /\ req[s].app # None =>
              /\ status[req[s].app] # "absent"
              /\ applicant[req[s].app] = req[s].user

ApprovedHasManual ==
    \A a \in Applications :
        status[a] = "approved" => \E p \in profiles[applicant[a]] : p.kind = "manual"

IInv ==
    /\ ReviewTypes /\ ApplicantsKnown /\ RequestsNameUsers
    /\ ReviewsNameApplicants /\ ApprovedHasManual

-----------------------------------------------------------------------------
LEMMA InitIInv == Init => IInv
BY PromoterAssumption
   DEF Init, IInv, ReviewTypes, ApplicantsKnown, RequestsNameUsers,
       ReviewsNameApplicants, ApprovedHasManual, IdleRequest, Review

\* A request begins with a user and, if it reviews, with that user's application.
LEMMA BeginKeeps ==
    ASSUME IInv, NEW s \in Slots, NEW pc \in {"create", "close", "reject"},
           NEW u \in Users, NEW a \in Applications \cup {None},
           pc = "reject" => a # None,
           a # None => status[a] # "absent" /\ applicant[a] = u,
           Begin(s, pc, u, a)
    PROVE  IInv'
<1>1. req' \in [Slots -> Review]
  BY DEF IInv, ReviewTypes, Begin, Review
<1>2. /\ req'[s].pc = pc /\ req'[s].user = u /\ req'[s].app = a
      /\ \A t \in Slots \ {s} : req'[t] = req[t]
  BY DEF IInv, ReviewTypes, Begin
<1>3. UNCHANGED <<applicant, status, profiles>>
  BY DEF Begin, reviewVars
<1>4. ReviewTypes' /\ ApplicantsKnown' /\ ApprovedHasManual'
  BY <1>1, <1>3 DEF IInv, ReviewTypes, ApplicantsKnown, ApprovedHasManual
<1>5. RequestsNameUsers'
  BY <1>2 DEF IInv, RequestsNameUsers
<1>6. ReviewsNameApplicants'
  BY <1>2, <1>3 DEF IInv, ReviewsNameApplicants
<1> QED BY <1>4, <1>5, <1>6 DEF IInv

\* A request that ends, or a step that leaves the requests alone, keeps what
\* the requests say if no application row that is there changes its user or
\* disappears.
LEMMA RequestsKept ==
    ASSUME IInv, NEW s \in Slots,
           req' = [req EXCEPT ![s] = IdleRequest] \/ UNCHANGED req,
           \A a \in Applications : status[a] # "absent" =>
               status'[a] # "absent" /\ applicant'[a] = applicant[a]
    PROVE  req' \in [Slots -> Review] /\ RequestsNameUsers' /\ ReviewsNameApplicants'
<1>1. req' \in [Slots -> Review]
  BY DEF IInv, ReviewTypes, IdleRequest, Review
<1>2. \A t \in Slots : req'[t].pc # "idle" => req'[t] = req[t]
  BY DEF IInv, ReviewTypes, IdleRequest
<1>3. RequestsNameUsers'
  BY <1>2 DEF IInv, RequestsNameUsers
<1>4. \A t \in Slots : req[t].app \in Applications \cup {None}
  BY DEF IInv, ReviewTypes, Review
<1>5. ReviewsNameApplicants'
  BY <1>2, <1>4 DEF IInv, ReviewsNameApplicants
<1> QED BY <1>1, <1>3, <1>5

LEMMA CreateKeeps == ASSUME IInv, NEW s \in Slots, CreateApplication(s) PROVE IInv'
<1>1. PICK a \in Applications :
          /\ req[s].pc = "create" /\ status[a] = "absent"
          /\ status' = [status EXCEPT ![a] = "submitted"]
          /\ applicant' = [applicant EXCEPT ![a] = req[s].user]
          /\ req' = [req EXCEPT ![s] = IdleRequest]
          /\ profiles' = profiles
  BY DEF CreateApplication
<1>2. req[s].user \in Users
  BY <1>1 DEF IInv, RequestsNameUsers
<1>3. /\ status'[a] = "submitted" /\ applicant'[a] \in Users
      /\ \A b \in Applications \ {a} :
            status'[b] = status[b] /\ applicant'[b] = applicant[b]
  BY <1>1, <1>2 DEF IInv, ReviewTypes
<1>4. req' \in [Slots -> Review] /\ RequestsNameUsers' /\ ReviewsNameApplicants'
  BY <1>1, <1>3, RequestsKept
<1>5. ReviewTypes'
  BY <1>1, <1>2, <1>4 DEF IInv, ReviewTypes
<1>6. ApplicantsKnown' /\ ApprovedHasManual'
  BY <1>1, <1>3 DEF IInv, ApplicantsKnown, ApprovedHasManual
<1> QED BY <1>4, <1>5, <1>6 DEF IInv

LEMMA CloseKeeps == ASSUME IInv, NEW s \in Slots, CloseProfiles(s) PROVE IInv'
<1>1. /\ req[s].pc = "close"
      /\ req' = [req EXCEPT ![s].pc = "commit", ![s].seen = profiles[req[s].user]]
      /\ UNCHANGED <<applicant, status, profiles>>
  BY DEF CloseProfiles, reviewVars
<1>2. req[s] \in Review /\ req[s].user \in Users
  BY <1>1 DEF IInv, ReviewTypes, RequestsNameUsers
<1>3. profiles[req[s].user] \in SUBSET Profile
  BY <1>2 DEF IInv, ReviewTypes
<1>4. /\ req'[s].pc = "commit" /\ req'[s].user = req[s].user
      /\ req'[s].app = req[s].app
      /\ \A t \in Slots \ {s} : req'[t] = req[t]
  BY <1>1, <1>2 DEF IInv, ReviewTypes, Review
<1>5. req' \in [Slots -> Review]
  <2>1. [req[s] EXCEPT !.pc = "commit", !.seen = profiles[req[s].user]] \in Review
    BY <1>2, <1>3 DEF Review
  <2>2. req' = [req EXCEPT ![s] =
            [req[s] EXCEPT !.pc = "commit", !.seen = profiles[req[s].user]]]
    BY <1>1, <1>2 DEF IInv, ReviewTypes
  <2> QED BY <2>1, <2>2 DEF IInv, ReviewTypes
<1>6. ReviewTypes' /\ ApplicantsKnown' /\ ApprovedHasManual'
  BY <1>1, <1>5 DEF IInv, ReviewTypes, ApplicantsKnown, ApprovedHasManual
<1>7. RequestsNameUsers'
  BY <1>2, <1>4 DEF IInv, RequestsNameUsers
<1>8. ReviewsNameApplicants'
  <2> SUFFICES ASSUME NEW t \in Slots
               PROVE  /\ req'[t].pc = "reject" => req'[t].app # None
                      /\ req'[t].pc # "idle" /\ req'[t].app # None =>
                            /\ status[req'[t].app] # "absent"
                            /\ applicant[req'[t].app] = req'[t].user
    BY <1>1 DEF ReviewsNameApplicants
  <2>1. CASE t = s
    BY <2>1, <1>1, <1>4 DEF IInv, ReviewsNameApplicants
  <2>2. CASE t # s
    BY <2>2, <1>4 DEF IInv, ReviewsNameApplicants
  <2> QED BY <2>1, <2>2
<1> QED BY <1>6, <1>7, <1>8 DEF IInv

\* Whatever the transaction closes, it leaves a manual profile of its user.
LEMMA ActivationKeeps == ASSUME IInv, NEW s \in Slots, CommitActivation(s) PROVE IInv'
<1> DEFINE u == req[s].user
           row == [kind |-> "manual", by |-> s]
<1>1. PICK a \in Applications :
          /\ req[s].pc = "commit"
          /\ IF req[s].app = None THEN status[a] = "absent" ELSE a = req[s].app
          /\ profiles' = [profiles EXCEPT ![u] = (@ \ req[s].seen) \cup {row}]
          /\ status' = [status EXCEPT ![a] = "approved"]
          /\ applicant' = [applicant EXCEPT ![a] = u]
          /\ req' = [req EXCEPT ![s] = IdleRequest]
  BY DEF CommitActivation
<1>2. u \in Users /\ row \in Profile
  BY <1>1 DEF IInv, RequestsNameUsers, Profile
<1>3. status[a] # "absent" => applicant[a] = u
  BY <1>1 DEF IInv, ReviewsNameApplicants
<1>4. /\ status'[a] = "approved" /\ applicant'[a] = u
      /\ \A b \in Applications \ {a} :
            status'[b] = status[b] /\ applicant'[b] = applicant[b]
  BY <1>1 DEF IInv, ReviewTypes
<1>5. req' \in [Slots -> Review] /\ RequestsNameUsers' /\ ReviewsNameApplicants'
  BY <1>1, <1>3, <1>4, RequestsKept
<1>6. /\ row \in profiles'[u]
      /\ \A v \in Users \ {u} : profiles'[v] = profiles[v]
  BY <1>1, <1>2 DEF IInv, ReviewTypes
<1>7. profiles' \in [Users -> SUBSET Profile]
  BY <1>1, <1>2 DEF IInv, ReviewTypes
<1>8. ReviewTypes'
  BY <1>1, <1>2, <1>5, <1>7 DEF IInv, ReviewTypes
<1>9. ApplicantsKnown'
  BY <1>2, <1>4 DEF IInv, ApplicantsKnown
<1>10. ApprovedHasManual'
  <2> SUFFICES ASSUME NEW b \in Applications, status'[b] = "approved"
               PROVE  \E p \in profiles'[applicant'[b]] : p.kind = "manual"
    BY DEF ApprovedHasManual
  <2>1. CASE applicant'[b] = u
    BY <2>1, <1>6
  <2>2. CASE applicant'[b] # u
    <3>1. status[b] = "approved" /\ applicant'[b] = applicant[b]
      BY <2>2, <1>4
    <3>2. profiles'[applicant[b]] = profiles[applicant[b]]
      BY <2>2, <3>1, <1>6 DEF IInv, ApplicantsKnown
    <3> QED BY <3>1, <3>2 DEF IInv, ApprovedHasManual
  <2> QED BY <2>1, <2>2
<1> QED BY <1>5, <1>8, <1>9, <1>10 DEF IInv

LEMMA RejectKeeps == ASSUME IInv, NEW s \in Slots, WriteRejected(s) PROVE IInv'
<1>1. /\ req[s].pc = "reject"
      /\ status' = [status EXCEPT ![req[s].app] = "rejected"]
      /\ req' = [req EXCEPT ![s] = IdleRequest]
      /\ UNCHANGED <<applicant, profiles>>
  BY DEF WriteRejected
<1>2. req[s].app \in Applications /\ status[req[s].app] # "absent"
  BY <1>1 DEF IInv, ReviewTypes, Review, ReviewsNameApplicants
<1>3. \A b \in Applications :
          status'[b] = status[b] \/ (status'[b] = "rejected" /\ status[b] # "absent")
  BY <1>1, <1>2 DEF IInv, ReviewTypes
<1>4. req' \in [Slots -> Review] /\ RequestsNameUsers' /\ ReviewsNameApplicants'
  BY <1>1, <1>3, RequestsKept
<1>5. ReviewTypes'
  BY <1>1, <1>4 DEF IInv, ReviewTypes
<1>6. ApplicantsKnown' /\ ApprovedHasManual'
  BY <1>1, <1>3 DEF IInv, ApplicantsKnown, ApprovedHasManual
<1> QED BY <1>4, <1>5, <1>6 DEF IInv

LEMMA RequestFailsKeeps == ASSUME IInv, NEW s \in Slots, RequestFails(s) PROVE IInv'
<1>1. req' = [req EXCEPT ![s] = IdleRequest] /\ UNCHANGED <<applicant, status, profiles>>
  BY DEF RequestFails, reviewVars
<1>2. req' \in [Slots -> Review] /\ RequestsNameUsers' /\ ReviewsNameApplicants'
  BY <1>1, RequestsKept
<1> QED BY <1>1, <1>2
        DEF IInv, ReviewTypes, ApplicantsKnown, ApprovedHasManual

\* The loop writes profiles only to add an automatic one.
LEMMA PromoteKeeps == ASSUME IInv, NEW r \in Runners, Promote(r) PROVE IInv'
<1>1. PICK u \in run[r].todo :
          profiles' = [profiles EXCEPT ![u] = @ \cup {[kind |-> "auto", by |-> r]}]
  BY DEF Promote
<1>2. UNCHANGED <<applicant, status, req>>
  BY DEF Promote, otherVars, reviewVars
<1>3. /\ profiles' \in [Users -> SUBSET Profile]
      /\ \A v \in Users : profiles[v] \subseteq profiles'[v]
  <2> DEFINE row == [kind |-> "auto", by |-> r]
  <2>1. row \in Profile
    BY DEF Profile
  <2>2. profiles' = [profiles EXCEPT ![u] = profiles[u] \cup {row}]
    BY <1>1
  <2> HIDE DEF row
  <2>3. \A v \in Users :
            profiles'[v] = profiles[v] \/ profiles'[v] = profiles[v] \cup {row}
    BY <2>2 DEF IInv, ReviewTypes
  <2>4. \A v \in Users : profiles'[v] \in SUBSET Profile
    BY <2>1, <2>3 DEF IInv, ReviewTypes
  <2> QED BY <2>2, <2>3, <2>4 DEF IInv, ReviewTypes
<1>4. ApprovedHasManual'
  BY <1>2, <1>3 DEF IInv, ApprovedHasManual, ApplicantsKnown
<1> QED BY <1>2, <1>3, <1>4
        DEF IInv, ReviewTypes, ApplicantsKnown, RequestsNameUsers, ReviewsNameApplicants

LEMMA UntouchedKeeps ==
    ASSUME IInv, UNCHANGED <<applicant, status, profiles, req>> PROVE IInv'
BY DEF IInv, ReviewTypes, ApplicantsKnown, RequestsNameUsers, ReviewsNameApplicants,
       ApprovedHasManual

-----------------------------------------------------------------------------
LEMMA RequestKeeps == ASSUME IInv, NEW s \in Slots, Request(s) PROVE IInv'
<1>1. CASE \E u \in Users : SubmitApplication(s, u)
  <2>1. PICK u \in Users : Begin(s, "create", u, None)
    BY <1>1 DEF SubmitApplication
  <2> QED BY <2>1, BeginKeeps
<1>2. CASE \E u \in Users : ManualActivatePromoter(s, u)
  <2>1. PICK u \in Users : Begin(s, "close", u, None)
    BY <1>2 DEF ManualActivatePromoter
  <2> QED BY <2>1, BeginKeeps
<1>3. CASE \E a \in Applications : ApproveApplication(s, a) \/ RejectApplication(s, a)
  <2>1. PICK a \in Applications, pc \in {"close", "reject"} :
            status[a] = "submitted" /\ Begin(s, pc, applicant[a], a)
    BY <1>3 DEF ApproveApplication, RejectApplication
  <2>2. applicant[a] \in Users /\ a # None
    BY <2>1, PromoterAssumption DEF IInv, ApplicantsKnown
  <2> QED BY <2>1, <2>2, BeginKeeps
<1> QED BY <1>1, <1>2, <1>3, CreateKeeps, CloseKeeps, ActivationKeeps, RejectKeeps,
           RequestFailsKeeps DEF Request

LEMMA RunnerKeeps ==
    ASSUME IInv, NEW r \in Runners, Qualify(r) \/ TurnThrows(r) \/ RunnerDies(r)
    PROVE  IInv'
<1>1. CASE Promote(r)
  BY <1>1, PromoteKeeps
<1>2. CASE ~Promote(r)
  <2>1. UNCHANGED <<applicant, status, profiles, req>>
    BY <1>2 DEF Qualify, RunOnce, TakeTurn, FinishRun, ReadEdges, UpsertMetrics,
           FinishRollup, ReadMetrics, ReadProfiles, FinishTurn, TurnThrows, RunnerDies,
           otherVars, reviewVars
  <2> QED BY <2>1, UntouchedKeeps
<1> QED BY <1>1, <1>2

LEMMA NextIInv == IInv /\ [Next]_vars => IInv'
<1> SUFFICES ASSUME IInv, [Next]_vars PROVE IInv'
  OBVIOUS
<1>1. CASE NextDay \/ \E e \in Edges : LockEdge(e)
  BY <1>1, UntouchedKeeps DEF NextDay, LockEdge, reviewVars
<1>2. CASE \E s \in Slots : Request(s)
  BY <1>2, RequestKeeps
<1>3. CASE \E r \in Runners : Qualify(r) \/ TurnThrows(r) \/ RunnerDies(r)
  BY <1>3, RunnerKeeps
<1>4. CASE UNCHANGED vars
  BY <1>4, UntouchedKeeps DEF vars, reviewVars
<1> QED BY <1>1, <1>2, <1>3, <1>4 DEF Next

-----------------------------------------------------------------------------
(* The loop.  A count that a run holds, or that a metric row holds, is never
   more than the edges and days for which lockEdge has run.                *)

\* The edges of u's referrals that lockEdge ran for on day d, and on the days D.
LockedAt(u, d) == {e \in Edges : Referrer[e] = u /\ d \in locks[e]}
Locks(u, D) == {l \in Edges \X D : Referrer[l[1]] = u /\ l[2] \in locks[l[1]]}

Runs ==
    [pc : {"idle", "turn", "edges", "upsert", "metrics", "profiles", "promote"},
     day : Days, tenants : SUBSET Tenants, counts : [Users -> Nat], todo : SUBSET Users]

LoopTypes ==
    /\ day \in Days /\ locks \in [Edges -> SUBSET Days]
    /\ metrics \in [Users -> [Days -> Nat]]
    /\ run \in [Runners -> Runs]
    /\ faults \in 0..MaxFaults

MetricsKnown == \A u \in Users, d \in Days : metrics[u][d] <= Cardinality(LockedAt(u, d))

\* What a run has counted, has summed up and is about to promote.
RunKnown(s) ==
    /\ s.pc = "upsert" => \A u \in Users : s.counts[u] <= Cardinality(LockedAt(u, s.day))
    /\ s.pc = "profiles" =>
          \A u \in Users : s.counts[u] <= Cardinality(Locks(u, Window(s.day)))
    /\ s.pc = "promote" =>
          \A u \in s.todo : Required <= Cardinality(Locks(u, Window(s.day)))

LoopInv == LoopTypes /\ MetricsKnown /\ \A r \in Runners : RunKnown(run[r])

LEMMA WindowIsFinite ==
    ASSUME NEW d PROVE Window(d) \subseteq Days /\ IsFiniteSet(Window(d))
<1>1. IsFiniteSet(Days)
  BY PromoterAssumption, FS_Interval DEF Days
<1> QED BY <1>1, FS_Subset DEF Window

LEMMA LocksAreFinite ==
    ASSUME NEW u, NEW d, NEW D \in SUBSET Days
    PROVE  /\ IsFiniteSet(LockedAt(u, d)) /\ Cardinality(LockedAt(u, d)) \in Nat
           /\ IsFiniteSet(Locks(u, D)) /\ Cardinality(Locks(u, D)) \in Nat
<1>1. IsFiniteSet(Edges) /\ IsFiniteSet(Days)
  BY PromoterAssumption, FS_Interval DEF Days
<1>2. IsFiniteSet(Edges \X Days)
  BY <1>1, FS_Product
<1>3. LockedAt(u, d) \subseteq Edges /\ Locks(u, D) \subseteq Edges \X Days
  BY DEF LockedAt, Locks
<1> QED BY <1>1, <1>2, <1>3, FS_Subset, FS_CardinalityType

\* Edges that lockEdge has run for stay so.
LEMMA LocksGrow ==
    ASSUME LoopTypes, locks' \in [Edges -> SUBSET Days],
           \A e \in Edges : locks[e] \subseteq locks'[e]
    PROVE  /\ MetricsKnown /\ metrics' = metrics => MetricsKnown'
           /\ \A s \in Runs : RunKnown(s) => RunKnown(s)'
<1> DEFINE At(u, d) == {e \in Edges : Referrer[e] = u /\ d \in locks'[e]}
           Upto(u, D) == {l \in Edges \X D : Referrer[l[1]] = u /\ l[2] \in locks'[l[1]]}
<1>1. ASSUME NEW u \in Users, NEW d \in Days
      PROVE  /\ Cardinality(LockedAt(u, d)) \in Nat /\ Cardinality(At(u, d)) \in Nat
             /\ Cardinality(LockedAt(u, d)) <= Cardinality(At(u, d))
  <2>1. LockedAt(u, d) \subseteq At(u, d)
    BY DEF LockedAt
  <2>2. IsFiniteSet(At(u, d))
    BY PromoterAssumption, FS_Subset
  <2> QED BY <2>1, <2>2, FS_Subset, FS_CardinalityType
<1>2. ASSUME NEW u \in Users, NEW d \in Days
      PROVE  /\ Cardinality(Locks(u, Window(d))) \in Nat
             /\ Cardinality(Upto(u, Window(d))) \in Nat
             /\ Cardinality(Locks(u, Window(d))) <= Cardinality(Upto(u, Window(d)))
  <2>1. Locks(u, Window(d)) \subseteq Upto(u, Window(d))
    BY DEF Locks
  <2>2. IsFiniteSet(Edges \X Window(d))
    BY PromoterAssumption, WindowIsFinite, FS_Product
  <2>3. Upto(u, Window(d)) \subseteq Edges \X Window(d)
    OBVIOUS
  <2>4. IsFiniteSet(Upto(u, Window(d)))
    BY <2>2, <2>3, FS_Subset
  <2> QED BY <2>1, <2>4, FS_Subset, FS_CardinalityType
<1>3. ASSUME MetricsKnown, metrics' = metrics
      PROVE  \A u \in Users, d \in Days : metrics'[u][d] <= Cardinality(At(u, d))
  <2>1. \A u \in Users, d \in Days : metrics[u][d] \in Nat
    BY DEF LoopTypes
  <2> HIDE DEF At
  <2> QED BY <1>1, <1>3, <2>1 DEF MetricsKnown
<1>4. ASSUME NEW s \in Runs, RunKnown(s)
      PROVE  /\ s.pc = "upsert" => \A u \in Users : s.counts[u] <= Cardinality(At(u, s.day))
             /\ s.pc = "profiles" =>
                   \A u \in Users : s.counts[u] <= Cardinality(Upto(u, Window(s.day)))
             /\ s.pc = "promote" =>
                   \A u \in s.todo : Required <= Cardinality(Upto(u, Window(s.day)))
  <2>1. /\ s.day \in Days /\ s.todo \subseteq Users
        /\ \A u \in Users : s.counts[u] \in Nat
    BY DEF Runs
  <2>2. Required \in Nat
    BY PromoterAssumption
  <2> HIDE DEF At, Upto
  <2> QED BY <1>1, <1>2, <1>4, <2>1, <2>2 DEF RunKnown
<1> QED BY <1>3, <1>4 DEF MetricsKnown, RunKnown, LockedAt, Locks, Window, Days

\* An edge locked on several days counts once for each.
LEMMA SumOfLocks ==
    ASSUME NEW u \in Users, NEW D \in SUBSET Days, NEW f \in [Days -> Nat],
           \A d \in D : f[d] <= Cardinality(LockedAt(u, d))
    PROVE  SumFunctionOnSet(f, D) <= Cardinality(Locks(u, D))
<1> DEFINE Bad == {T \in SUBSET D : ~(SumFunctionOnSet(f, T) <= Cardinality(Locks(u, T)))}
<1> SUFFICES ASSUME Bad # {} PROVE FALSE
  OBVIOUS
<1>1. IsFiniteSet(D)
  <2>1. IsFiniteSet(Days)
    BY PromoterAssumption, FS_Interval DEF Days
  <2> QED BY <2>1, FS_Subset
<1>2. PICK T \in Bad : \A V \in Bad : V \subseteq T => V = T
  <2>1. Bad \subseteq SUBSET D
    OBVIOUS
  <2> HIDE DEF Bad
  <2> QED BY <1>1, <2>1, SmallestBad
<1>3. T # {}
  <2>1. Cardinality(Locks(u, {})) \in Nat
    BY LocksAreFinite
  <2>2. SumFunctionOnSet(f, {}) = 0
    BY SumEmpty
  <2> QED BY <2>1, <2>2
<1> PICK x : x \in T
  BY <1>3
<1> PICK rest : rest = T \ {x}
  OBVIOUS
<1>4. SumFunctionOnSet(f, rest) <= Cardinality(Locks(u, rest))
  BY <1>2
<1>5. SumFunctionOnSet(f, T) = f[x] + SumFunctionOnSet(f, rest)
        /\ SumFunctionOnSet(f, rest) \in Int
  <2>1. IsFiniteSet(T) /\ IsFiniteSet(rest) /\ \A d \in T : f[d] \in Int
    BY <1>1, FS_Subset
  <2> QED BY <2>1, SumTakesOut, SumIsInteger
<1>6. /\ Cardinality(LockedAt(u, x)) \in Nat /\ Cardinality(Locks(u, rest)) \in Nat
      /\ IsFiniteSet(LockedAt(u, x)) /\ IsFiniteSet(Locks(u, rest))
  <2>1. rest \in SUBSET Days
    OBVIOUS
  <2> QED BY <2>1, LocksAreFinite
<1> PICK new : new = LockedAt(u, x) \X {x}
  OBVIOUS
<1>7. IsFiniteSet(new) /\ Cardinality(new) = Cardinality(LockedAt(u, x))
  <2>1. IsFiniteSet({x}) /\ Cardinality({x}) = 1
    BY FS_Singleton
  <2>2. IsFiniteSet(new) /\ Cardinality(new) = Cardinality(LockedAt(u, x)) * 1
    BY <1>6, <2>1, FS_Product
  <2> QED BY <1>6, <2>2
<1>8. Locks(u, T) = Locks(u, rest) \cup new /\ Locks(u, rest) \cap new = {}
  BY DEF Locks, LockedAt
<1>9. Cardinality(Locks(u, T)) = Cardinality(Locks(u, rest)) + Cardinality(new)
  <2>1. Cardinality(Locks(u, rest) \cap new) = 0
    BY <1>8, FS_EmptySet
  <2>2. Cardinality(Locks(u, rest) \cup new) =
            Cardinality(Locks(u, rest)) + Cardinality(new) - 0
    BY <1>6, <1>7, <2>1, FS_Union
  <2> QED BY <1>6, <1>7, <1>8, <2>2
<1>10. f[x] \in Nat /\ f[x] <= Cardinality(LockedAt(u, x))
  OBVIOUS
<1> QED BY <1>4, <1>5, <1>6, <1>7, <1>9, <1>10

-----------------------------------------------------------------------------
LEMMA LoopInitially == Init => LoopInv
<1> SUFFICES ASSUME Init PROVE LoopInv
  OBVIOUS
<1>1. 1 \in Days /\ 0 \in 0..MaxFaults
  BY PromoterAssumption DEF Days
<1>2. IdleRun \in Runs /\ IdleRun.pc = "idle"
  BY <1>1 DEF IdleRun, NoCounts, Runs
<1>3. LoopTypes
  BY <1>1, <1>2 DEF Init, LoopTypes
<1>4. MetricsKnown
  <2>1. ASSUME NEW u \in Users, NEW d \in Days PROVE metrics[u][d] = 0
    BY DEF Init
  <2> QED BY <2>1, LocksAreFinite DEF MetricsKnown
<1>5. \A r \in Runners : RunKnown(run[r])
  BY <1>2 DEF Init, RunKnown
<1> QED BY <1>3, <1>4, <1>5 DEF LoopInv

\* Only run r goes on, and the metrics stay.
LEMMA RunGoesOn ==
    ASSUME LoopInv, NEW r \in Runners, NEW s \in Runs, RunKnown(s),
           run' = [run EXCEPT ![r] = s], UNCHANGED <<day, locks, metrics>>,
           faults' \in 0..MaxFaults
    PROVE  LoopInv'
<1>1. LoopTypes'
  BY DEF LoopInv, LoopTypes
<1>2. MetricsKnown'
  BY DEF LoopInv, MetricsKnown, LockedAt
<1>3. ASSUME NEW q \in Runners PROVE RunKnown(run[q])'
  <2> PICK t : t = run'[q]
    OBVIOUS
  <2>1. RunKnown(t)
    BY DEF LoopInv, LoopTypes
  <2>2. RunKnown(t)'
    BY <2>1 DEF RunKnown, LockedAt, Locks, Window, Days
  <2> QED BY <2>2 DEF RunKnown
<1> QED BY <1>1, <1>2, <1>3 DEF LoopInv

LEMMA UpsertKeeps == ASSUME LoopInv, NEW r \in Runners, UpsertMetrics(r) PROVE LoopInv'
<1>1. PICK u \in run[r].todo :
          /\ run[r].pc = "upsert"
          /\ metrics' = [metrics EXCEPT ![u][run[r].day] = run[r].counts[u]]
          /\ run' = [run EXCEPT ![r].todo = @ \ {u}]
          /\ UNCHANGED <<otherVars, faults>>
  BY DEF UpsertMetrics
<1> PICK s : s = run[r]
  OBVIOUS
<1> PICK t : t = [s EXCEPT !.todo = @ \ {u}]
  OBVIOUS
<1>2. s \in Runs /\ RunKnown(s) /\ s.pc = "upsert" /\ u \in Users /\ s.day \in Days
        /\ s.counts[u] \in Nat
  BY <1>1 DEF LoopInv, LoopTypes, Runs
<1>3. t \in Runs /\ t.pc = "upsert" /\ t.day = s.day /\ t.counts = s.counts
  BY <1>2 DEF Runs
<1>4. run' = [run EXCEPT ![r] = t]
  BY <1>1 DEF LoopInv, LoopTypes
<1>5. /\ metrics'[u][s.day] = s.counts[u]
      /\ \A v \in Users, d \in Days : v # u \/ d # s.day => metrics'[v][d] = metrics[v][d]
      /\ metrics' \in [Users -> [Days -> Nat]]
  BY <1>1, <1>2 DEF LoopInv, LoopTypes
<1>6. RunKnown(t)
  BY <1>2, <1>3 DEF RunKnown
<1>7. UNCHANGED <<day, locks>> /\ faults' = faults
  BY <1>1 DEF otherVars
<1>8. \A v \in Users, d \in Days : metrics'[v][d] <= Cardinality(LockedAt(v, d))
  BY <1>2, <1>5 DEF LoopInv, MetricsKnown, RunKnown
<1>9. MetricsKnown'
  BY <1>7, <1>8 DEF MetricsKnown, LockedAt, Days
<1>10. LoopTypes'
  BY <1>3, <1>4, <1>5, <1>7 DEF LoopInv, LoopTypes
<1>11. ASSUME NEW q \in Runners PROVE RunKnown(run[q])'
  <2> PICK w : w = run'[q]
    OBVIOUS
  <2>1. RunKnown(w)
    BY <1>4, <1>6 DEF LoopInv, LoopTypes
  <2>2. RunKnown(w)'
    BY <1>7, <2>1 DEF RunKnown, LockedAt, Locks, Window, Days
  <2> QED BY <2>2 DEF RunKnown
<1> QED BY <1>9, <1>10, <1>11 DEF LoopInv

LEMMA ReadEdgesKeeps == ASSUME LoopInv, NEW r \in Runners, ReadEdges(r) PROVE LoopInv'
<1> PICK s : s = run[r]
  OBVIOUS
<1> PICK counts : counts = [u \in Users |-> Cardinality(LockedOn(u, s.day))]
  OBVIOUS
<1> PICK t : t = [s EXCEPT !.pc = "upsert", !.counts = counts,
                           !.todo = {u \in Users : counts[u] > 0}]
  OBVIOUS
<1>1. s \in Runs /\ s.day \in Days
  BY DEF LoopInv, LoopTypes, Runs
<1>2. ASSUME NEW u \in Users
      PROVE counts[u] \in Nat /\ counts[u] <= Cardinality(LockedAt(u, s.day))
  <2>1. LockedOn(u, s.day) \subseteq LockedAt(u, s.day)
    BY DEF LockedOn, LockedAt
  <2> QED BY <2>1, LocksAreFinite, FS_Subset, FS_CardinalityType
<1>3. t.pc = "upsert" /\ t.day = s.day /\ t.counts = counts
        /\ t.todo = {u \in Users : counts[u] > 0} /\ t.tenants = s.tenants
  BY <1>1 DEF Runs
<1>4. t = [pc |-> t.pc, day |-> t.day, tenants |-> t.tenants, counts |-> t.counts,
           todo |-> t.todo]
  BY <1>1 DEF Runs
<1>5. counts \in [Users -> Nat]
  BY <1>2
<1>6. t \in Runs
  BY <1>1, <1>3, <1>4, <1>5 DEF Runs
<1>7. RunKnown(t)
  BY <1>2, <1>3 DEF RunKnown
<1>8. run' = [run EXCEPT ![r] = t] /\ UNCHANGED <<day, locks, metrics, faults>>
  BY DEF ReadEdges, otherVars, LoopInv, LoopTypes
<1> QED BY <1>6, <1>7, <1>8, RunGoesOn DEF LoopInv, LoopTypes

LEMMA ReadMetricsKeeps == ASSUME LoopInv, NEW r \in Runners, ReadMetrics(r) PROVE LoopInv'
<1> PICK s : s = run[r]
  OBVIOUS
<1> PICK counts : counts = [u \in Users |-> SumFunctionOnSet(metrics[u], Window(s.day))]
  OBVIOUS
<1> PICK t : t = [s EXCEPT !.pc = "profiles", !.counts = counts]
  OBVIOUS
<1>1. s \in Runs /\ s.day \in Days
  BY DEF LoopInv, LoopTypes, Runs
<1>2. ASSUME NEW u \in Users
      PROVE counts[u] \in Nat /\ counts[u] <= Cardinality(Locks(u, Window(s.day)))
  <2> PICK f : f = metrics[u]
    OBVIOUS
  <2>1. f \in [Days -> Nat] /\ Window(s.day) \subseteq Days /\ IsFiniteSet(Window(s.day))
    BY WindowIsFinite DEF LoopInv, LoopTypes
  <2>2. \A d \in Window(s.day) : f[d] <= Cardinality(LockedAt(u, d))
    BY <2>1 DEF LoopInv, MetricsKnown
  <2>3. SumFunctionOnSet(f, Window(s.day)) <= Cardinality(Locks(u, Window(s.day)))
    BY <2>1, <2>2, SumOfLocks
  <2>4. SumFunctionOnSet(f, Window(s.day)) \in Nat
    <3>1. \A d \in Window(s.day) : f[d] \in Nat
      BY <2>1
    <3> QED BY <2>1, <3>1, SumIsNatural
  <2> QED BY <2>3, <2>4
<1>3. t.pc = "profiles" /\ t.day = s.day /\ t.counts = counts
        /\ t.todo = s.todo /\ t.tenants = s.tenants
  BY <1>1 DEF Runs
<1>4. t = [pc |-> t.pc, day |-> t.day, tenants |-> t.tenants, counts |-> t.counts,
           todo |-> t.todo]
  BY <1>1 DEF Runs
<1>5. counts \in [Users -> Nat]
  BY <1>2
<1>6. t \in Runs
  BY <1>1, <1>3, <1>4, <1>5 DEF Runs
<1>7. RunKnown(t)
  BY <1>2, <1>3 DEF RunKnown
<1>8. counts = [u \in Users |-> FoldFunctionOnSet(+, 0, metrics[u], Window(s.day))]
  BY DEF SumFunctionOnSet
<1>9. run' = [run EXCEPT ![r] = t] /\ UNCHANGED <<day, locks, metrics, faults>>
  BY <1>8 DEF ReadMetrics, otherVars, LoopInv, LoopTypes
<1> QED BY <1>6, <1>7, <1>9, RunGoesOn DEF LoopInv, LoopTypes

LEMMA ReadProfilesKeeps == ASSUME LoopInv, NEW r \in Runners, ReadProfiles(r) PROVE LoopInv'
<1> PICK s : s = run[r]
  OBVIOUS
<1> PICK todo : todo = {u \in Users : s.counts[u] >= Required /\ profiles[u] = {}}
  OBVIOUS
<1> PICK t : t = [s EXCEPT !.pc = "promote", !.counts = NoCounts, !.todo = todo]
  OBVIOUS
<1>1. s \in Runs /\ s.day \in Days /\ s.pc = "profiles" /\ RunKnown(s)
        /\ \A u \in Users : s.counts[u] \in Nat
  BY DEF LoopInv, LoopTypes, Runs, ReadProfiles
<1>2. ASSUME NEW u \in todo PROVE Required <= Cardinality(Locks(u, Window(s.day)))
  <2>1. /\ u \in Users /\ s.counts[u] >= Required
        /\ s.counts[u] <= Cardinality(Locks(u, Window(s.day)))
    BY <1>1 DEF RunKnown
  <2>2. Cardinality(Locks(u, Window(s.day))) \in Nat /\ Required \in Nat
    BY WindowIsFinite, LocksAreFinite, PromoterAssumption
  <2> QED BY <1>1, <2>1, <2>2
<1>3. t.pc = "promote" /\ t.day = s.day /\ t.counts = NoCounts
        /\ t.todo = todo /\ t.tenants = s.tenants
  BY <1>1 DEF Runs
<1>4. t = [pc |-> t.pc, day |-> t.day, tenants |-> t.tenants, counts |-> t.counts,
           todo |-> t.todo]
  BY <1>1 DEF Runs
<1>5. t \in Runs
  BY <1>1, <1>3, <1>4 DEF Runs, NoCounts
<1>6. RunKnown(t)
  BY <1>2, <1>3 DEF RunKnown
<1>7. run' = [run EXCEPT ![r] = t] /\ UNCHANGED <<day, locks, metrics, faults>>
  BY DEF ReadProfiles, otherVars, LoopInv, LoopTypes
<1> QED BY <1>5, <1>6, <1>7, RunGoesOn DEF LoopInv, LoopTypes

\* A run that promotes leaves one user less to do.
LEMMA PromoteRunKeeps == ASSUME LoopInv, NEW r \in Runners, Promote(r) PROVE LoopInv'
<1>1. PICK u \in run[r].todo :
          /\ run' = [run EXCEPT ![r].todo = @ \ {u}]
          /\ UNCHANGED <<day, locks, metrics, faults>>
  BY DEF Promote, otherVars
<1> PICK s : s = run[r]
  OBVIOUS
<1> PICK t : t = [s EXCEPT !.todo = @ \ {u}]
  OBVIOUS
<1>2. s \in Runs /\ RunKnown(s) /\ s.pc = "promote"
  BY DEF LoopInv, LoopTypes, Promote
<1>3. t \in Runs /\ t.pc = "promote" /\ t.day = s.day /\ t.todo \subseteq s.todo
  BY <1>2 DEF Runs
<1>4. RunKnown(t)
  BY <1>2, <1>3 DEF RunKnown
<1>5. run' = [run EXCEPT ![r] = t]
  BY <1>1 DEF LoopInv, LoopTypes
<1> QED BY <1>1, <1>3, <1>4, <1>5, RunGoesOn DEF LoopInv, LoopTypes

\* The other steps of a run take it to where nothing is known of what it holds.
LEMMA OtherRunStepsKeep ==
    ASSUME LoopInv, NEW r \in Runners,
           \/ RunOnce(r) \/ TakeTurn(r) \/ FinishRun(r) \/ FinishRollup(r) \/ FinishTurn(r)
           \/ TurnThrows(r) \/ RunnerDies(r)
    PROVE  LoopInv'
<1> PICK s : s = run[r]
  OBVIOUS
<1>1. s \in Runs /\ run \in [Runners -> Runs] /\ day \in Days
  BY DEF LoopInv, LoopTypes
<1>2. IdleRun \in Runs /\ IdleRun.pc = "idle" /\ NoCounts \in [Users -> Nat]
  BY PromoterAssumption DEF IdleRun, NoCounts, Runs, Days
<1>3. ASSUME NEW t \in Runs, t.pc \in {"idle", "turn", "edges", "metrics"},
             run' = [run EXCEPT ![r] = t], UNCHANGED <<day, locks, metrics>>,
             faults' \in 0..MaxFaults
      PROVE  LoopInv'
  BY <1>3, RunGoesOn DEF RunKnown
<1>4. faults \in 0..MaxFaults /\ (faults < MaxFaults => faults + 1 \in 0..MaxFaults)
  BY PromoterAssumption DEF LoopInv, LoopTypes
<1>5. CASE RunOnce(r)
  <2> PICK t : t = [IdleRun EXCEPT !.pc = "turn", !.day = day, !.tenants = Tenants]
    OBVIOUS
  <2>1. t \in Runs /\ t.pc = "turn"
    BY <1>1, <1>2 DEF Runs, IdleRun
  <2> QED BY <1>3, <1>4, <1>5, <2>1 DEF RunOnce, otherVars
<1>6. CASE TakeTurn(r)
  <2>1. PICK T \in SUBSET Tenants, pc \in {"edges", "metrics"} :
            run' = [run EXCEPT ![r].tenants = T, ![r].pc = pc]
    <3>1. PICK t \in run[r].tenants :
              run' = [run EXCEPT ![r].tenants = @ \ {t},
                                 ![r].pc = IF t = Own THEN "edges" ELSE "metrics"]
      BY <1>6 DEF TakeTurn
    <3>2. run[r].tenants \ {t} \in SUBSET Tenants
      BY <1>1 DEF Runs
    <3> QED BY <3>1, <3>2
  <2> PICK t : t = [s EXCEPT !.tenants = T, !.pc = pc]
    OBVIOUS
  <2>2. t \in Runs /\ t.pc = pc
    BY <1>1 DEF Runs
  <2>3. run' = [run EXCEPT ![r] = t]
    BY <1>1, <2>1
  <2> QED BY <1>3, <1>4, <1>6, <2>2, <2>3 DEF TakeTurn, otherVars
<1>7. CASE FinishRun(r)
  BY <1>2, <1>3, <1>4, <1>7 DEF FinishRun, otherVars
<1>8. CASE FinishRollup(r)
  <2> PICK t : t = [s EXCEPT !.pc = "metrics", !.counts = NoCounts]
    OBVIOUS
  <2>1. t \in Runs /\ t.pc = "metrics"
    BY <1>1, <1>2 DEF Runs
  <2>2. run' = [run EXCEPT ![r] = t]
    BY <1>1, <1>8 DEF FinishRollup
  <2> QED BY <1>3, <1>4, <1>8, <2>1, <2>2 DEF FinishRollup, otherVars
<1>9. CASE FinishTurn(r)
  <2> PICK t : t = [s EXCEPT !.pc = "turn"]
    OBVIOUS
  <2>1. t \in Runs /\ t.pc = "turn"
    BY <1>1 DEF Runs
  <2>2. run' = [run EXCEPT ![r] = t]
    BY <1>1, <1>9 DEF FinishTurn
  <2> QED BY <1>3, <1>4, <1>9, <2>1, <2>2 DEF FinishTurn, otherVars
<1>10. CASE TurnThrows(r)
  <2> PICK t : t = [s EXCEPT !.pc = "turn", !.counts = NoCounts, !.todo = {}]
    OBVIOUS
  <2>1. t \in Runs /\ t.pc = "turn"
    BY <1>1, <1>2 DEF Runs
  <2>2. run' = [run EXCEPT ![r] = t]
    BY <1>1, <1>10 DEF TurnThrows
  <2> QED BY <1>3, <1>4, <1>10, <2>1, <2>2 DEF TurnThrows, otherVars
<1>11. CASE RunnerDies(r)
  BY <1>2, <1>3, <1>4, <1>11 DEF RunnerDies, otherVars
<1> QED BY <1>5, <1>6, <1>7, <1>8, <1>9, <1>10, <1>11

\* The day, the locks and the requests change without the loop.
LEMMA LoopStays ==
    ASSUME LoopInv, day' \in Days, locks' \in [Edges -> SUBSET Days],
           \A e \in Edges : locks[e] \subseteq locks'[e],
           UNCHANGED <<metrics, run>>, faults' \in 0..MaxFaults
    PROVE  LoopInv'
<1>1. LoopTypes' /\ MetricsKnown'
  BY LocksGrow DEF LoopInv, LoopTypes
<1>2. ASSUME NEW q \in Runners PROVE RunKnown(run[q])'
  <2> PICK s : s = run[q]
    OBVIOUS
  <2>1. s \in Runs /\ RunKnown(s)
    BY DEF LoopInv, LoopTypes
  <2>2. RunKnown(s)'
    BY <2>1, LocksGrow DEF LoopInv
  <2> QED BY <2>2 DEF RunKnown
<1> QED BY <1>1, <1>2 DEF LoopInv

LEMMA NextLoopInv == LoopInv /\ [Next]_vars => LoopInv'
<1> SUFFICES ASSUME LoopInv, [Next]_vars PROVE LoopInv'
  OBVIOUS
<1>1. /\ day \in Days /\ locks \in [Edges -> SUBSET Days] /\ faults \in 0..MaxFaults
      /\ faults < MaxFaults => faults + 1 \in 0..MaxFaults
      /\ day < LastDay => day + 1 \in Days
  BY PromoterAssumption DEF LoopInv, LoopTypes, Days
<1>2. CASE NextDay
  BY <1>1, <1>2, LoopStays DEF NextDay
<1>3. ASSUME NEW e \in Edges, LockEdge(e) PROVE LoopInv'
  <2>1. locks' \in [Edges -> SUBSET Days] /\ \A f \in Edges : locks[f] \subseteq locks'[f]
    BY <1>1, <1>3 DEF LockEdge
  <2> QED BY <1>1, <1>3, <2>1, LoopStays DEF LockEdge
<1>4. ASSUME NEW s \in Slots, Request(s) PROVE LoopInv'
  <2>1. UNCHANGED <<day, locks, metrics, run>>
    BY <1>4 DEF Request, SubmitApplication, ManualActivatePromoter, ApproveApplication,
           RejectApplication, Begin, CreateApplication, CloseProfiles, CommitActivation,
           WriteRejected, RequestFails
  <2>2. faults' = faults \/ (faults < MaxFaults /\ faults' = faults + 1)
    BY <1>4 DEF Request, SubmitApplication, ManualActivatePromoter, ApproveApplication,
           RejectApplication, Begin, CreateApplication, CloseProfiles, CommitActivation,
           WriteRejected, RequestFails
  <2> QED BY <1>1, <2>1, <2>2, LoopStays
<1>5. ASSUME NEW r \in Runners, Qualify(r) \/ TurnThrows(r) \/ RunnerDies(r) PROVE LoopInv'
  BY <1>5, ReadEdgesKeeps, UpsertKeeps, ReadMetricsKeeps, ReadProfilesKeeps,
     PromoteRunKeeps, OtherRunStepsKeep DEF Qualify
<1>6. CASE UNCHANGED vars
  BY <1>1, <1>6, LoopStays DEF vars
<1> QED BY <1>2, <1>3, <1>4, <1>5, <1>6 DEF Next

-----------------------------------------------------------------------------
\* An approved application's user has a manual profile open and is shown as a
\* promoter, whatever admins, users, runs of the loop and failures interleave.
THEOREM ApprovedStaysPromoter == Spec => []ApprovedIsPromoter
<1>1. IInv => ApprovedIsPromoter
  BY DEF IInv, ApprovedHasManual, ApprovedIsPromoter, PromoterSource
<1> QED BY <1>1, InitIInv, NextIInv, PTL DEF Spec

\* Every table, request and run is of its type, of which ApprovedIsPromoter and
\* PromotedIsEarned each know a part (PromoterService, MetricsService).
THEOREM TypeCorrect == Spec => []TypeOK
<1>1. IInv /\ LoopInv => TypeOK
  BY DEF IInv, ReviewTypes, Review, LoopInv, LoopTypes, Runs, TypeOK
<1>2. IInv /\ LoopInv /\ [Next]_vars => IInv' /\ LoopInv'
  BY NextIInv, NextLoopInv
<1> QED BY <1>1, <1>2, InitIInv, LoopInitially, PTL DEF Spec

\* Only Promote opens an automatic profile, for a user in its list.
LEMMA AutoIsPromoted ==
    ASSUME IInv, [Next]_vars, NEW u \in Users, NEW r \in Runners,
           [kind |-> "auto", by |-> r] \in profiles'[u] \ profiles[u]
    PROVE  run[r].pc = "promote" /\ u \in run[r].todo
<1>1. profiles \in [Users -> SUBSET Profile] /\ profiles' # profiles
  BY DEF IInv, ReviewTypes
<1>2. ASSUME NEW s \in Slots, Request(s) PROVE FALSE
  <2>1. CASE CommitActivation(s)
    <3>1. PICK S : profiles' = [profiles EXCEPT ![req[s].user] =
              (@ \ S) \cup {[kind |-> "manual", by |-> s]}]
      BY <2>1 DEF CommitActivation
    <3>2. [kind |-> "auto", by |-> r] # [kind |-> "manual", by |-> s]
      OBVIOUS
    <3> QED BY <1>1, <3>1, <3>2
  <2>2. CASE ~CommitActivation(s)
    BY <1>1, <1>2, <2>2 DEF Request, SubmitApplication, ManualActivatePromoter,
       ApproveApplication, RejectApplication, Begin, CreateApplication, CloseProfiles,
       WriteRejected, RequestFails
  <2> QED BY <2>1, <2>2
<1>3. ASSUME NEW q \in Runners, Qualify(q) \/ TurnThrows(q) \/ RunnerDies(q)
      PROVE  run[r].pc = "promote" /\ u \in run[r].todo
  <2>1. Promote(q)
    BY <1>1, <1>3 DEF Qualify, RunOnce, TakeTurn, FinishRun, ReadEdges, UpsertMetrics,
       FinishRollup, ReadMetrics, ReadProfiles, FinishTurn, TurnThrows, RunnerDies
  <2>2. PICK v \in run[q].todo :
            /\ run[q].pc = "promote"
            /\ profiles' = [profiles EXCEPT ![v] = @ \cup {[kind |-> "auto", by |-> q]}]
    BY <2>1 DEF Promote
  <2>3. v = u /\ [kind |-> "auto", by |-> q] = [kind |-> "auto", by |-> r]
    BY <1>1, <2>2
  <2>4. q = r
    BY <2>3
  <2> QED BY <2>2, <2>3, <2>4
<1> QED BY <1>1, <1>2, <1>3 DEF Next, NextDay, LockEdge, vars

\* Whom the loop promotes has had the required referrals locked in the window of
\* the run, for any number of runs of any number of workers that count the same
\* day again, fail half way and promote from what they read before
\* (MetricsService.rollupDailyMetrics, evaluateAutoQualifications).
THEOREM PromotionsAreEarned == Spec => PromotedIsEarned
<1>1. ASSUME IInv, LoopInv, [Next]_vars, NEW u \in Users, NEW r \in Runners,
             [kind |-> "auto", by |-> r] \in profiles'[u] \ profiles[u]
      PROVE  Cardinality({l \in Edges \X Window(run[r].day) :
                    Referrer[l[1]] = u /\ l[2] \in locks[l[1]]}) >= Required
  <2>1. run[r].pc = "promote" /\ u \in run[r].todo
    BY <1>1, AutoIsPromoted
  <2>2. Required <= Cardinality(Locks(u, Window(run[r].day)))
    BY <1>1, <2>1 DEF LoopInv, RunKnown
  <2>3. Required \in Nat /\ Cardinality(Locks(u, Window(run[r].day))) \in Nat
    BY PromoterAssumption, WindowIsFinite, LocksAreFinite
  <2> QED BY <2>2, <2>3 DEF Locks
<1>2. IInv /\ LoopInv /\ [Next]_vars =>
          \A u \in Users, r \in Runners :
              LET row == [kind |-> "auto", by |-> r]
              IN  row \in profiles'[u] \ profiles[u] =>
                    Cardinality({l \in Edges \X Window(run[r].day) :
                        Referrer[l[1]] = u /\ l[2] \in locks[l[1]]}) >= Required
  BY <1>1
<1>3. IInv /\ LoopInv /\ [Next]_vars => IInv' /\ LoopInv'
  BY NextIInv, NextLoopInv
<1> QED BY <1>2, <1>3, InitIInv, LoopInitially, PTL DEF Spec, PromotedIsEarned
=============================================================================
