--------------------------- MODULE RewardPosting ---------------------------
(***************************************************************************)
(* The rewards of one sale, from the message that announces the sale to    *)
(* the wallet: the reward consumer schedules them, the scheduler loops     *)
(* post those that are due, a refund or a chargeback cancels or reverses   *)
(* them, and a fraud case on one beneficiary holds them.                   *)
(*                                                                         *)
(* A step is one autocommitted statement.  A transaction runs under READ   *)
(* COMMITTED: its reads are steps of their own and all its writes are one  *)
(* step, its commit.  A statement may throw and a process may crash; the   *)
(* broker redelivers a message that was not acknowledged.                  *)
(***************************************************************************)
EXTENDS Integers, FiniteSets, FiniteSetsExt

CONSTANTS
    Rewards,        \* rewards computed for the sale, one scheduledPosting each
    Suspect,        \* those whose beneficiary the fraud cases are about
    Sale,           \* the event that earned the rewards
    Compensations,  \* refund_issued and chargeback_opened events for the sale
    Schedulers,     \* worker processes that run the postDueRewards loop
    Consumers,      \* messages the reward consumers handle at once (prefetch)
    MaxCopies,      \* bound: times the outbox relay publishes one event
    Reviewers,      \* requests on the fraud service that run at once
    Cases,          \* ids of riskCase rows
    BatchSize,      \* rows postDueRewards takes at once (100 in the code)
    MaxFaults,      \* bound: statements that throw and processes that crash
    None            \* no message, reward or case

Messages == {Sale} \cup Compensations

ASSUME RewardAssumption ==
    /\ Suspect \subseteq Rewards
    /\ Sale \notin Compensations
    /\ None \notin Messages \cup Rewards \cup Cases
    /\ MaxCopies \in Nat \ {0}
    /\ BatchSize \in Nat \ {0}
    /\ MaxFaults \in Nat

VARIABLES
    status,     \* scheduledPosting.status
    entry,      \* rewards whose entry scheduled:<id> is in the ledger
    reversal,   \* <<compensation, reward>> pairs whose reversal entry is there
    granted,    \* walletGrant rows with origin reward, per reward
    deducted,   \* walletGrant rows with origin reward_reversal, per reward
    link,       \* compensations whose eventLink to the sale exists
    queue,      \* copies of each message that wait at the broker
    copies,     \* copies of each message published so far
    hold,       \* rewardHold.status: one row per reward, ever
    holder,     \* rewardHold.riskCaseId
    caseStatus, \* riskCase.status
    faults,     \* faults so far
    sched,      \* control state and locals of each scheduler loop
    cons,       \* ... of each message handler
    rev         \* ... of each fraud request

bookVars == <<entry, reversal, granted, deducted>>
brokerVars == <<link, queue, copies>>
fraudVars == <<hold, holder, caseStatus>>
vars == <<status, bookVars, brokerVars, fraudVars, faults, sched, cons, rev>>

RewardStatus == {"absent", "pending", "processing", "posted", "cancelled"}
HoldStatus == {"none", "active", "released", "rejected"}
CaseStatus == {"none", "open", "escalated", "allowed", "rejected"}

IdleScheduler == [pc |-> "idle", todo |-> {}, row |-> None]
IdleConsumer == [pc |-> "idle", msg |-> None, todo |-> {}, row |-> None]
IdleReviewer == [pc |-> "idle", job |-> "none", case |-> None, rows |-> {}]

\* Rows, ledger and loops are of their types: no status of one table is ever
\* written into another.
TypeOK ==
    /\ status \in [Rewards -> RewardStatus]
    /\ entry \subseteq Rewards
    /\ reversal \subseteq Compensations \X Rewards
    /\ granted \in [Rewards -> Nat]
    /\ deducted \in [Rewards -> Nat]
    /\ link \subseteq Compensations
    /\ queue \in [Messages -> Nat]
    /\ copies \in [Messages -> 1..MaxCopies]
    /\ hold \in [Rewards -> HoldStatus]
    /\ holder \in [Rewards -> Cases \cup {None}]
    /\ caseStatus \in [Cases -> CaseStatus]
    /\ faults \in 0..MaxFaults
    /\ sched \in [Schedulers ->
          [pc : {"idle", "hold", "claim", "entry", "posted", "posted_again", "grant", "revert"},
           todo : SUBSET Rewards, row : Rewards \cup {None}]]
    /\ cons \in [Consumers ->
          [pc : {"idle", "schedule", "create", "link", "cancel", "read", "reverse", "delta"},
           msg : Messages \cup {None}, todo : SUBSET Rewards,
           row : Rewards \cup {None}]]
    /\ rev \in [Reviewers ->
          [pc : {"idle", "pending", "holds", "commit"},
           job : {"none", "open", "allow", "reject", "escalate"},
           case : Cases \cup {None}, rows : SUBSET Rewards]]

Init ==
    /\ status = [r \in Rewards |-> "absent"]
    /\ entry = {}
    /\ reversal = {}
    /\ granted = [r \in Rewards |-> 0]
    /\ deducted = [r \in Rewards |-> 0]
    /\ link \in SUBSET Compensations
    /\ queue = [m \in Messages |-> 1]
    /\ copies = [m \in Messages |-> 1]
    /\ hold = [r \in Rewards |-> "none"]
    /\ holder = [r \in Rewards |-> None]
    /\ caseStatus = [k \in Cases |-> "none"]
    /\ faults = 0
    /\ sched = [s \in Schedulers |-> IdleScheduler]
    /\ cons = [c \in Consumers |-> IdleConsumer]
    /\ rev = [v \in Reviewers |-> IdleReviewer]

-----------------------------------------------------------------------------
(* The reward consumer.                                                    *)

\* The relay published, could not record it and publishes again.
Republish(m) ==
    /\ copies[m] < MaxCopies
    /\ copies' = [copies EXCEPT ![m] = @ + 1]
    /\ queue' = [queue EXCEPT ![m] = @ + 1]
    /\ UNCHANGED <<status, bookVars, link, fraudVars, faults, sched, cons, rev>>

Deliver(c, m) ==
    /\ cons[c].pc = "idle"
    /\ queue[m] > 0
    /\ queue' = [queue EXCEPT ![m] = @ - 1]
    /\ cons' = [cons EXCEPT ![c] =
          IF m = Sale
          THEN [pc |-> "schedule", msg |-> m, todo |-> Rewards, row |-> None]
          ELSE [pc |-> "link", msg |-> m, todo |-> {}, row |-> None]]
    /\ UNCHANGED <<status, bookVars, link, copies, fraudVars, faults, sched, rev>>

Ack(c) == cons' = [cons EXCEPT ![c] = IdleConsumer]

\* nack with requeue: the broker delivers the message once more.
Nack(c) ==
    /\ queue' = [queue EXCEPT ![cons[c].msg] = @ + 1]
    /\ cons' = [cons EXCEPT ![c] = IdleConsumer]

\* scheduleRewards skips a reward whose key reward:<event>:d<depth>:<user> exists.
FindReward(c) ==
    \E r \in cons[c].todo :
        /\ cons[c].pc = "schedule"
        /\ cons' = [cons EXCEPT
              ![c].todo = @ \ {r},
              ![c].pc = IF status[r] = "absent" THEN "create" ELSE "schedule",
              ![c].row = IF status[r] = "absent" THEN r ELSE None]
        /\ UNCHANGED <<status, bookVars, brokerVars, fraudVars, faults, sched, rev>>

\* The key is unique: if another copy of the message was faster, create throws.
CreateReward(c) ==
    LET r == cons[c].row
    IN  /\ cons[c].pc = "create"
        /\ IF status[r] = "absent"
           THEN /\ status' = [status EXCEPT ![r] = "pending"]
                /\ cons' = [cons EXCEPT ![c].pc = "schedule", ![c].row = None]
                /\ UNCHANGED queue
           ELSE Nack(c) /\ UNCHANGED status
        /\ UNCHANGED <<bookVars, link, copies, fraudVars, faults, sched, rev>>

FinishMessage(c) ==
    /\ cons[c].pc \in {"schedule", "reverse"}
    /\ cons[c].todo = {}
    /\ Ack(c)
    /\ UNCHANGED <<status, bookVars, brokerVars, fraudVars, faults, sched, rev>>

\* compensateForLinkedEvent without a link: counted as skipped and acked.
NoLink(c) ==
    /\ cons[c].pc = "link"
    /\ cons[c].msg \notin link
    /\ Ack(c)
    /\ UNCHANGED <<status, bookVars, brokerVars, fraudVars, faults, sched, rev>>

FindLink(c) ==
    /\ cons[c].pc = "link"
    /\ cons[c].msg \in link
    /\ cons' = [cons EXCEPT ![c].pc = "cancel"]
    /\ UNCHANGED <<status, bookVars, brokerVars, fraudVars, faults, sched, rev>>

\* Mutant of CancelForEvent: cancels what a scheduler has claimed as well.
CancelClaimedToo(c) ==
    /\ cons[c].pc = "cancel"
    /\ status' = [r \in Rewards |->
                     IF status[r] \in {"pending", "processing"}
                     THEN "cancelled" ELSE status[r]]
    /\ cons' = [cons EXCEPT ![c].pc = "read"]
    /\ UNCHANGED <<bookVars, brokerVars, fraudVars, faults, sched, rev>>

CancelForEvent(c) ==
    /\ cons[c].pc = "cancel"
    /\ status' = [r \in Rewards |->
                     IF status[r] = "pending" THEN "cancelled" ELSE status[r]]
    /\ cons' = [cons EXCEPT ![c].pc = "read"]
    /\ UNCHANGED <<bookVars, brokerVars, fraudVars, faults, sched, rev>>

ReadPosted(c) ==
    /\ cons[c].pc = "read"
    /\ cons' = [cons EXCEPT ![c].pc = "reverse",
                            ![c].todo = {r \in Rewards : status[r] = "posted"}]
    /\ UNCHANGED <<status, bookVars, brokerVars, fraudVars, faults, sched, rev>>

\* Mutant of PostReversal: does not ask whether the entry was a duplicate.
ReverseRegardless(c) ==
    \E r \in cons[c].todo :
        /\ cons[c].pc = "reverse"
        /\ reversal' = reversal \cup {<<cons[c].msg, r>>}
        /\ cons' = [cons EXCEPT ![c].todo = @ \ {r}, ![c].pc = "delta", ![c].row = r]
        /\ UNCHANGED <<status, entry, granted, deducted, brokerVars, fraudVars,
                       faults, sched, rev>>

\* postEntry under the key reversal:<type>:<compensation>:<reward>.
PostReversal(c) ==
    \E r \in cons[c].todo :
        /\ cons[c].pc = "reverse"
        /\ reversal' = reversal \cup {<<cons[c].msg, r>>}
        /\ cons' = [cons EXCEPT
              ![c].todo = @ \ {r},
              ![c].pc = IF <<cons[c].msg, r>> \in reversal THEN "reverse" ELSE "delta",
              ![c].row = IF <<cons[c].msg, r>> \in reversal THEN None ELSE r]
        /\ UNCHANGED <<status, entry, granted, deducted, brokerVars, fraudVars,
                       faults, sched, rev>>

\* recordWalletDeltaForRewardReversal.
DeductReward(c) ==
    /\ cons[c].pc = "delta"
    /\ deducted' = [deducted EXCEPT ![cons[c].row] = @ + 1]
    /\ cons' = [cons EXCEPT ![c].pc = "reverse", ![c].row = None]
    /\ UNCHANGED <<status, entry, reversal, granted, brokerVars, fraudVars,
                   faults, sched, rev>>

\* The handler throws and nacks, or its process crashes: the message comes back.
ConsumerFails(c) ==
    /\ cons[c].pc # "idle"
    /\ faults < MaxFaults
    /\ faults' = faults + 1
    /\ Nack(c)
    /\ UNCHANGED <<status, bookVars, link, copies, fraudVars, sched, rev>>

Consume(c) ==
    \/ FindReward(c) \/ CreateReward(c) \/ FinishMessage(c)
    \/ NoLink(c) \/ FindLink(c) \/ CancelForEvent(c) \/ ReadPosted(c)
    \/ PostReversal(c) \/ DeductReward(c)

-----------------------------------------------------------------------------
(* The scheduler loop.                                                     *)

Due == {r \in Rewards : status[r] = "pending"}

\* The oldest due rows; the rewards of one sale all have the same postAt.
SelectDue(s) ==
    \E batch \in kSubset(Min({BatchSize, Cardinality(Due)}), Due) :
        /\ sched[s].pc = "idle"
        /\ batch # {}
        /\ sched' = [sched EXCEPT ![s].pc = "hold", ![s].todo = batch]
        /\ UNCHANGED <<status, bookVars, brokerVars, fraudVars, faults, cons, rev>>

FinishBatch(s) ==
    /\ sched[s].pc = "hold"
    /\ sched[s].todo = {}
    /\ sched' = [sched EXCEPT ![s] = IdleScheduler]
    /\ UNCHANGED <<status, bookVars, brokerVars, fraudVars, faults, cons, rev>>

\* Mutant of CheckHold: a hold row of any status holds.
CheckAnyHold(s) ==
    \E r \in sched[s].todo :
        /\ sched[s].pc = "hold"
        /\ sched' = [sched EXCEPT
              ![s].todo = @ \ {r},
              ![s].pc = IF hold[r] # "none" THEN "hold" ELSE "claim",
              ![s].row = IF hold[r] # "none" THEN None ELSE r]
        /\ UNCHANGED <<status, bookVars, brokerVars, fraudVars, faults, cons, rev>>

\* getActiveHoldForScheduledPosting, before and apart from the claim.
CheckHold(s) ==
    \E r \in sched[s].todo :
        /\ sched[s].pc = "hold"
        /\ sched' = [sched EXCEPT
              ![s].todo = @ \ {r},
              ![s].pc = IF hold[r] = "active" THEN "hold" ELSE "claim",
              ![s].row = IF hold[r] = "active" THEN None ELSE r]
        /\ UNCHANGED <<status, bookVars, brokerVars, fraudVars, faults, cons, rev>>

\* Mutant of ClaimReward: updates by id alone.
ClaimUnchecked(s) ==
    /\ sched[s].pc = "claim"
    /\ status' = [status EXCEPT ![sched[s].row] = "processing"]
    /\ sched' = [sched EXCEPT ![s].pc = "entry"]
    /\ UNCHANGED <<bookVars, brokerVars, fraudVars, faults, cons, rev>>

\* updateMany on id and status: one scheduler wins the row.
ClaimReward(s) ==
    LET r == sched[s].row
    IN  /\ sched[s].pc = "claim"
        /\ IF status[r] = "pending"
           THEN /\ status' = [status EXCEPT ![r] = "processing"]
                /\ sched' = [sched EXCEPT ![s].pc = "entry"]
           ELSE /\ sched' = [sched EXCEPT ![s].pc = "hold", ![s].row = None]
                /\ UNCHANGED status
        /\ UNCHANGED <<bookVars, brokerVars, fraudVars, faults, cons, rev>>

\* Mutant of PostReward: an error of postEntry is taken for a new entry.
PostErrorSwallowed(s) ==
    /\ sched[s].pc = "entry"
    /\ entry' \in {entry, entry \cup {sched[s].row}}
    /\ sched' = [sched EXCEPT ![s].pc = "posted"]
    /\ UNCHANGED <<status, reversal, granted, deducted, brokerVars,
                   fraudVars, faults, cons, rev>>

\* postEntry under the key scheduled:<id> tells whether the entry was there.
PostReward(s) ==
    LET r == sched[s].row
    IN  /\ sched[s].pc = "entry"
        /\ entry' = entry \cup {r}
        /\ sched' = [sched EXCEPT ![s].pc =
                        IF r \in entry THEN "posted_again" ELSE "posted"]
        /\ UNCHANGED <<status, reversal, granted, deducted, brokerVars,
                       fraudVars, faults, cons, rev>>

RecordPosted(s) ==
    /\ sched[s].pc \in {"posted", "posted_again"}
    /\ status' = [status EXCEPT ![sched[s].row] = "posted"]
    /\ sched' = [sched EXCEPT
          ![s].pc = IF sched[s].pc = "posted" THEN "grant" ELSE "hold",
          ![s].row = IF sched[s].pc = "posted" THEN @ ELSE None]
    /\ UNCHANGED <<bookVars, brokerVars, fraudVars, faults, cons, rev>>

\* recordWalletGrantForPostedReward.
GrantReward(s) ==
    /\ sched[s].pc = "grant"
    /\ granted' = [granted EXCEPT ![sched[s].row] = @ + 1]
    /\ sched' = [sched EXCEPT ![s].pc = "hold", ![s].row = None]
    /\ UNCHANGED <<status, entry, reversal, deducted, brokerVars, fraudVars,
                   faults, cons, rev>>

\* A statement of the try block throws...
PostingThrows(s) ==
    /\ sched[s].pc \in {"entry", "posted", "posted_again", "grant"}
    /\ faults < MaxFaults
    /\ faults' = faults + 1
    /\ sched' = [sched EXCEPT ![s].pc = "revert"]
    /\ UNCHANGED <<status, bookVars, brokerVars, fraudVars, cons, rev>>

\* ...and the catch block hands a row that is still processing back.
RevertClaim(s) ==
    /\ sched[s].pc = "revert"
    /\ status' = [status EXCEPT ![sched[s].row] =
                     IF @ = "processing" THEN "pending" ELSE @]
    /\ sched' = [sched EXCEPT ![s].pc = "hold", ![s].row = None]
    /\ UNCHANGED <<bookVars, brokerVars, fraudVars, faults, cons, rev>>

\* The worker crashes: its claim stays processing, which nothing recovers.
SchedulerCrashes(s) ==
    /\ sched[s].pc # "idle"
    /\ faults < MaxFaults
    /\ faults' = faults + 1
    /\ sched' = [sched EXCEPT ![s] = IdleScheduler]
    /\ UNCHANGED <<status, bookVars, brokerVars, fraudVars, cons, rev>>

PostDueRewards(s) ==
    \/ SelectDue(s) \/ FinishBatch(s) \/ CheckHold(s) \/ ClaimReward(s)
    \/ PostReward(s) \/ RecordPosted(s) \/ GrantReward(s) \/ RevertClaim(s)

-----------------------------------------------------------------------------
(* Fraud cases on the suspect: transactions of the fraud service.          *)

Active(k) == caseStatus[k] \in {"open", "escalated"}

\* ensureOpenCase returns early if it sees an active case of the user.
OpenCase(v) ==
    \E k \in Cases :
        /\ rev[v].pc = "idle"
        /\ caseStatus[k] = "none"
        /\ \A w \in Reviewers : rev[w].case # k
        /\ \A other \in Cases : ~Active(other)
        /\ rev' = [rev EXCEPT ![v] = [pc |-> "pending", job |-> "open",
                                      case |-> k, rows |-> {}]]
        /\ UNCHANGED <<status, bookVars, brokerVars, fraudVars, faults, sched, cons>>

\* The rewards pending when the transaction looks are the ones it will hold.
ReadPending(v) ==
    /\ rev[v].pc = "pending"
    /\ rev' = [rev EXCEPT ![v].pc = "commit",
                          ![v].rows = {r \in Suspect : status[r] = "pending"}]
    /\ UNCHANGED <<status, bookVars, brokerVars, fraudVars, faults, sched, cons>>

\* createMany skips a reward that has a hold row of any status already.
CommitOpen(v) ==
    LET k == rev[v].case
        new == {r \in rev[v].rows : hold[r] = "none"}
    IN  /\ rev[v].pc = "commit" /\ rev[v].job = "open"
        /\ caseStatus' = [caseStatus EXCEPT ![k] = "open"]
        /\ hold' = [r \in Rewards |-> IF r \in new THEN "active" ELSE hold[r]]
        /\ holder' = [r \in Rewards |-> IF r \in new THEN k ELSE holder[r]]
        /\ rev' = [rev EXCEPT ![v] = IdleReviewer]
        /\ UNCHANGED <<status, bookVars, brokerVars, faults, sched, cons>>

\* allowCase, rejectCase and escalateCase read the case and want it active.
ResolveCase(v, k, job, pc) ==
    /\ rev[v].pc = "idle"
    /\ Active(k)
    /\ rev' = [rev EXCEPT ![v] = [pc |-> pc, job |-> job, case |-> k, rows |-> {}]]
    /\ UNCHANGED <<status, bookVars, brokerVars, fraudVars, faults, sched, cons>>

AllowCase(v, k) == ResolveCase(v, k, "allow", "commit")
RejectCase(v, k) == ResolveCase(v, k, "reject", "holds")
EscalateCase(v, k) == ResolveCase(v, k, "escalate", "commit")

ActiveHolds(k) == {r \in Rewards : hold[r] = "active" /\ holder[r] = k}

CommitAllow(v) ==
    LET k == rev[v].case
    IN  /\ rev[v].pc = "commit" /\ rev[v].job = "allow"
        /\ hold' = [r \in Rewards |-> IF r \in ActiveHolds(k) THEN "released" ELSE hold[r]]
        /\ caseStatus' = [caseStatus EXCEPT ![k] = "allowed"]
        /\ rev' = [rev EXCEPT ![v] = IdleReviewer]
        /\ UNCHANGED <<status, bookVars, brokerVars, holder, faults, sched, cons>>

ReadHolds(v) ==
    /\ rev[v].pc = "holds"
    /\ rev' = [rev EXCEPT ![v].pc = "commit", ![v].rows = ActiveHolds(rev[v].case)]
    /\ UNCHANGED <<status, bookVars, brokerVars, fraudVars, faults, sched, cons>>

CommitReject(v) ==
    LET k == rev[v].case
    IN  /\ rev[v].pc = "commit" /\ rev[v].job = "reject"
        /\ status' = [r \in Rewards |->
              IF r \in rev[v].rows /\ status[r] = "pending" THEN "cancelled" ELSE status[r]]
        /\ hold' = [r \in Rewards |-> IF r \in ActiveHolds(k) THEN "rejected" ELSE hold[r]]
        /\ caseStatus' = [caseStatus EXCEPT ![k] = "rejected"]
        /\ rev' = [rev EXCEPT ![v] = IdleReviewer]
        /\ UNCHANGED <<bookVars, brokerVars, holder, faults, sched, cons>>

CommitEscalate(v) ==
    /\ rev[v].pc = "commit" /\ rev[v].job = "escalate"
    /\ caseStatus' = [caseStatus EXCEPT ![rev[v].case] = "escalated"]
    /\ rev' = [rev EXCEPT ![v] = IdleReviewer]
    /\ UNCHANGED <<status, bookVars, brokerVars, hold, holder, faults, sched, cons>>

\* A transaction that fails leaves nothing behind.
ReviewFails(v) ==
    /\ rev[v].pc # "idle"
    /\ faults < MaxFaults
    /\ faults' = faults + 1
    /\ rev' = [rev EXCEPT ![v] = IdleReviewer]
    /\ UNCHANGED <<status, bookVars, brokerVars, fraudVars, sched, cons>>

Review(v) ==
    \/ OpenCase(v)
    \/ \E k \in Cases : AllowCase(v, k) \/ RejectCase(v, k) \/ EscalateCase(v, k)

Commit(v) ==
    \/ ReadPending(v) \/ CommitOpen(v) \/ ReadHolds(v)
    \/ CommitAllow(v) \/ CommitReject(v) \/ CommitEscalate(v)

-----------------------------------------------------------------------------
Next ==
    \/ \E m \in Messages : Republish(m)
    \/ \E c \in Consumers :
          \/ \E m \in Messages : Deliver(c, m)
          \/ Consume(c) \/ ConsumerFails(c)
    \/ \E s \in Schedulers :
          PostDueRewards(s) \/ PostingThrows(s) \/ SchedulerCrashes(s)
    \/ \E v \in Reviewers : Review(v) \/ Commit(v) \/ ReviewFails(v)

Spec == Init /\ [][Next]_vars

\* The worker keeps looping, the broker keeps delivering what is queued.
Fairness ==
    /\ \A s \in Schedulers : WF_vars(PostDueRewards(s))
    /\ \A c \in Consumers : WF_vars(Consume(c))
    /\ WF_vars(\E c \in Consumers, m \in Messages : Deliver(c, m))
    /\ \A v \in Reviewers : WF_vars(Commit(v))

FairSpec == Spec /\ Fairness

-----------------------------------------------------------------------------
(* Properties.                                                             *)

Quiet ==
    /\ \A s \in Schedulers : sched[s].pc = "idle"
    /\ \A c \in Consumers : cons[c].pc = "idle"

\* A reward reaches the wallet at most once and only with its ledger entry,
\* however many schedulers run, throw, crash and start again.
GrantedAtMostOnce ==
    \A r \in Rewards : granted[r] <= 1 /\ (granted[r] = 1 => r \in entry)

\* A reversal reaches the wallet at most once per compensation and only with
\* its ledger entry, however often the message is redelivered.
DeductedAtMostOnce ==
    \A r \in Rewards :
        deducted[r] <= Cardinality({m \in Compensations : <<m, r>> \in reversal})

\* As long as nothing throws or crashes, a reward that was cancelled, by a
\* refund, a chargeback or a rejected case, was not paid.
CancelledNotPaid ==
    faults = 0 =>
        \A r \in Rewards :
            status[r] = "cancelled" => r \notin entry /\ granted[r] = 0

\* Once a reward is cancelled it stays so, and no later step pays it.
CancelledForGood ==
    [][\A r \in Rewards : status[r] = "cancelled" =>
          status'[r] = "cancelled" /\ (r \in entry' => r \in entry)]_vars

\* When nothing runs and nothing threw or crashed, wallet and ledger agree on
\* every reward, and the ledger agrees with the rows.
WalletFollowsLedger ==
    Quiet /\ faults = 0 => \A r \in Rewards :
        /\ granted[r] = 1 <=> r \in entry
        /\ r \in entry <=> status[r] = "posted"
        /\ deducted[r] = Cardinality({m \in Compensations : <<m, r>> \in reversal})

\* Every pending reward is eventually posted, cancelled or held.
PendingSettles ==
    \A r \in Rewards :
        status[r] = "pending" ~>
            status[r] \in {"posted", "cancelled"} \/ hold[r] = "active"

\* A reward that a rejected case held does not post later.
RejectedNeverPosts ==
    [][\A r \in Rewards :
          hold[r] = "rejected" => (r \in entry' => r \in entry)]_vars
=============================================================================
