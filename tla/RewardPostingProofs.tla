------------------------ MODULE RewardPostingProofs ------------------------
(***************************************************************************)
(* What holds of RewardPosting for every set of rewards, compensations and *)
(* cases, any number of scheduler loops, message handlers and fraud        *)
(* requests, any number of repeated messages and any number of faults.     *)
(***************************************************************************)
EXTENDS RewardPosting, FiniteSetTheorems, TLAPS

-----------------------------------------------------------------------------
(* The invariant.                                                          *)

SchedulerState ==
    [pc : {"idle", "hold", "claim", "entry", "posted", "posted_again", "grant", "revert"},
     todo : SUBSET Rewards, row : Rewards \cup {None}]
ConsumerState ==
    [pc : {"idle", "schedule", "create", "link", "cancel", "read", "reverse", "delta"},
     msg : Messages \cup {None}, todo : SUBSET Rewards,
     row : Rewards \cup {None}]
ReviewerState ==
    [pc : {"idle", "pending", "holds", "commit"},
     job : {"none", "open", "allow", "reject", "escalate"},
     case : Cases \cup {None}, rows : SUBSET Rewards]

\* A handler has a message, of the kind its label says, and the row it works on.
Local(c) ==
    /\ cons[c].pc # "idle" => cons[c].msg \in Messages
    /\ cons[c].pc \in {"link", "cancel", "read", "reverse", "delta"}
          => cons[c].msg \in Compensations
    /\ cons[c].pc \in {"create", "delta"} => cons[c].row \in Rewards

ConsumerLocals == \A c \in Consumers : Local(c)

ReviewerLocals ==
    \A v \in Reviewers : rev[v].pc # "idle" => rev[v].case \in Cases

Owning == {"entry", "posted", "posted_again", "grant", "revert"}

\* What scheduler s knows of the row it has claimed: nobody else has claimed
\* it, and before the grant is written the wallet has none for it.
Owner(s) ==
    LET r == sched[s].row
    IN  /\ sched[s].pc \in Owning \cup {"claim"} => r \in Rewards
        /\ sched[s].pc \in {"entry", "posted", "posted_again"} => status[r] = "processing"
        /\ sched[s].pc = "grant" => status[r] = "posted"
        /\ sched[s].pc = "revert" => status[r] \in {"processing", "posted"}
        /\ sched[s].pc \in {"posted", "grant"} => r \in entry /\ granted[r] = 0

OwnerInv ==
    /\ \A s \in Schedulers : Owner(s)
    /\ \A s, t \in Schedulers :
          s # t /\ sched[s].pc \in Owning /\ sched[t].pc \in Owning =>
              sched[s].row # sched[t].row

\* Without a fault nothing is taken back, and only what was claimed is posted.
FaultlessInv ==
    faults = 0 =>
        /\ \A s \in Schedulers : sched[s].pc # "revert"
        /\ \A r \in Rewards :
              status[r] \in {"absent", "pending", "cancelled"} => r \notin entry

RewardInv ==
    /\ TypeOK
    /\ ConsumerLocals
    /\ ReviewerLocals
    /\ OwnerInv
    /\ GrantedAtMostOnce
    /\ FaultlessInv

LEMMA RewardInit == Init => RewardInv
  BY RewardAssumption
     DEF Init, RewardInv, TypeOK, RewardStatus, HoldStatus, CaseStatus,
         IdleScheduler, IdleConsumer, IdleReviewer, ConsumerLocals, Local,
         ReviewerLocals, OwnerInv, Owner, Owning, GrantedAtMostOnce, FaultlessInv

-----------------------------------------------------------------------------
(* Steps of the schedulers.                                                *)

\* What a scheduler's step leaves alone keeps its types.
LEMMA SchedulerFrame ==
    ASSUME RewardInv,
           sched' \in [Schedulers -> SchedulerState],
           status' \in [Rewards -> RewardStatus],
           entry' \subseteq Rewards, granted' \in [Rewards -> Nat],
           faults' \in 0..MaxFaults,
           UNCHANGED <<reversal, deducted, brokerVars, fraudVars, cons, rev>>,
           OwnerInv', GrantedAtMostOnce', FaultlessInv'
    PROVE  RewardInv'
  <1>1. TypeOK'
    BY DEF RewardInv, TypeOK, SchedulerState, brokerVars, fraudVars
  <1>2. ConsumerLocals' /\ ReviewerLocals'
    BY DEF RewardInv, ConsumerLocals, Local, ReviewerLocals
  <1> QED BY <1>1, <1>2 DEF RewardInv

\* Scheduler s works on row r, which no other scheduler has claimed.
LEMMA OwnerStep ==
    ASSUME RewardInv, NEW s \in Schedulers, NEW r,
           \A t \in Schedulers \ {s} : sched'[t] = sched[t],
           \A t \in Schedulers \ {s} : sched[t].pc \in Owning => sched[t].row # r,
           \A q \in Rewards \ {r} : status'[q] = status[q] /\ granted'[q] = granted[q],
           entry \subseteq entry',
           sched'[s].pc \in Owning => sched'[s].row = r,
           Owner(s)'
    PROVE  OwnerInv'
  <1>1. ASSUME NEW t \in Schedulers, t # s PROVE Owner(t)'
    <2>1. sched'[t] = sched[t] /\ Owner(t)
      BY <1>1 DEF RewardInv, OwnerInv
    <2>2. CASE sched[t].pc \in Owning
      <3>1. sched[t].row \in Rewards \ {r}
        BY <1>1, <2>1, <2>2 DEF Owner
      <3> QED BY <2>1, <3>1 DEF Owner
    <2>3. CASE sched[t].pc \notin Owning
      BY <2>1, <2>3 DEF Owner, Owning
    <2> QED BY <2>2, <2>3
  <1>2. ASSUME NEW t \in Schedulers, NEW u \in Schedulers, t # u,
               sched'[t].pc \in Owning, sched'[u].pc \in Owning
        PROVE  sched'[t].row # sched'[u].row
    BY <1>2 DEF RewardInv, OwnerInv
  <1> QED BY <1>1, <1>2 DEF OwnerInv

\* Nobody but s has claimed the row that s has claimed; a row that is absent,
\* pending or cancelled is claimed by nobody.
LEMMA OneOwner ==
    ASSUME RewardInv, NEW s \in Schedulers, NEW t \in Schedulers \ {s},
           sched[t].pc \in Owning
    PROVE  /\ sched[s].pc \in Owning => sched[t].row # sched[s].row
           /\ \A r \in Rewards :
                 status[r] \in {"absent", "pending", "cancelled"} => sched[t].row # r
  BY DEF RewardInv, OwnerInv, Owner, Owning

\* The types of one loop.
LEMMA SchedulerFields ==
    ASSUME RewardInv, NEW s \in Schedulers
    PROVE  /\ sched \in [Schedulers -> SchedulerState]
           /\ sched[s] \in SchedulerState /\ sched[s].todo \subseteq Rewards
           /\ status \in [Rewards -> RewardStatus]
           /\ granted \in [Rewards -> Nat] /\ entry \subseteq Rewards
           /\ faults \in 0..MaxFaults /\ faults \in Nat
           /\ Owner(s)
  BY RewardAssumption DEF RewardInv, TypeOK, SchedulerState, OwnerInv

\* The scheduler neither writes a row nor claims one.
LEMMA SchedulerMoves ==
    ASSUME RewardInv, NEW s \in Schedulers,
           sched' \in [Schedulers -> SchedulerState],
           \A t \in Schedulers \ {s} : sched'[t] = sched[t],
           sched'[s].pc \in {"idle", "hold", "claim"},
           sched'[s].pc = "claim" => sched'[s].row \in Rewards,
           faults' = faults \/ faults' > 0, faults' \in 0..MaxFaults,
           UNCHANGED <<status, bookVars, brokerVars, fraudVars, cons, rev>>
    PROVE  RewardInv'
  <1>1. OwnerInv'
    <2>1. Owner(s)'
      BY DEF Owner, Owning
    <2>2. None \notin Rewards
      BY RewardAssumption
    <2>3. \A t \in Schedulers \ {s} : sched[t].pc \in Owning => sched[t].row # None
      BY <2>2 DEF RewardInv, OwnerInv, Owner
    <2>4. sched'[s].pc \notin Owning
      BY DEF Owning
    <2> QED BY <2>1, <2>3, <2>4, OwnerStep DEF bookVars
  <1>2. GrantedAtMostOnce' /\ FaultlessInv'
    BY DEF RewardInv, GrantedAtMostOnce, FaultlessInv, bookVars
  <1> QED
    BY <1>1, <1>2, SchedulerFrame, SchedulerFields DEF bookVars

\* The scheduler takes a row off its batch.
LEMMA SchedulerTakes ==
    ASSUME sched \in [Schedulers -> SchedulerState], NEW s \in Schedulers,
           NEW r, NEW pc \in {"hold", "claim"}, NEW row \in Rewards \cup {None},
           sched' = [sched EXCEPT ![s].todo = @ \ {r}, ![s].pc = pc, ![s].row = row]
    PROVE  sched' \in [Schedulers -> SchedulerState]
  BY DEF SchedulerState

LEMMA SchedulerKeepsInv ==
    ASSUME RewardInv, NEW s \in Schedulers,
           PostDueRewards(s) \/ PostingThrows(s) \/ SchedulerCrashes(s)
    PROVE  RewardInv'
  <1> USE DEF RewardStatus
  <1>t. /\ sched \in [Schedulers -> SchedulerState]
        /\ sched[s] \in SchedulerState /\ sched[s].todo \subseteq Rewards
        /\ status \in [Rewards -> RewardStatus]
        /\ granted \in [Rewards -> Nat] /\ entry \subseteq Rewards
        /\ faults \in 0..MaxFaults /\ faults \in Nat
        /\ Owner(s)
    BY SchedulerFields
  <1>o. ASSUME NEW t \in Schedulers \ {s}, sched[t].pc \in Owning
        PROVE  /\ sched[s].pc \in Owning => sched[t].row # sched[s].row
               /\ \A r \in Rewards :
                     status[r] \in {"absent", "pending", "cancelled"} => sched[t].row # r
    BY <1>o, OneOwner
  <1>1. CASE SelectDue(s)
    <2> PICK batch \in kSubset(Min({BatchSize, Cardinality(Due)}), Due) :
            /\ sched' = [sched EXCEPT ![s].pc = "hold", ![s].todo = batch]
            /\ UNCHANGED <<status, bookVars, brokerVars, fraudVars, faults, cons, rev>>
      BY <1>1 DEF SelectDue
    <2>1. batch \in SUBSET Rewards
      BY DEF kSubset, Due
    <2>2. /\ sched' \in [Schedulers -> SchedulerState]
          /\ \A t \in Schedulers \ {s} : sched'[t] = sched[t]
          /\ sched'[s].pc = "hold"
      BY <2>1, <1>t DEF SchedulerState
    <2> QED BY <2>2, <1>t, SchedulerMoves
  <1>2. CASE FinishBatch(s)
    <2>1. /\ sched' \in [Schedulers -> SchedulerState]
          /\ \A t \in Schedulers \ {s} : sched'[t] = sched[t]
          /\ sched'[s].pc = "idle"
      BY <1>2, <1>t DEF FinishBatch, SchedulerState, IdleScheduler
    <2> QED BY <1>2, <2>1, <1>t, SchedulerMoves DEF FinishBatch
  <1>3. CASE CheckHold(s)
    <2> PICK r \in sched[s].todo :
            /\ sched' = [sched EXCEPT
                  ![s].todo = @ \ {r},
                  ![s].pc = IF hold[r] = "active" THEN "hold" ELSE "claim",
                  ![s].row = IF hold[r] = "active" THEN None ELSE r]
            /\ UNCHANGED <<status, bookVars, brokerVars, fraudVars, faults, cons, rev>>
      BY <1>3 DEF CheckHold
    <2>0. r \in Rewards
      BY <1>t
    <2>1. CASE hold[r] = "active"
      <3>1. sched' = [sched EXCEPT ![s].todo = @ \ {r}, ![s].pc = "hold", ![s].row = None]
        BY <2>1
      <3>2. sched' \in [Schedulers -> SchedulerState]
        BY <3>1, <1>t, SchedulerTakes
      <3>3. /\ \A t \in Schedulers \ {s} : sched'[t] = sched[t]
            /\ sched'[s].pc = "hold"
        BY <3>1, <1>t DEF SchedulerState
      <3> QED BY <3>2, <3>3, <1>t, SchedulerMoves
    <2>2. CASE hold[r] # "active"
      <3>1. sched' = [sched EXCEPT ![s].todo = @ \ {r}, ![s].pc = "claim", ![s].row = r]
        BY <2>2
      <3>2. sched' \in [Schedulers -> SchedulerState]
        BY <3>1, <2>0, <1>t, SchedulerTakes
      <3>3. /\ \A t \in Schedulers \ {s} : sched'[t] = sched[t]
            /\ sched'[s].pc = "claim" /\ sched'[s].row = r
        BY <3>1, <1>t DEF SchedulerState
      <3> QED BY <2>0, <3>2, <3>3, <1>t, SchedulerMoves
    <2> QED BY <2>1, <2>2
  <1>4. CASE ClaimReward(s)
    <2> DEFINE r == sched[s].row
    <2>0. sched[s].pc = "claim" /\ r \in Rewards
      BY <1>4, <1>t DEF ClaimReward, Owner
    <2>1. CASE status[r] = "pending"
      <3>1. /\ sched' \in [Schedulers -> SchedulerState]
            /\ \A t \in Schedulers \ {s} : sched'[t] = sched[t]
            /\ sched'[s].pc = "entry" /\ sched'[s].row = r
        BY <1>4, <2>1, <1>t DEF ClaimReward, SchedulerState
      <3>2. /\ status' = [status EXCEPT ![r] = "processing"]
            /\ UNCHANGED <<bookVars, brokerVars, fraudVars, faults, cons, rev>>
        BY <1>4, <2>1 DEF ClaimReward
      <3>3. status' \in [Rewards -> RewardStatus] /\ status'[r] = "processing"
            /\ \A q \in Rewards \ {r} : status'[q] = status[q]
        BY <3>2, <2>0, <1>t
      <3>4. Owner(s)'
        BY <2>0, <3>1, <3>3 DEF Owner, Owning
      <3>5. OwnerInv'
        BY <1>o, <2>0, <2>1, <3>1, <3>2, <3>3, <3>4, OwnerStep DEF bookVars
      <3>6. GrantedAtMostOnce' /\ FaultlessInv'
        BY <3>1, <3>2, <3>3 DEF RewardInv, GrantedAtMostOnce, FaultlessInv, bookVars
      <3> QED
        BY <3>1, <3>2, <3>3, <3>5, <3>6, <1>t, SchedulerFrame DEF bookVars
    <2>2. CASE status[r] # "pending"
      <3>1. /\ sched' \in [Schedulers -> SchedulerState]
            /\ \A t \in Schedulers \ {s} : sched'[t] = sched[t]
            /\ sched'[s].pc = "hold"
        BY <1>4, <2>2, <1>t DEF ClaimReward, SchedulerState
      <3> QED BY <1>4, <2>2, <3>1, <1>t, SchedulerMoves DEF ClaimReward
    <2> QED BY <2>1, <2>2
  <1>5. CASE PostReward(s)
    <2> DEFINE r == sched[s].row
    <2>0. sched[s].pc = "entry" /\ r \in Rewards /\ status[r] = "processing"
      BY <1>5, <1>t DEF PostReward, Owner, Owning
    <2>1. /\ sched' \in [Schedulers -> SchedulerState]
          /\ \A t \in Schedulers \ {s} : sched'[t] = sched[t]
          /\ sched'[s].row = r
          /\ sched'[s].pc = IF r \in entry THEN "posted_again" ELSE "posted"
      BY <1>5, <1>t DEF PostReward, SchedulerState
    <2>2. /\ entry' = entry \cup {r}
          /\ UNCHANGED <<status, reversal, granted, deducted, brokerVars,
                         fraudVars, faults, cons, rev>>
      BY <1>5 DEF PostReward
    <2>3. r \notin entry => granted[r] = 0
      BY <2>0, <1>t DEF RewardInv, GrantedAtMostOnce
    <2>4. Owner(s)'
      BY <2>0, <2>1, <2>2, <2>3 DEF Owner, Owning
    <2>5. OwnerInv'
      BY <1>o, <2>0, <2>1, <2>2, <2>4, OwnerStep DEF Owning
    <2>6. GrantedAtMostOnce' /\ FaultlessInv'
      BY <2>0, <2>1, <2>2 DEF RewardInv, GrantedAtMostOnce, FaultlessInv
    <2> QED
      BY <2>0, <2>1, <2>2, <2>5, <2>6, <1>t, SchedulerFrame
  <1>6. CASE RecordPosted(s)
    <2> DEFINE r == sched[s].row
    <2>0. /\ sched[s].pc \in {"posted", "posted_again"} /\ r \in Rewards
          /\ status[r] = "processing"
          /\ sched[s].pc = "posted" => r \in entry /\ granted[r] = 0
      BY <1>6, <1>t DEF RecordPosted, Owner, Owning
    <2>1. /\ sched' \in [Schedulers -> SchedulerState]
          /\ \A t \in Schedulers \ {s} : sched'[t] = sched[t]
          /\ \/ sched[s].pc = "posted" /\ sched'[s].pc = "grant" /\ sched'[s].row = r
             \/ sched'[s].pc = "hold"
      <3>1. CASE sched[s].pc = "posted"
        <4>1. sched' = [sched EXCEPT ![s].pc = "grant", ![s].row = @]
          BY <1>6, <3>1 DEF RecordPosted
        <4> QED BY <3>1, <4>1, <2>0, <1>t DEF SchedulerState
      <3>2. CASE sched[s].pc # "posted"
        <4>1. sched' = [sched EXCEPT ![s].pc = "hold", ![s].row = None]
          BY <1>6, <3>2 DEF RecordPosted
        <4> QED BY <4>1, <1>t DEF SchedulerState
      <3> QED BY <3>1, <3>2
    <2>2. /\ status' = [status EXCEPT ![r] = "posted"]
          /\ UNCHANGED <<bookVars, brokerVars, fraudVars, faults, cons, rev>>
      BY <1>6 DEF RecordPosted
    <2>3. status' \in [Rewards -> RewardStatus] /\ status'[r] = "posted"
          /\ \A q \in Rewards \ {r} : status'[q] = status[q]
      BY <2>2, <2>0, <1>t
    <2>4. Owner(s)'
      BY <2>0, <2>1, <2>2, <2>3 DEF Owner, Owning, bookVars
    <2>5. OwnerInv'
      BY <1>o, <2>0, <2>1, <2>2, <2>3, <2>4, OwnerStep DEF Owning, bookVars
    <2>6. GrantedAtMostOnce' /\ FaultlessInv'
      BY <2>1, <2>2, <2>3 DEF RewardInv, GrantedAtMostOnce, FaultlessInv, bookVars
    <2> QED
      BY <2>1, <2>2, <2>3, <2>5, <2>6, <1>t, SchedulerFrame DEF bookVars
  <1>7. CASE GrantReward(s)
    <2> DEFINE r == sched[s].row
    <2>0. /\ sched[s].pc = "grant" /\ r \in Rewards
          /\ r \in entry /\ granted[r] = 0
      BY <1>7, <1>t DEF GrantReward, Owner, Owning
    <2>1. /\ sched' \in [Schedulers -> SchedulerState]
          /\ \A t \in Schedulers \ {s} : sched'[t] = sched[t]
          /\ sched'[s].pc = "hold"
      BY <1>7, <1>t DEF GrantReward, SchedulerState
    <2>2. /\ granted' = [granted EXCEPT ![r] = @ + 1]
          /\ UNCHANGED <<status, entry, reversal, deducted, brokerVars, fraudVars,
                         faults, cons, rev>>
      BY <1>7 DEF GrantReward
    <2>3. granted' \in [Rewards -> Nat] /\ granted'[r] = 1
          /\ \A q \in Rewards \ {r} : granted'[q] = granted[q]
      BY <2>2, <2>0, <1>t
    <2>4. Owner(s)'
      BY <2>1 DEF Owner, Owning
    <2>5. OwnerInv'
      BY <1>o, <2>0, <2>1, <2>2, <2>3, <2>4, OwnerStep DEF Owning
    <2>6. GrantedAtMostOnce' /\ FaultlessInv'
      BY <2>0, <2>1, <2>2, <2>3 DEF RewardInv, GrantedAtMostOnce, FaultlessInv
    <2> QED
      BY <2>1, <2>2, <2>3, <2>5, <2>6, <1>t, SchedulerFrame
  <1>8. CASE RevertClaim(s)
    <2> DEFINE r == sched[s].row
    <2>0. /\ sched[s].pc = "revert" /\ r \in Rewards /\ faults # 0
          /\ status[r] \in {"processing", "posted"}
      BY <1>8, <1>t DEF RevertClaim, Owner, Owning, RewardInv, FaultlessInv
    <2>1. /\ sched' \in [Schedulers -> SchedulerState]
          /\ \A t \in Schedulers \ {s} : sched'[t] = sched[t]
          /\ sched'[s].pc = "hold"
      BY <1>8, <1>t DEF RevertClaim, SchedulerState
    <2>2. /\ status' = [status EXCEPT ![r] = IF @ = "processing" THEN "pending" ELSE @]
          /\ UNCHANGED <<bookVars, brokerVars, fraudVars, faults, cons, rev>>
      BY <1>8 DEF RevertClaim
    <2>3. status' \in [Rewards -> RewardStatus]
          /\ \A q \in Rewards \ {r} : status'[q] = status[q]
      BY <2>2, <2>0, <1>t
    <2>4. Owner(s)'
      BY <2>1 DEF Owner, Owning
    <2>5. OwnerInv'
      BY <1>o, <2>0, <2>1, <2>2, <2>3, <2>4, OwnerStep DEF Owning, bookVars
    <2>6. GrantedAtMostOnce' /\ FaultlessInv'
      BY <2>0, <2>2 DEF RewardInv, GrantedAtMostOnce, FaultlessInv, bookVars
    <2> QED
      BY <2>1, <2>2, <2>3, <2>5, <2>6, <1>t, SchedulerFrame DEF bookVars
  <1>9. CASE PostingThrows(s)
    <2> DEFINE r == sched[s].row
    <2>0. /\ sched[s].pc \in {"entry", "posted", "posted_again", "grant"}
          /\ r \in Rewards /\ status[r] \in {"processing", "posted"}
      BY <1>9, <1>t DEF PostingThrows, Owner, Owning
    <2>1. /\ sched' \in [Schedulers -> SchedulerState]
          /\ \A t \in Schedulers \ {s} : sched'[t] = sched[t]
          /\ sched'[s].pc = "revert" /\ sched'[s].row = r
      BY <1>9, <1>t DEF PostingThrows, SchedulerState
    <2>2. /\ faults' \in 0..MaxFaults /\ faults' # 0
          /\ UNCHANGED <<status, bookVars, brokerVars, fraudVars, cons, rev>>
      BY <1>9, <1>t, RewardAssumption DEF PostingThrows
    <2>4. Owner(s)'
      BY <2>0, <2>1, <2>2 DEF Owner, Owning
    <2>5. OwnerInv'
      BY <1>o, <2>0, <2>1, <2>2, <2>4, OwnerStep DEF Owning, bookVars
    <2>6. GrantedAtMostOnce' /\ FaultlessInv'
      BY <2>2 DEF RewardInv, GrantedAtMostOnce, FaultlessInv, bookVars
    <2> QED
      BY <2>1, <2>2, <2>5, <2>6, <1>t, SchedulerFrame DEF bookVars
  <1>10. CASE SchedulerCrashes(s)
    <2>1. /\ sched' \in [Schedulers -> SchedulerState]
          /\ \A t \in Schedulers \ {s} : sched'[t] = sched[t]
          /\ sched'[s].pc = "idle"
      BY <1>10, <1>t DEF SchedulerCrashes, SchedulerState, IdleScheduler
    <2>2. faults' \in 0..MaxFaults /\ faults' > 0
      BY <1>10, <1>t, RewardAssumption DEF SchedulerCrashes
    <2> QED BY <1>10, <2>1, <2>2, SchedulerMoves DEF SchedulerCrashes
  <1> QED
    BY <1>1, <1>2, <1>3, <1>4, <1>5, <1>6, <1>7, <1>8, <1>9, <1>10 DEF PostDueRewards

-----------------------------------------------------------------------------
(* Steps of the message handlers and of the broker.                        *)

\* A step that cancels or creates rewards, and moves one handler on.
LEMMA ConsumerFrame ==
    ASSUME RewardInv,
           cons' \in [Consumers -> ConsumerState], ConsumerLocals',
           status' \in [Rewards -> RewardStatus],
           \A r \in Rewards :
               \/ status'[r] = status[r]
               \/ status[r] \in {"absent", "pending"} /\ status'[r] \in {"pending", "cancelled"},
           reversal' \subseteq Compensations \X Rewards,
           deducted' \in [Rewards -> Nat],
           queue' \in [Messages -> Nat], copies' \in [Messages -> 1..MaxCopies],
           faults' \in 0..MaxFaults, faults' = faults \/ faults' > 0,
           UNCHANGED <<entry, granted, link, fraudVars, sched, rev>>
    PROVE  RewardInv'
  <1>1. TypeOK'
    BY DEF RewardInv, TypeOK, ConsumerState, fraudVars
  <1>2. ReviewerLocals' /\ GrantedAtMostOnce'
    BY DEF RewardInv, ReviewerLocals, GrantedAtMostOnce
  <1>3. OwnerInv'
    BY DEF RewardInv, OwnerInv, Owner, Owning
  <1>4. FaultlessInv'
    BY DEF RewardInv, FaultlessInv
  <1> QED BY <1>1, <1>2, <1>3, <1>4 DEF RewardInv

\* A handler's step that writes no reward.
LEMMA ConsumerMoves ==
    ASSUME RewardInv, NEW c \in Consumers,
           cons' \in [Consumers -> ConsumerState],
           \A d \in Consumers \ {c} : cons'[d] = cons[d],
           Local(c)',
           queue' \in [Messages -> Nat],
           reversal' \subseteq Compensations \X Rewards,
           deducted' \in [Rewards -> Nat],
           faults' \in 0..MaxFaults, faults' = faults \/ faults' > 0,
           UNCHANGED <<status, entry, granted, link, copies, fraudVars, sched, rev>>
    PROVE  RewardInv'
  <1>1. ConsumerLocals'
    BY DEF RewardInv, ConsumerLocals, Local
  <1>2. /\ status' \in [Rewards -> RewardStatus]
        /\ copies' \in [Messages -> 1..MaxCopies]
    BY DEF RewardInv, TypeOK
  <1> QED BY <1>1, <1>2, ConsumerFrame

\* The types of one handler.
LEMMA ConsumerFields ==
    ASSUME RewardInv, NEW c \in Consumers
    PROVE  /\ cons \in [Consumers -> ConsumerState]
           /\ cons[c] \in ConsumerState /\ cons[c].todo \subseteq Rewards
           /\ Local(c)
           /\ status \in [Rewards -> RewardStatus]
           /\ queue \in [Messages -> Nat] /\ copies \in [Messages -> 1..MaxCopies]
           /\ reversal \subseteq Compensations \X Rewards
           /\ deducted \in [Rewards -> Nat]
           /\ faults \in 0..MaxFaults /\ faults \in Nat
  BY RewardAssumption DEF RewardInv, TypeOK, ConsumerState, ConsumerLocals

\* A handler turns to a row, or from it to the next.
LEMMA ConsumerTakes ==
    ASSUME cons \in [Consumers -> ConsumerState], NEW c \in Consumers, NEW r,
           NEW pc \in {"schedule", "create", "reverse", "delta"},
           NEW row \in Rewards \cup {None},
           cons' = [cons EXCEPT ![c].todo = @ \ {r}, ![c].pc = pc, ![c].row = row]
    PROVE  cons' \in [Consumers -> ConsumerState]
  <1> DEFINE taken == [cons[c] EXCEPT !.todo = @ \ {r}, !.pc = pc, !.row = row]
  <1>1. cons[c] \in ConsumerState
    OBVIOUS
  <1>2. taken \in ConsumerState
    BY <1>1 DEF ConsumerState
  <1>3. cons' = [cons EXCEPT ![c] = taken]
    BY Zenon
  <1> QED BY <1>2, <1>3

LEMMA ConsumerKeepsInv ==
    ASSUME RewardInv, NEW c \in Consumers,
           (\E m \in Messages : Deliver(c, m)) \/ Consume(c) \/ ConsumerFails(c)
    PROVE  RewardInv'
  <1>t. /\ cons \in [Consumers -> ConsumerState]
        /\ cons[c] \in ConsumerState /\ cons[c].todo \subseteq Rewards
        /\ Local(c)
        /\ status \in [Rewards -> RewardStatus]
        /\ queue \in [Messages -> Nat] /\ copies \in [Messages -> 1..MaxCopies]
        /\ reversal \subseteq Compensations \X Rewards
        /\ deducted \in [Rewards -> Nat]
        /\ faults \in 0..MaxFaults /\ faults \in Nat
    BY ConsumerFields
  \* The handler is done with its message, which may go back to the broker.
  <1>i. ASSUME cons' = [cons EXCEPT ![c] = IdleConsumer],
               queue' \in [Messages -> Nat],
               faults' \in 0..MaxFaults, faults' = faults \/ faults' > 0,
               UNCHANGED <<status, bookVars, link, copies, fraudVars, sched, rev>>
        PROVE  RewardInv'
    <2>1. /\ cons' \in [Consumers -> ConsumerState]
          /\ \A d \in Consumers \ {c} : cons'[d] = cons[d]
          /\ cons'[c].pc = "idle"
      BY <1>i, <1>t DEF ConsumerState, IdleConsumer
    <2>2. Local(c)'
      BY <2>1 DEF Local
    <2> QED BY <1>i, <1>t, <2>1, <2>2, ConsumerMoves DEF bookVars
  <1>n. cons[c].pc # "idle" =>
            [queue EXCEPT ![cons[c].msg] = @ + 1] \in [Messages -> Nat]
    BY <1>t DEF Local
  <1>1. ASSUME NEW m \in Messages, Deliver(c, m) PROVE RewardInv'
    <2>1. queue' \in [Messages -> Nat]
      BY <1>1, <1>t DEF Deliver
    <2>2. cons' \in [Consumers -> ConsumerState]
      BY <1>1, <1>t DEF Deliver, ConsumerState
    <2>3. /\ \A d \in Consumers \ {c} : cons'[d] = cons[d]
          /\ cons'[c].msg = m
          /\ m = Sale => cons'[c].pc = "schedule"
          /\ m # Sale => cons'[c].pc = "link"
      BY <1>1, <1>t DEF Deliver
    <2>4. Local(c)'
      BY <2>3 DEF Local, Messages
    <2> QED
      BY <1>1, <1>t, <2>1, <2>2, <2>3, <2>4, ConsumerMoves DEF Deliver, bookVars
  <1>2. CASE FindReward(c)
    <2> PICK r \in cons[c].todo :
            /\ cons[c].pc = "schedule"
            /\ cons' = [cons EXCEPT
                  ![c].todo = @ \ {r},
                  ![c].pc = IF status[r] = "absent" THEN "create" ELSE "schedule",
                  ![c].row = IF status[r] = "absent" THEN r ELSE None]
            /\ UNCHANGED <<status, bookVars, brokerVars, fraudVars, faults, sched, rev>>
      BY <1>2 DEF FindReward
    <2>0. r \in Rewards /\ cons[c].msg \in Messages
      BY <1>t DEF Local
    <2>1. /\ \A d \in Consumers \ {c} : cons'[d] = cons[d]
          /\ cons'[c].msg = cons[c].msg
          /\ cons'[c].pc = IF status[r] = "absent" THEN "create" ELSE "schedule"
          /\ status[r] = "absent" => cons'[c].row = r
      BY <1>t DEF ConsumerState
    <2>2. cons' \in [Consumers -> ConsumerState]
      BY <2>0, <1>t, ConsumerTakes
    <2>3. Local(c)'
      BY <2>0, <2>1 DEF Local
    <2> QED
      BY <1>t, <2>1, <2>2, <2>3, ConsumerMoves DEF bookVars, brokerVars
  <1>3. CASE CreateReward(c)
    <2> DEFINE r == cons[c].row
    <2>0. cons[c].pc = "create" /\ r \in Rewards /\ cons[c].msg \in Messages
      BY <1>3, <1>t DEF CreateReward, Local
    <2>1. CASE status[r] = "absent"
      <3>1. /\ status' = [status EXCEPT ![r] = "pending"]
            /\ cons' = [cons EXCEPT ![c].pc = "schedule", ![c].row = None]
            /\ UNCHANGED <<bookVars, queue, link, copies, fraudVars, faults, sched, rev>>
        BY <1>3, <2>1 DEF CreateReward
      <3>2. /\ cons' \in [Consumers -> ConsumerState]
            /\ \A d \in Consumers \ {c} : cons'[d] = cons[d]
            /\ cons'[c].pc = "schedule" /\ cons'[c].msg = cons[c].msg
        BY <3>1, <1>t DEF ConsumerState
      <3>3. ConsumerLocals'
        BY <2>0, <3>2 DEF RewardInv, ConsumerLocals, Local
      <3>4. /\ status' \in [Rewards -> RewardStatus] /\ status'[r] = "pending"
            /\ \A q \in Rewards \ {r} : status'[q] = status[q]
        BY <2>0, <3>1, <1>t DEF RewardStatus
      <3> QED
        BY <2>1, <3>1, <3>2, <3>3, <3>4, <1>t, ConsumerFrame DEF bookVars
    <2>2. CASE status[r] # "absent"
      BY <1>3, <2>2, <1>i, <1>n, <1>t, <2>0 DEF CreateReward, Nack
    <2> QED BY <2>1, <2>2
  <1>4. CASE FinishMessage(c)
    BY <1>4, <1>i, <1>t DEF FinishMessage, Ack, brokerVars
  <1>5. CASE NoLink(c)
    BY <1>5, <1>i, <1>t DEF NoLink, Ack, brokerVars
  <1>6. CASE FindLink(c)
    <2>1. /\ cons' \in [Consumers -> ConsumerState]
          /\ \A d \in Consumers \ {c} : cons'[d] = cons[d]
          /\ cons'[c].pc = "cancel" /\ cons'[c].msg = cons[c].msg
      BY <1>6, <1>t DEF FindLink, ConsumerState
    <2>2. Local(c)'
      BY <1>6, <1>t, <2>1 DEF Local, FindLink
    <2> QED
      BY <1>6, <1>t, <2>1, <2>2, ConsumerMoves DEF FindLink, bookVars, brokerVars
  <1>7. CASE CancelForEvent(c)
    <2>1. /\ cons' \in [Consumers -> ConsumerState]
          /\ \A d \in Consumers \ {c} : cons'[d] = cons[d]
          /\ cons'[c].pc = "read" /\ cons'[c].msg = cons[c].msg
      BY <1>7, <1>t DEF CancelForEvent, ConsumerState
    <2>2. ConsumerLocals'
      BY <1>7, <2>1 DEF CancelForEvent, RewardInv, ConsumerLocals, Local
    <2>c. status' = [r \in Rewards |->
                        IF status[r] = "pending" THEN "cancelled" ELSE status[r]]
      BY <1>7 DEF CancelForEvent
    <2>3. \A r \in Rewards :
             status'[r] = IF status[r] = "pending" THEN "cancelled" ELSE status[r]
      BY <2>c
    <2>4. status' \in [Rewards -> RewardStatus]
      <3>1. \A r \in Rewards : status[r] \in RewardStatus
        BY <1>t
      <3>2. "cancelled" \in RewardStatus
        BY DEF RewardStatus
      <3> QED BY <2>c, <3>1, <3>2
    <2> QED
      BY <1>7, <1>t, <2>1, <2>2, <2>3, <2>4, ConsumerFrame
         DEF CancelForEvent, bookVars, brokerVars
  <1>8. CASE ReadPosted(c)
    <2> DEFINE posted == {r \in Rewards : status[r] = "posted"}
    <2>1. cons' = [cons EXCEPT ![c].pc = "reverse", ![c].todo = posted]
      BY <1>8 DEF ReadPosted
    <2>2. posted \subseteq Rewards
      OBVIOUS
    <2> HIDE DEF posted
    <2>3. /\ cons' \in [Consumers -> ConsumerState]
          /\ \A d \in Consumers \ {c} : cons'[d] = cons[d]
          /\ cons'[c].pc = "reverse" /\ cons'[c].msg = cons[c].msg
      BY <2>1, <2>2, <1>t DEF ConsumerState
    <2>4. Local(c)'
      BY <1>8, <1>t, <2>3 DEF Local, ReadPosted
    <2> QED
      BY <1>8, <1>t, <2>3, <2>4, ConsumerMoves DEF ReadPosted, bookVars, brokerVars
  <1>9. CASE PostReversal(c)
    <2> PICK r \in cons[c].todo :
            /\ cons[c].pc = "reverse"
            /\ reversal' = reversal \cup {<<cons[c].msg, r>>}
            /\ cons' = [cons EXCEPT
                  ![c].todo = @ \ {r},
                  ![c].pc = IF <<cons[c].msg, r>> \in reversal THEN "reverse" ELSE "delta",
                  ![c].row = IF <<cons[c].msg, r>> \in reversal THEN None ELSE r]
            /\ UNCHANGED <<status, entry, granted, deducted, brokerVars, fraudVars,
                           faults, sched, rev>>
      BY <1>9 DEF PostReversal
    <2>0. /\ r \in Rewards
          /\ cons[c].msg \in Compensations /\ cons[c].msg \in Messages
      BY <1>t DEF Local
    <2>1. /\ \A d \in Consumers \ {c} : cons'[d] = cons[d]
          /\ cons'[c].msg = cons[c].msg
          /\ cons'[c].pc = IF <<cons[c].msg, r>> \in reversal THEN "reverse" ELSE "delta"
          /\ <<cons[c].msg, r>> \notin reversal => cons'[c].row = r
      BY <1>t DEF ConsumerState
    <2>2. cons' \in [Consumers -> ConsumerState]
      BY <2>0, <1>t, ConsumerTakes
    <2>3. Local(c)'
      BY <2>0, <2>1 DEF Local
    <2>4. reversal' \subseteq Compensations \X Rewards
      BY <2>0, <1>t
    <2> QED
      BY <1>t, <2>1, <2>2, <2>3, <2>4, ConsumerMoves DEF brokerVars
  <1>10. CASE DeductReward(c)
    <2>1. /\ cons' \in [Consumers -> ConsumerState]
          /\ \A d \in Consumers \ {c} : cons'[d] = cons[d]
          /\ cons'[c].pc = "reverse" /\ cons'[c].msg = cons[c].msg
      BY <1>10, <1>t DEF DeductReward, ConsumerState
    <2>2. Local(c)'
      BY <1>10, <1>t, <2>1 DEF Local, DeductReward
    <2>3. deducted' \in [Rewards -> Nat]
      <3>1. cons[c].row \in Rewards /\ deducted' = [deducted EXCEPT ![cons[c].row] = @ + 1]
        BY <1>10, <1>t DEF DeductReward, Local
      <3> QED BY <3>1, <1>t
    <2> QED
      BY <1>10, <1>t, <2>1, <2>2, <2>3, ConsumerMoves DEF DeductReward, brokerVars
  <1>11. CASE ConsumerFails(c)
    <2>1. faults' \in 0..MaxFaults /\ faults' > 0
      BY <1>11, <1>t, RewardAssumption DEF ConsumerFails
    <2> QED
      BY <1>11, <1>i, <1>n, <2>1 DEF ConsumerFails, Nack
  <1> QED
    BY <1>1, <1>2, <1>3, <1>4, <1>5, <1>6, <1>7, <1>8, <1>9, <1>10, <1>11 DEF Consume

LEMMA RepublishKeepsInv ==
    ASSUME RewardInv, NEW m \in Messages, Republish(m)
    PROVE  RewardInv'
  <1>1. queue' \in [Messages -> Nat] /\ copies' \in [Messages -> 1..MaxCopies]
    BY RewardAssumption DEF Republish, RewardInv, TypeOK
  <1>2. ConsumerLocals'
    BY DEF Republish, RewardInv, ConsumerLocals, Local
  <1>3. /\ cons' \in [Consumers -> ConsumerState] /\ status' \in [Rewards -> RewardStatus]
        /\ reversal' \subseteq Compensations \X Rewards
        /\ deducted' \in [Rewards -> Nat] /\ faults' \in 0..MaxFaults
    BY DEF Republish, RewardInv, TypeOK, ConsumerState, bookVars
  <1> QED
    BY <1>1, <1>2, <1>3, ConsumerFrame DEF Republish, bookVars

-----------------------------------------------------------------------------
(* Steps of the fraud requests.                                            *)

\* A step that cancels pending rewards, and moves one fraud request on.
LEMMA ReviewerFrame ==
    ASSUME RewardInv, NEW v \in Reviewers,
           rev' \in [Reviewers -> ReviewerState],
           \A w \in Reviewers \ {v} : rev'[w] = rev[w],
           rev'[v].pc # "idle" => rev'[v].case \in Cases,
           status' \in [Rewards -> RewardStatus],
           \A r \in Rewards :
               \/ status'[r] = status[r]
               \/ status[r] = "pending" /\ status'[r] = "cancelled",
           hold' \in [Rewards -> HoldStatus],
           holder' \in [Rewards -> Cases \cup {None}],
           caseStatus' \in [Cases -> CaseStatus],
           faults' \in 0..MaxFaults, faults' = faults \/ faults' > 0,
           UNCHANGED <<bookVars, brokerVars, sched, cons>>
    PROVE  RewardInv'
  <1>1. TypeOK'
    BY DEF RewardInv, TypeOK, ReviewerState, bookVars, brokerVars
  <1>2. ReviewerLocals' /\ ConsumerLocals' /\ GrantedAtMostOnce'
    BY DEF RewardInv, ReviewerLocals, ConsumerLocals, Local, GrantedAtMostOnce,
       bookVars
  <1>3. OwnerInv'
    BY DEF RewardInv, OwnerInv, Owner, Owning, bookVars
  <1>4. FaultlessInv'
    BY DEF RewardInv, FaultlessInv, bookVars
  <1> QED BY <1>1, <1>2, <1>3, <1>4 DEF RewardInv

\* The types of one request, and those of the tables it writes.
LEMMA ReviewerFields ==
    ASSUME RewardInv, NEW v \in Reviewers
    PROVE  /\ rev \in [Reviewers -> ReviewerState]
           /\ rev[v] \in ReviewerState
           /\ rev[v].pc # "idle" => rev[v].case \in Cases
           /\ status \in [Rewards -> RewardStatus]
           /\ hold \in [Rewards -> HoldStatus]
           /\ holder \in [Rewards -> Cases \cup {None}]
           /\ caseStatus \in [Cases -> CaseStatus]
           /\ faults \in 0..MaxFaults /\ faults \in Nat
  BY RewardAssumption DEF RewardInv, TypeOK, ReviewerState, ReviewerLocals

LEMMA ReviewerKeepsInv ==
    ASSUME RewardInv, NEW v \in Reviewers,
           Review(v) \/ Commit(v) \/ ReviewFails(v)
    PROVE  RewardInv'
  <1> DEFINE k == rev[v].case
  <1>t. /\ rev \in [Reviewers -> ReviewerState]
        /\ rev[v] \in ReviewerState
        /\ rev[v].pc # "idle" => k \in Cases
        /\ status \in [Rewards -> RewardStatus]
        /\ hold \in [Rewards -> HoldStatus]
        /\ holder \in [Rewards -> Cases \cup {None}]
        /\ caseStatus \in [Cases -> CaseStatus]
        /\ faults \in 0..MaxFaults /\ faults \in Nat
    BY ReviewerFields
  \* The request begins, on a case.
  <1>b. ASSUME NEW case \in Cases, NEW pc \in {"pending", "holds", "commit"},
               NEW job \in {"open", "allow", "reject", "escalate"},
               rev' = [rev EXCEPT ![v] = [pc |-> pc, job |-> job, case |-> case, rows |-> {}]],
               UNCHANGED <<status, bookVars, brokerVars, fraudVars, faults, sched, cons>>
        PROVE  RewardInv'
    <2>1. /\ rev' \in [Reviewers -> ReviewerState]
          /\ \A w \in Reviewers \ {v} : rev'[w] = rev[w]
          /\ rev'[v].case = case
      BY <1>b, <1>t DEF ReviewerState
    <2> QED BY <1>b, <1>t, <2>1, ReviewerFrame DEF fraudVars
  \* The request reads the rows it will write.
  <1>r. ASSUME NEW rows \in SUBSET Rewards, k \in Cases,
               rev' = [rev EXCEPT ![v].pc = "commit", ![v].rows = rows],
               UNCHANGED <<status, bookVars, brokerVars, fraudVars, faults, sched, cons>>
        PROVE  RewardInv'
    <2>1. /\ rev' \in [Reviewers -> ReviewerState]
          /\ \A w \in Reviewers \ {v} : rev'[w] = rev[w]
          /\ rev'[v].case = k
      BY <1>r, <1>t DEF ReviewerState
    <2> QED BY <1>r, <1>t, <2>1, ReviewerFrame DEF fraudVars
  \* The request is over.
  <1>i. ASSUME rev' = [rev EXCEPT ![v] = IdleReviewer],
               status' \in [Rewards -> RewardStatus],
               \A r \in Rewards :
                   \/ status'[r] = status[r]
                   \/ status[r] = "pending" /\ status'[r] = "cancelled",
               hold' \in [Rewards -> HoldStatus],
               holder' \in [Rewards -> Cases \cup {None}],
               caseStatus' \in [Cases -> CaseStatus],
               faults' \in 0..MaxFaults, faults' = faults \/ faults' > 0,
               UNCHANGED <<bookVars, brokerVars, sched, cons>>
        PROVE  RewardInv'
    <2>1. /\ rev' \in [Reviewers -> ReviewerState]
          /\ \A w \in Reviewers \ {v} : rev'[w] = rev[w]
          /\ rev'[v].pc = "idle"
      BY <1>i, <1>t DEF ReviewerState, IdleReviewer
    <2> QED BY <1>i, <2>1, ReviewerFrame
  <1>1. CASE OpenCase(v)
    <2> PICK case \in Cases :
            /\ rev' = [rev EXCEPT ![v] = [pc |-> "pending", job |-> "open",
                                          case |-> case, rows |-> {}]]
            /\ UNCHANGED <<status, bookVars, brokerVars, fraudVars, faults, sched, cons>>
      BY <1>1 DEF OpenCase
    <2> QED BY <1>b
  <1>2. ASSUME NEW case \in Cases,
               AllowCase(v, case) \/ RejectCase(v, case) \/ EscalateCase(v, case)
        PROVE  RewardInv'
    BY <1>2, <1>b DEF AllowCase, RejectCase, EscalateCase, ResolveCase
  <1>3. CASE ReadPending(v)
    <2> DEFINE rows == {r \in Suspect : status[r] = "pending"}
    <2>1. rows \in SUBSET Rewards
      BY RewardAssumption
    <2>2. /\ k \in Cases
          /\ rev' = [rev EXCEPT ![v].pc = "commit", ![v].rows = rows]
          /\ UNCHANGED <<status, bookVars, brokerVars, fraudVars, faults, sched, cons>>
      BY <1>3, <1>t DEF ReadPending
    <2> HIDE DEF rows
    <2> QED BY <2>1, <2>2, <1>r
  <1>4. CASE ReadHolds(v)
    <2>1. ActiveHolds(k) \in SUBSET Rewards
      BY DEF ActiveHolds
    <2>2. /\ k \in Cases
          /\ rev' = [rev EXCEPT ![v].pc = "commit", ![v].rows = ActiveHolds(k)]
          /\ UNCHANGED <<status, bookVars, brokerVars, fraudVars, faults, sched, cons>>
      BY <1>4, <1>t DEF ReadHolds
    <2> QED BY <2>1, <2>2, <1>r
  <1>5. CASE CommitOpen(v)
    <2> DEFINE new == {r \in rev[v].rows : hold[r] = "none"}
    <2>1. /\ k \in Cases
          /\ caseStatus' = [caseStatus EXCEPT ![k] = "open"]
          /\ hold' = [r \in Rewards |-> IF r \in new THEN "active" ELSE hold[r]]
          /\ holder' = [r \in Rewards |-> IF r \in new THEN k ELSE holder[r]]
          /\ rev' = [rev EXCEPT ![v] = IdleReviewer]
          /\ UNCHANGED <<status, bookVars, brokerVars, faults, sched, cons>>
      BY <1>5, <1>t DEF CommitOpen
    <2> HIDE DEF new
    <2>2. hold' \in [Rewards -> HoldStatus]
      <3>1. "active" \in HoldStatus BY DEF HoldStatus
      <3> QED BY <2>1, <3>1, <1>t
    <2>3. holder' \in [Rewards -> Cases \cup {None}]
      BY <2>1, <1>t
    <2>4. caseStatus' \in [Cases -> CaseStatus]
      BY <2>1, <1>t DEF CaseStatus
    <2> QED BY <2>1, <2>2, <2>3, <2>4, <1>t, <1>i
  <1>6. CASE CommitAllow(v)
    <2>1. /\ k \in Cases
          /\ hold' = [r \in Rewards |->
                         IF r \in ActiveHolds(k) THEN "released" ELSE hold[r]]
          /\ caseStatus' = [caseStatus EXCEPT ![k] = "allowed"]
          /\ rev' = [rev EXCEPT ![v] = IdleReviewer]
          /\ UNCHANGED <<status, bookVars, brokerVars, holder, faults, sched, cons>>
      BY <1>6, <1>t DEF CommitAllow
    <2>2. hold' \in [Rewards -> HoldStatus]
      <3>1. "released" \in HoldStatus BY DEF HoldStatus
      <3> QED BY <2>1, <3>1, <1>t
    <2>4. caseStatus' \in [Cases -> CaseStatus]
      BY <2>1, <1>t DEF CaseStatus
    <2> QED BY <2>1, <2>2, <2>4, <1>t, <1>i
  <1>7. CASE CommitReject(v)
    <2> DEFINE gone(r) == r \in rev[v].rows /\ status[r] = "pending"
    <2>1. /\ k \in Cases
          /\ status' = [r \in Rewards |-> IF gone(r) THEN "cancelled" ELSE status[r]]
          /\ hold' = [r \in Rewards |->
                         IF r \in ActiveHolds(k) THEN "rejected" ELSE hold[r]]
          /\ caseStatus' = [caseStatus EXCEPT ![k] = "rejected"]
          /\ rev' = [rev EXCEPT ![v] = IdleReviewer]
          /\ UNCHANGED <<bookVars, brokerVars, holder, faults, sched, cons>>
      BY <1>7, <1>t DEF CommitReject
    <2>2. hold' \in [Rewards -> HoldStatus]
      <3>1. "rejected" \in HoldStatus BY DEF HoldStatus
      <3> QED BY <2>1, <3>1, <1>t
    <2>3. \A r \in Rewards : \/ status'[r] = status[r]
                             \/ status[r] = "pending" /\ status'[r] = "cancelled"
      <3> SUFFICES ASSUME NEW r \in Rewards
                   PROVE  \/ status'[r] = status[r]
                          \/ status[r] = "pending" /\ status'[r] = "cancelled"
        OBVIOUS
      <3>1. status'[r] = IF gone(r) THEN "cancelled" ELSE status[r]
        BY <2>1
      <3> QED BY <3>1
    <2>4. status' \in [Rewards -> RewardStatus]
      <3>1. "cancelled" \in RewardStatus BY DEF RewardStatus
      <3> HIDE DEF gone
      <3> QED BY <2>1, <3>1, <1>t
    <2>5. caseStatus' \in [Cases -> CaseStatus]
      BY <2>1, <1>t DEF CaseStatus
    <2> QED BY <2>1, <2>2, <2>3, <2>4, <2>5, <1>t, <1>i
  <1>8. CASE CommitEscalate(v)
    <2>1. /\ k \in Cases
          /\ caseStatus' = [caseStatus EXCEPT ![k] = "escalated"]
          /\ rev' = [rev EXCEPT ![v] = IdleReviewer]
          /\ UNCHANGED <<status, bookVars, brokerVars, hold, holder, faults, sched, cons>>
      BY <1>8, <1>t DEF CommitEscalate
    <2>2. caseStatus' \in [Cases -> CaseStatus]
      BY <2>1, <1>t DEF CaseStatus
    <2> QED BY <2>1, <2>2, <1>t, <1>i
  <1>9. CASE ReviewFails(v)
    <2>1. faults' \in 0..MaxFaults /\ faults' > 0
      BY <1>9, <1>t, RewardAssumption DEF ReviewFails
    <2> QED BY <1>9, <2>1, <1>t, <1>i DEF ReviewFails, fraudVars
  <1> QED
    BY <1>1, <1>2, <1>3, <1>4, <1>5, <1>6, <1>7, <1>8, <1>9 DEF Review, Commit

-----------------------------------------------------------------------------
(* The theorems.                                                           *)

LEMMA RewardStep == RewardInv /\ [Next]_vars => RewardInv'
  <1> SUFFICES ASSUME RewardInv, [Next]_vars PROVE RewardInv'
    OBVIOUS
  <1>1. CASE UNCHANGED vars
    BY <1>1 DEF vars, RewardInv, TypeOK, ConsumerLocals, Local, ReviewerLocals,
       OwnerInv, Owner, GrantedAtMostOnce, FaultlessInv, bookVars, brokerVars, fraudVars
  <1>2. CASE Next
    BY <1>2, RepublishKeepsInv, ConsumerKeepsInv, SchedulerKeepsInv, ReviewerKeepsInv
       DEF Next
  <1> QED BY <1>1, <1>2

\* RewardInv holds in every reachable state.
LEMMA RewardAlways == Spec => []RewardInv
  BY RewardInit, RewardStep, PTL DEF Spec

\* Every table and every loop of the reward flow keeps its types.
THEOREM TypeCorrect == Spec => []TypeOK
  BY RewardAlways, PTL DEF RewardInv

\* postDueRewards never pays a reward twice, and pays only what is in the
\* ledger: the claim, the idempotency key and the duplicate flag suffice for any
\* number of loops that throw and crash anywhere.
THEOREM PaidAtMostOnce == Spec => []GrantedAtMostOnce
  BY RewardAlways, PTL DEF RewardInv

\* In runs without a fault a cancelled reward has no ledger entry and no grant.
THEOREM CancelledUnpaid == Spec => []CancelledNotPaid
  <1>1. RewardInv => CancelledNotPaid
    <2> SUFFICES ASSUME RewardInv, faults = 0, NEW r \in Rewards, status[r] = "cancelled"
                 PROVE  r \notin entry /\ granted[r] = 0
      BY DEF CancelledNotPaid
    <2>1. r \notin entry
      BY DEF RewardInv, FaultlessInv
    <2>2. granted[r] \in Nat
      BY DEF RewardInv, TypeOK
    <2> QED BY <2>1, <2>2 DEF RewardInv, GrantedAtMostOnce
  <1> QED BY <1>1, RewardAlways, PTL

\* What one step does to a cancelled reward: nothing.
LEMMA CancelledStays ==
    ASSUME RewardInv, [Next]_vars, NEW r \in Rewards, status[r] = "cancelled"
    PROVE  status'[r] = "cancelled" /\ (r \in entry' => r \in entry)
  <1>t. status \in [Rewards -> RewardStatus]
    BY DEF RewardInv, TypeOK
  <1>1. ASSUME NEW s \in Schedulers,
               PostDueRewards(s) \/ PostingThrows(s) \/ SchedulerCrashes(s)
        PROVE  status'[r] = "cancelled" /\ (r \in entry' => r \in entry)
    <2>1. Owner(s)
      BY DEF RewardInv, OwnerInv
    <2>2. CASE ClaimReward(s)
      BY <2>1, <2>2, <1>t DEF ClaimReward, bookVars
    <2>3. CASE PostReward(s)
      BY <2>1, <2>3 DEF PostReward, Owner, Owning
    <2>4. CASE RecordPosted(s)
      <3>1. sched[s].row \in Rewards \ {r}
        BY <2>1, <2>4 DEF RecordPosted, Owner, Owning
      <3> QED BY <2>4, <3>1, <1>t DEF RecordPosted, bookVars
    <2>5. CASE RevertClaim(s)
      <3>1. sched[s].row \in Rewards \ {r}
        BY <2>1, <2>5 DEF RevertClaim, Owner, Owning
      <3> QED BY <2>5, <3>1, <1>t DEF RevertClaim, bookVars
    <2>6. CASE SelectDue(s) \/ FinishBatch(s) \/ CheckHold(s) \/ GrantReward(s)
               \/ PostingThrows(s) \/ SchedulerCrashes(s)
      BY <2>6 DEF SelectDue, FinishBatch, CheckHold, GrantReward, PostingThrows,
         SchedulerCrashes, bookVars
    <2> QED
      BY <1>1, <2>2, <2>3, <2>4, <2>5, <2>6 DEF PostDueRewards
  <1>2. ASSUME NEW c \in Consumers,
               (\E m \in Messages : Deliver(c, m)) \/ Consume(c) \/ ConsumerFails(c)
        PROVE  status'[r] = "cancelled" /\ (r \in entry' => r \in entry)
    <2>1. CASE CreateReward(c)
      BY <2>1, <1>t DEF CreateReward, bookVars
    <2>2. CASE CancelForEvent(c)
      BY <2>2 DEF CancelForEvent, bookVars
    <2>3. CASE (\E m \in Messages : Deliver(c, m)) \/ FindReward(c)
               \/ FinishMessage(c) \/ NoLink(c) \/ FindLink(c) \/ ReadPosted(c)
               \/ PostReversal(c) \/ DeductReward(c) \/ ConsumerFails(c)
      BY <2>3 DEF Deliver, FindReward, FinishMessage, NoLink, FindLink, ReadPosted,
         PostReversal, DeductReward, ConsumerFails, bookVars
    <2> QED BY <1>2, <2>1, <2>2, <2>3 DEF Consume
  <1>3. ASSUME NEW v \in Reviewers, Review(v) \/ Commit(v) \/ ReviewFails(v)
        PROVE  status'[r] = "cancelled" /\ (r \in entry' => r \in entry)
    <2>1. CASE CommitReject(v)
      BY <2>1 DEF CommitReject, bookVars
    <2>2. CASE ~CommitReject(v)
      BY <1>3, <2>2 DEF Review, Commit, OpenCase, AllowCase, RejectCase, EscalateCase,
         ResolveCase, ReadPending, ReadHolds, CommitOpen, CommitAllow, CommitEscalate,
         ReviewFails, bookVars
    <2> QED BY <2>1, <2>2
  <1>4. CASE (\E m \in Messages : Republish(m)) \/ UNCHANGED vars
    BY <1>4 DEF Republish, vars, bookVars
  <1> QED BY <1>1, <1>2, <1>3, <1>4 DEF Next

\* A reward once cancelled is never written again and never posted, whatever
\* throws, crashes or is delivered twice.
THEOREM CancelledStaysSo == Spec => CancelledForGood
  <1>1. RewardInv /\ [Next]_vars =>
            [\A r \in Rewards : status[r] = "cancelled" =>
                status'[r] = "cancelled" /\ (r \in entry' => r \in entry)]_vars
    BY CancelledStays
  <1> QED BY <1>1, RewardAlways, PTL DEF Spec, CancelledForGood

-----------------------------------------------------------------------------
(* Deductions.                                                             *)

\* Handlers that have written the reversal of r and not yet its deduction, and
\* the compensations whose reversal of r is in the ledger.
Deducting(r) == {c \in Consumers : cons[c].pc = "delta" /\ cons[c].row = r}
Reversed(r) == {m \in Compensations : <<m, r>> \in reversal}

\* What is deducted, with what handlers are about to deduct, is what is reversed,
\* less what handlers that failed have lost.
Owed(r) ==
    /\ deducted[r] + Cardinality(Deducting(r)) <= Cardinality(Reversed(r))
    /\ faults = 0 =>
          deducted[r] + Cardinality(Deducting(r)) = Cardinality(Reversed(r))

DeductInv == \A r \in Rewards : Owed(r)

\* A fault is never taken back.
LEMMA FaultsStay ==
    ASSUME RewardInv, [Next]_vars
    PROVE  faults' = 0 => faults = 0
  <1>1. faults \in Nat
    BY RewardAssumption DEF RewardInv, TypeOK
  <1>2. faults' = faults \/ faults' = faults + 1
    <2>1. CASE \E s \in Schedulers :
                  PostDueRewards(s) \/ PostingThrows(s) \/ SchedulerCrashes(s)
      BY <2>1 DEF PostDueRewards, SelectDue, FinishBatch, CheckHold, ClaimReward,
         PostReward, RecordPosted, GrantReward, RevertClaim, PostingThrows,
         SchedulerCrashes
    <2>2. CASE \E c \in Consumers :
                  (\E m \in Messages : Deliver(c, m)) \/ Consume(c) \/ ConsumerFails(c)
      BY <2>2 DEF Consume, Deliver, FindReward, CreateReward, FinishMessage, NoLink,
         FindLink, CancelForEvent, ReadPosted, PostReversal, DeductReward, ConsumerFails
    <2>3. CASE \E v \in Reviewers : Review(v) \/ Commit(v) \/ ReviewFails(v)
      BY <2>3 DEF Review, Commit, OpenCase, AllowCase, RejectCase, EscalateCase,
         ResolveCase, ReadPending, ReadHolds, CommitOpen, CommitAllow, CommitReject,
         CommitEscalate, ReviewFails
    <2>4. CASE (\E m \in Messages : Republish(m)) \/ UNCHANGED vars
      BY <2>4 DEF Republish, vars
    <2> QED BY <2>1, <2>2, <2>3, <2>4 DEF Next
  <1> QED BY <1>1, <1>2

\* No handler begins a deduction.
LEMMA DeductSame ==
    ASSUME RewardInv, DeductInv, IsFiniteSet(Consumers), IsFiniteSet(Compensations),
           UNCHANGED <<reversal, deducted>>,
           \A c \in Consumers : cons'[c] = cons[c] \/ cons'[c].pc # "delta",
           faults' = 0 =>
               /\ faults = 0
               /\ \A c \in Consumers : cons[c].pc = "delta" => cons'[c] = cons[c]
    PROVE  DeductInv'
  <1> SUFFICES ASSUME NEW r \in Rewards PROVE Owed(r)'
    BY DEF DeductInv
  <1>1. Deducting(r)' \subseteq Deducting(r) /\ IsFiniteSet(Deducting(r))
    BY FS_Subset DEF Deducting
  <1>2. /\ Cardinality(Deducting(r)') <= Cardinality(Deducting(r))
        /\ Cardinality(Deducting(r)') \in Nat /\ Cardinality(Deducting(r)) \in Nat
    BY <1>1, FS_Subset, FS_CardinalityType
  <1>6. faults' = 0 => Deducting(r)' = Deducting(r)
    BY <1>1 DEF Deducting
  <1>3. Reversed(r)' = Reversed(r) /\ IsFiniteSet(Reversed(r))
    BY FS_Subset DEF Reversed
  <1>4. Cardinality(Reversed(r)) \in Nat
    BY <1>3, FS_CardinalityType
  <1>5. deducted[r] \in Nat
    BY DEF RewardInv, TypeOK
  <1> QED
    BY <1>2, <1>3, <1>4, <1>5, <1>6 DEF DeductInv, Owed

LEMMA DeductStep ==
    ASSUME RewardInv, DeductInv, [Next]_vars,
           IsFiniteSet(Consumers), IsFiniteSet(Compensations)
    PROVE  DeductInv'
  <1>t. /\ cons \in [Consumers -> ConsumerState]
        /\ deducted \in [Rewards -> Nat]
    BY DEF RewardInv, TypeOK, ConsumerState
  <1>f. ASSUME NEW r \in Rewards
        PROVE  /\ IsFiniteSet(Deducting(r)) /\ Cardinality(Deducting(r)) \in Nat
               /\ IsFiniteSet(Reversed(r)) /\ Cardinality(Reversed(r)) \in Nat
               /\ deducted[r] \in Nat
               /\ Owed(r)
    <2>1. Deducting(r) \subseteq Consumers /\ Reversed(r) \subseteq Compensations
      BY DEF Deducting, Reversed
    <2> QED BY <2>1, <1>t, FS_Subset, FS_CardinalityType DEF DeductInv
  <1>g. faults \in Nat
    BY RewardAssumption DEF RewardInv, TypeOK
  <1>1. ASSUME NEW c \in Consumers, PostReversal(c) PROVE DeductInv'
    <2> PICK q \in cons[c].todo :
            /\ cons[c].pc = "reverse"
            /\ reversal' = reversal \cup {<<cons[c].msg, q>>}
            /\ cons' = [cons EXCEPT
                  ![c].todo = @ \ {q},
                  ![c].pc = IF <<cons[c].msg, q>> \in reversal THEN "reverse" ELSE "delta",
                  ![c].row = IF <<cons[c].msg, q>> \in reversal THEN None ELSE q]
            /\ UNCHANGED <<status, entry, granted, deducted, brokerVars, fraudVars,
                           faults, sched, rev>>
      BY <1>1 DEF PostReversal
    <2> DEFINE m == cons[c].msg
    <2>0. q \in Rewards /\ m \in Compensations
      BY <1>t DEF RewardInv, ConsumerLocals, Local, ConsumerState
    <2>c. /\ \A d \in Consumers \ {c} : cons'[d] = cons[d]
          /\ cons'[c].pc = IF <<m, q>> \in reversal THEN "reverse" ELSE "delta"
          /\ <<m, q>> \notin reversal => cons'[c].row = q
      BY <1>t DEF ConsumerState
    <2>1. CASE <<m, q>> \in reversal
      <3>1. UNCHANGED <<reversal, deducted, faults>>
        BY <2>1
      <3>2. \A d \in Consumers : cons'[d] = cons[d] \/ cons'[d].pc # "delta"
        BY <2>1, <2>c
      <3>3. \A d \in Consumers : cons[d].pc = "delta" => cons'[d] = cons[d]
        BY <2>c
      <3> QED BY <3>1, <3>2, <3>3, DeductSame
    <2>2. CASE <<m, q>> \notin reversal
      <3> SUFFICES ASSUME NEW r \in Rewards PROVE Owed(r)'
        BY DEF DeductInv
      <3>1. CASE r = q
        <4>1. /\ Deducting(r)' = Deducting(r) \cup {c} /\ c \notin Deducting(r)
          BY <2>2, <2>c, <3>1 DEF Deducting
        <4>2. Reversed(r)' = Reversed(r) \cup {m} /\ m \notin Reversed(r)
          BY <2>0, <2>2, <3>1 DEF Reversed
        <4>3. /\ Cardinality(Deducting(r)') = Cardinality(Deducting(r)) + 1
              /\ Cardinality(Reversed(r)') = Cardinality(Reversed(r)) + 1
          BY <4>1, <4>2, <1>f, FS_AddElement
        <4> QED BY <4>3, <1>f DEF Owed
      <3>2. CASE r # q
        <4>1. Deducting(r)' = Deducting(r)
          BY <2>2, <2>c, <3>2 DEF Deducting
        <4>2. Reversed(r)' = Reversed(r)
          BY <3>2 DEF Reversed
        <4> QED BY <4>1, <4>2, <1>f DEF Owed
      <3> QED BY <3>1, <3>2
    <2> QED BY <2>1, <2>2
  <1>2. ASSUME NEW c \in Consumers, DeductReward(c) PROVE DeductInv'
    <2> DEFINE q == cons[c].row
    <2>0. q \in Rewards /\ cons[c].pc = "delta"
      BY <1>2 DEF DeductReward, RewardInv, ConsumerLocals, Local
    <2>1. /\ \A d \in Consumers \ {c} : cons'[d] = cons[d]
          /\ cons'[c].pc = "reverse"
      BY <1>2, <1>t DEF DeductReward, ConsumerState
    <2>2. /\ deducted' = [deducted EXCEPT ![q] = @ + 1]
          /\ reversal' = reversal /\ faults' = faults
      BY <1>2 DEF DeductReward
    <2> SUFFICES ASSUME NEW r \in Rewards PROVE Owed(r)'
      BY DEF DeductInv
    <2>3. Reversed(r)' = Reversed(r)
      BY <2>2 DEF Reversed
    <2>4. CASE r = q
      <3>1. Deducting(r)' = Deducting(r) \ {c} /\ c \in Deducting(r)
        BY <2>0, <2>1, <2>4 DEF Deducting
      <3>2. Cardinality(Deducting(r)') = Cardinality(Deducting(r)) - 1
        BY <3>1, <1>f, FS_RemoveElement
      <3>3. deducted'[r] = deducted[r] + 1
        BY <2>2, <2>4, <1>t
      <3> QED BY <2>2, <2>3, <3>2, <3>3, <1>f DEF Owed
    <2>5. CASE r # q
      <3>1. Deducting(r)' = Deducting(r) /\ deducted'[r] = deducted[r]
        BY <2>1, <2>2, <2>5, <1>t DEF Deducting
      <3> QED BY <2>2, <2>3, <3>1, <1>f DEF Owed
    <2> QED BY <2>4, <2>5
  <1>3. ASSUME NEW c \in Consumers,
               \/ \E m \in Messages : Deliver(c, m)
               \/ FindReward(c) \/ CreateReward(c) \/ FinishMessage(c) \/ NoLink(c)
               \/ FindLink(c) \/ CancelForEvent(c) \/ ReadPosted(c) \/ ConsumerFails(c)
        PROVE  DeductInv'
    <2>1. UNCHANGED <<reversal, deducted>>
      BY <1>3 DEF Deliver, FindReward, CreateReward, FinishMessage, NoLink, FindLink,
         CancelForEvent, ReadPosted, ConsumerFails, bookVars
    <2>2. \A d \in Consumers \ {c} : cons'[d] = cons[d]
      BY <1>3, <1>t DEF Deliver, FindReward, CreateReward, FinishMessage, NoLink,
         FindLink, CancelForEvent, ReadPosted, ConsumerFails, Ack, Nack
    <2>3. cons'[c].pc # "delta"
      <3>1. CASE CreateReward(c)
        BY <3>1, <1>t DEF CreateReward, Nack, IdleConsumer, ConsumerState
      <3>2. CASE FindReward(c)
        BY <3>2, <1>t DEF FindReward, ConsumerState
      <3>3. CASE \E m \in Messages : Deliver(c, m)
        BY <3>3, <1>t DEF Deliver
      <3>4. CASE FinishMessage(c) \/ NoLink(c) \/ ConsumerFails(c)
        BY <3>4, <1>t DEF FinishMessage, NoLink, ConsumerFails, Ack, Nack, IdleConsumer
      <3>5. CASE FindLink(c) \/ CancelForEvent(c) \/ ReadPosted(c)
        BY <3>5, <1>t DEF FindLink, CancelForEvent, ReadPosted, ConsumerState
      <3> QED BY <1>3, <3>1, <3>2, <3>3, <3>4, <3>5
    <2>4. faults' = 0 => cons[c].pc # "delta"
      <3>1. CASE ConsumerFails(c)
        BY <3>1, <1>g DEF ConsumerFails
      <3>2. CASE ~ConsumerFails(c)
        BY <1>3, <3>2 DEF Deliver, FindReward, CreateReward, FinishMessage, NoLink,
           FindLink, CancelForEvent, ReadPosted
      <3> QED BY <3>1, <3>2
    <2> QED BY <2>1, <2>2, <2>3, <2>4, FaultsStay, DeductSame
  <1>4. CASE \/ \E s \in Schedulers :
                   PostDueRewards(s) \/ PostingThrows(s) \/ SchedulerCrashes(s)
             \/ \E v \in Reviewers : Review(v) \/ Commit(v) \/ ReviewFails(v)
             \/ \E m \in Messages : Republish(m)
             \/ UNCHANGED vars
    <2>1. UNCHANGED <<cons, reversal, deducted>>
      BY <1>4 DEF PostDueRewards, SelectDue, FinishBatch, CheckHold, ClaimReward,
         PostReward, RecordPosted, GrantReward, RevertClaim, PostingThrows,
         SchedulerCrashes, Review, Commit, OpenCase, AllowCase, RejectCase,
         EscalateCase, ResolveCase, ReadPending, ReadHolds, CommitOpen, CommitAllow,
         CommitReject, CommitEscalate, ReviewFails, Republish, vars, bookVars
    <2> QED BY <2>1, FaultsStay, DeductSame
  <1> QED BY <1>1, <1>2, <1>3, <1>4 DEF Next, Consume

LEMMA DeductInit == Init => DeductInv
  <1> SUFFICES ASSUME Init, NEW r \in Rewards PROVE Owed(r)
    BY DEF DeductInv
  <1>1. Deducting(r) = {} /\ Reversed(r) = {} /\ deducted[r] = 0
    BY DEF Init, Deducting, Reversed, IdleConsumer
  <1> QED BY <1>1, FS_EmptySet DEF Owed

\* However often a refund or chargeback is delivered, and wherever its handler
\* fails, each reversal in the ledger is deducted from the wallet at most once.
THEOREM ReversedAtMostOnce ==
    ASSUME IsFiniteSet(Consumers), IsFiniteSet(Compensations)
    PROVE  Spec => []DeductedAtMostOnce
  <1>1. RewardInv /\ DeductInv /\ [Next]_vars => DeductInv'
    BY DeductStep
  <1>2. RewardInv /\ DeductInv => DeductedAtMostOnce
    <2> SUFFICES ASSUME RewardInv, DeductInv, NEW r \in Rewards
                 PROVE  deducted[r] <= Cardinality(Reversed(r))
      BY DEF DeductedAtMostOnce, Reversed
    <2>1. Deducting(r) \subseteq Consumers /\ Reversed(r) \subseteq Compensations
      BY DEF Deducting, Reversed
    <2>2. Cardinality(Deducting(r)) \in Nat /\ Cardinality(Reversed(r)) \in Nat
      BY <2>1, FS_Subset, FS_CardinalityType
    <2>3. deducted[r] \in Nat
      BY DEF RewardInv, TypeOK
    <2> QED BY <2>2, <2>3 DEF DeductInv, Owed
  <1> QED BY <1>1, <1>2, DeductInit, RewardAlways, PTL DEF Spec

-----------------------------------------------------------------------------
(* Rows, ledger and wallet.                                                *)

\* A row that schedulers post without a fault has its entry once it is posted;
\* an entry has its grant, unless the scheduler that wrote it is about to.
\* No scheduler finds its entry in the ledger already.
Granting(r) ==
    \E s \in Schedulers : sched[s].pc \in {"posted", "grant"} /\ sched[s].row = r

Agrees(r) ==
    /\ status[r] = "posted" => r \in entry
    /\ r \in entry => (granted[r] = 1 /\ status[r] = "posted") \/ Granting(r)

BooksInv ==
    faults = 0 =>
        /\ \A s \in Schedulers : sched[s].pc # "posted_again"
        /\ \A r \in Rewards : Agrees(r)

\* A step that writes no entry and no grant, leaves every row posted that was
\* and posts none, and takes no scheduler away from what it is about to grant.
LEMMA BooksSame ==
    ASSUME BooksInv,
           faults' = 0 => faults = 0,
           UNCHANGED <<entry, granted>>,
           \A r \in Rewards : status'[r] = "posted" <=> status[r] = "posted",
           \A s \in Schedulers :
               /\ sched[s].pc \in {"posted", "grant"} => sched'[s] = sched[s]
               /\ sched[s].pc # "posted_again" => sched'[s].pc # "posted_again"
    PROVE  BooksInv'
  <1> SUFFICES ASSUME faults' = 0, faults = 0,
                      \A s \in Schedulers : sched[s].pc # "posted_again",
                      \A r \in Rewards : Agrees(r)
               PROVE  /\ \A s \in Schedulers : sched'[s].pc # "posted_again"
                      /\ \A r \in Rewards : Agrees(r)'
    BY DEF BooksInv
  <1>1. ASSUME NEW r \in Rewards PROVE Agrees(r)'
    <2>1. Granting(r) => Granting(r)'
      BY DEF Granting
    <2> QED BY <2>1 DEF Agrees
  <1> QED BY <1>1

LEMMA BooksStep ==
    ASSUME RewardInv, BooksInv, [Next]_vars
    PROVE  BooksInv'
  <1>t. /\ sched \in [Schedulers -> SchedulerState]
        /\ status \in [Rewards -> RewardStatus]
        /\ granted \in [Rewards -> Nat] /\ entry \subseteq Rewards
        /\ faults \in Nat
    BY RewardAssumption DEF RewardInv, TypeOK, SchedulerState
  <1>1. ASSUME NEW s \in Schedulers, PostReward(s) PROVE BooksInv'
    <2> DEFINE r == sched[s].row
    <2>0. sched[s].pc = "entry" /\ r \in Rewards /\ status[r] = "processing"
      BY <1>1 DEF PostReward, RewardInv, OwnerInv, Owner, Owning
    <2>1. /\ entry' = entry \cup {r}
          /\ sched' = [sched EXCEPT ![s].pc =
                          IF r \in entry THEN "posted_again" ELSE "posted"]
          /\ UNCHANGED <<status, granted, faults>>
      BY <1>1 DEF PostReward, bookVars
    <2> SUFFICES ASSUME faults = 0
                 PROVE  /\ \A t \in Schedulers : sched'[t].pc # "posted_again"
                        /\ \A q \in Rewards : Agrees(q)'
      BY <2>1 DEF BooksInv
    <2>2. r \notin entry
      <3>1. ASSUME r \in entry PROVE Granting(r)
        BY <2>0, <3>1 DEF BooksInv, Agrees
      <3>2. ~Granting(r)
        BY <2>0 DEF Granting, RewardInv, OwnerInv, Owning
      <3> QED BY <3>1, <3>2
    <2>3. /\ \A t \in Schedulers \ {s} : sched'[t] = sched[t]
          /\ sched'[s].pc = "posted" /\ sched'[s].row = r
      BY <2>1, <2>2, <1>t DEF SchedulerState
    <2>4. ASSUME NEW q \in Rewards PROVE Agrees(q)'
      <3>1. Granting(q) => Granting(q)'
        BY <2>0, <2>3 DEF Granting
      <3>2. Granting(r)'
        BY <2>3 DEF Granting
      <3>3. Agrees(q)
        BY DEF BooksInv
      <3> QED BY <2>1, <3>1, <3>2, <3>3 DEF Agrees
    <2> QED BY <2>3, <2>4 DEF BooksInv
  <1>2. ASSUME NEW s \in Schedulers, RecordPosted(s) PROVE BooksInv'
    <2> DEFINE r == sched[s].row
    <2>1. /\ status' = [status EXCEPT ![r] = "posted"]
          /\ UNCHANGED <<entry, granted, faults>>
      BY <1>2 DEF RecordPosted, bookVars
    <2> SUFFICES ASSUME faults = 0
                 PROVE  /\ \A t \in Schedulers : sched'[t].pc # "posted_again"
                        /\ \A q \in Rewards : Agrees(q)'
      BY <2>1 DEF BooksInv
    <2>2. sched[s].pc = "posted"
      BY <1>2 DEF RecordPosted, BooksInv
    <2>3. r \in Rewards /\ r \in entry
      BY <2>2 DEF RewardInv, OwnerInv, Owner, Owning
    <2>4. sched' = [sched EXCEPT ![s].pc = "grant", ![s].row = @]
      BY <1>2, <2>2 DEF RecordPosted
    <2>5. /\ \A t \in Schedulers \ {s} : sched'[t] = sched[t]
          /\ sched'[s].pc = "grant" /\ sched'[s].row = r
      BY <2>4, <1>t DEF SchedulerState
    <2>6. ASSUME NEW q \in Rewards PROVE Agrees(q)'
      <3>1. Granting(q) => Granting(q)'
        BY <2>5 DEF Granting
      <3>2. Agrees(q)
        BY DEF BooksInv
      <3> QED BY <2>1, <2>3, <3>1, <3>2, <1>t DEF Agrees
    <2> QED BY <2>5, <2>6 DEF BooksInv
  <1>3. ASSUME NEW s \in Schedulers, GrantReward(s) PROVE BooksInv'
    <2> DEFINE r == sched[s].row
    <2>0. /\ sched[s].pc = "grant" /\ r \in Rewards
          /\ status[r] = "posted" /\ granted[r] = 0
      BY <1>3 DEF GrantReward, RewardInv, OwnerInv, Owner, Owning
    <2>1. /\ granted' = [granted EXCEPT ![r] = @ + 1]
          /\ sched' = [sched EXCEPT ![s].pc = "hold", ![s].row = None]
          /\ UNCHANGED <<status, entry, faults>>
      BY <1>3 DEF GrantReward
    <2> SUFFICES ASSUME faults = 0
                 PROVE  /\ \A t \in Schedulers : sched'[t].pc # "posted_again"
                        /\ \A q \in Rewards : Agrees(q)'
      BY <2>1 DEF BooksInv
    <2>2. /\ \A t \in Schedulers \ {s} : sched'[t] = sched[t]
          /\ sched'[s].pc = "hold"
      BY <2>1, <1>t DEF SchedulerState
    <2>3. ASSUME NEW q \in Rewards PROVE Agrees(q)'
      <3>1. CASE q = r
        <4>1. granted'[r] = 1
          BY <2>0, <2>1, <1>t
        <4> QED BY <2>0, <2>1, <3>1, <4>1 DEF Agrees, BooksInv
      <3>2. CASE q # r
        <4>1. Granting(q) => Granting(q)'
          BY <2>2, <3>2 DEF Granting
        <4>2. granted'[q] = granted[q]
          BY <2>1, <3>2, <1>t
        <4>3. Agrees(q)
          BY DEF BooksInv
        <4> QED BY <2>1, <4>1, <4>2, <4>3 DEF Agrees
      <3> QED BY <3>1, <3>2
    <2> QED BY <2>2, <2>3 DEF BooksInv
  <1>4. ASSUME NEW s \in Schedulers,
               \/ SelectDue(s) \/ FinishBatch(s) \/ CheckHold(s) \/ ClaimReward(s)
               \/ RevertClaim(s)
        PROVE  BooksInv'
    <2>1. UNCHANGED <<entry, granted, faults>>
      BY <1>4 DEF SelectDue, FinishBatch, CheckHold, ClaimReward, RevertClaim, bookVars
    <2>2. \A r \in Rewards : status'[r] = "posted" <=> status[r] = "posted"
      BY <1>4, <1>t DEF SelectDue, FinishBatch, CheckHold, ClaimReward, RevertClaim,
         RewardStatus
    <2>3. \A t \in Schedulers \ {s} : sched'[t] = sched[t]
      BY <1>4, <1>t DEF SelectDue, FinishBatch, CheckHold, ClaimReward, RevertClaim
    <2>4. sched[s].pc \notin {"posted", "grant"} /\ sched'[s].pc # "posted_again"
      <3>1. CASE SelectDue(s)
        BY <3>1, <1>t DEF SelectDue, SchedulerState
      <3>2. CASE FinishBatch(s)
        BY <3>2, <1>t DEF FinishBatch, IdleScheduler
      <3>3. CASE CheckHold(s)
        BY <3>3, <1>t DEF CheckHold, SchedulerState
      <3>4. CASE ClaimReward(s)
        BY <3>4, <1>t DEF ClaimReward, SchedulerState
      <3>5. CASE RevertClaim(s)
        BY <3>5, <1>t DEF RevertClaim, SchedulerState
      <3> QED BY <1>4, <3>1, <3>2, <3>3, <3>4, <3>5
    <2> QED BY <2>1, <2>2, <2>3, <2>4, BooksSame
  <1>5. ASSUME NEW s \in Schedulers, PostingThrows(s) \/ SchedulerCrashes(s)
        PROVE  BooksInv'
    BY <1>5, <1>t DEF PostingThrows, SchedulerCrashes, BooksInv
  <1>6. CASE \/ \E c \in Consumers :
                   (\E m \in Messages : Deliver(c, m)) \/ Consume(c) \/ ConsumerFails(c)
             \/ \E v \in Reviewers : Review(v) \/ Commit(v) \/ ReviewFails(v)
             \/ \E m \in Messages : Republish(m)
             \/ UNCHANGED vars
    <2>1. UNCHANGED <<sched, entry, granted>>
      BY <1>6 DEF Consume, Deliver, FindReward, CreateReward, FinishMessage, NoLink,
         FindLink, CancelForEvent, ReadPosted, PostReversal, DeductReward, ConsumerFails,
         Review, Commit, OpenCase, AllowCase, RejectCase, EscalateCase, ResolveCase,
         ReadPending, ReadHolds, CommitOpen, CommitAllow, CommitReject, CommitEscalate,
         ReviewFails, Republish, vars, bookVars
    <2>2. ASSUME NEW r \in Rewards
          PROVE  status'[r] = "posted" <=> status[r] = "posted"
      <3>1. CASE \E c \in Consumers : CreateReward(c)
        BY <3>1, <1>t DEF CreateReward
      <3>2. CASE \E c \in Consumers : CancelForEvent(c)
        BY <3>2, <1>t DEF CancelForEvent
      <3>3. CASE \E v \in Reviewers : CommitReject(v)
        BY <3>3, <1>t DEF CommitReject
      <3>4. CASE status' = status
        BY <3>4
      <3>5. status' = status \/ (\E c \in Consumers : CreateReward(c) \/ CancelForEvent(c))
               \/ (\E v \in Reviewers : CommitReject(v))
        BY <1>6 DEF Consume, Deliver, FindReward, FinishMessage, NoLink, FindLink,
           ReadPosted, PostReversal, DeductReward, ConsumerFails, Review, Commit,
           OpenCase, AllowCase, RejectCase, EscalateCase, ResolveCase, ReadPending,
           ReadHolds, CommitOpen, CommitAllow, CommitEscalate, ReviewFails, Republish, vars
      <3> QED BY <3>1, <3>2, <3>3, <3>4, <3>5
    <2> QED BY <2>1, <2>2, FaultsStay, BooksSame
  <1> QED BY <1>1, <1>2, <1>3, <1>4, <1>5, <1>6 DEF Next, PostDueRewards

\* Without a fault, whenever the worker is at rest, the rows, the ledger and the
\* wallet tell one story, for any number of loops, handlers, fraud requests and
\* repeated messages.
THEOREM BooksAgree ==
    ASSUME IsFiniteSet(Consumers), IsFiniteSet(Compensations)
    PROVE  Spec => []WalletFollowsLedger
  <1>1. Init => BooksInv
    BY DEF Init, BooksInv, Agrees, IdleScheduler
  <1>2. RewardInv /\ BooksInv /\ [Next]_vars => BooksInv'
    BY BooksStep
  <1>3. RewardInv /\ DeductInv /\ [Next]_vars => DeductInv'
    BY DeductStep
  <1>4. RewardInv /\ BooksInv /\ DeductInv => WalletFollowsLedger
    <2> SUFFICES ASSUME RewardInv, BooksInv, DeductInv, Quiet, faults = 0,
                        NEW r \in Rewards
                 PROVE  /\ granted[r] = 1 <=> r \in entry
                        /\ r \in entry <=> status[r] = "posted"
                        /\ deducted[r] = Cardinality(Reversed(r))
      BY DEF WalletFollowsLedger, Reversed
    <2>1. ~Granting(r)
      BY DEF Quiet, Granting
    <2>2. Agrees(r)
      BY DEF BooksInv
    <2>3. granted[r] = 1 <=> r \in entry
      BY <2>1, <2>2 DEF Agrees, RewardInv, GrantedAtMostOnce
    <2>4. r \in entry <=> status[r] = "posted"
      BY <2>1, <2>2 DEF Agrees
    <2>5. Deducting(r) = {}
      BY DEF Quiet, Deducting
    <2>6. deducted[r] + 0 = Cardinality(Reversed(r))
      BY <2>5, FS_EmptySet DEF DeductInv, Owed
    <2>7. deducted[r] \in Nat
      BY DEF RewardInv, TypeOK
    <2> QED BY <2>3, <2>4, <2>6, <2>7
  <1> QED BY <1>1, <1>2, <1>3, <1>4, DeductInit, RewardAlways, PTL DEF Spec
=============================================================================
