------------------------ MODULE WalletCreditsProofs ------------------------
(***************************************************************************)
(* What holds of WalletCredits for every number of grants, holds and       *)
(* handler slots.                                                          *)
(***************************************************************************)
EXTENDS WalletHistory, FiniteSums

\* The payout handlers past their read of the request hold a payout.
PayoutLocals ==
    \A w \in Handlers :
        at[w].pc \in {"lookup", "entry", "sent"} => at[w].hold \in Payouts

TypeInv == TypeOK /\ PayoutLocals

LEMMA ConstantTypes ==
    /\ Redemptions \subseteq Holds
    /\ Payouts \subseteq Holds
    /\ Grants \subseteq Nat
    /\ Nothing \in [Grants -> Nat]
    /\ Idle \in HandlerState
    /\ Amounts \subseteq Nat
    /\ Deltas \subseteq Int
  BY WalletAssumption
     DEF Holds, Grants, Nothing, Idle, HandlerState, Labels, Jobs

LEMMA TypeInit == Init => TypeInv
  BY WalletAssumption, ConstantTypes
     DEF Init, TypeInv, TypeOK, PayoutLocals, RowStatus, PayoutStatus,
         SessionStatus, Idle, Nothing

\* A step that starts a request in an idle slot keeps the slots well typed.
LEMMA StartType ==
    ASSUME TypeInv, NEW w \in Handlers, NEW pc \in Labels, NEW job \in Jobs,
           NEW h \in Holds, NEW amount \in Nat, NEW todo \in [Grants -> Nat],
           Start(w, pc, job, h, amount, todo),
           pc \in {"lookup", "entry", "sent"} => h \in Payouts
    PROVE  at' \in [Handlers -> HandlerState] /\ PayoutLocals'
  BY DEF TypeInv, TypeOK, PayoutLocals, Start, HandlerState

LEMMA ReturnType ==
    ASSUME TypeInv, NEW w \in Handlers, Return(w)
    PROVE  at' \in [Handlers -> HandlerState] /\ PayoutLocals'
  BY ConstantTypes DEF TypeInv, TypeOK, PayoutLocals, Return, Idle

LEMMA GotoType ==
    ASSUME TypeInv, NEW w \in Handlers, NEW pc \in Labels, Goto(w, pc),
           pc \in {"lookup", "entry", "sent"} => at[w].hold \in Payouts
    PROVE  at' \in [Handlers -> HandlerState] /\ PayoutLocals'
  BY DEF TypeInv, TypeOK, PayoutLocals, Goto, HandlerState

LEMMA ReservingType ==
    ASSUME TypeInv, NEW w \in Reservers, Reserving(w)
    PROVE  TypeInv'
  <1> w \in Handlers BY DEF Handlers
  <1>1. CASE PrepareCheckout(w)
    <2> PICK h \in Redemptions, want \in Amounts : \E applied \in 1..want :
            Start(w, "list", "checkout", h, applied, Nothing)
      BY <1>1 DEF PrepareCheckout
    <2> PICK applied \in 1..want :
            Start(w, "list", "checkout", h, applied, Nothing)
      OBVIOUS
    <2> /\ h \in Holds
        /\ applied \in Nat
      BY ConstantTypes
    <2>1. at' \in [Handlers -> HandlerState] /\ PayoutLocals'
      BY StartType, ConstantTypes DEF Labels, Jobs
    <2> QED
      BY <1>1, <2>1 DEF PrepareCheckout, TypeInv, TypeOK,
         grantVars, holdVars, payoutVars
  <1>2. CASE RequestPayout(w)
    <2> PICK p \in Payouts, amount \in Amounts :
            /\ payout' = [payout EXCEPT ![p] = "requested"]
            /\ Start(w, "list", "payout", p, amount, Nothing)
      BY <1>2 DEF RequestPayout
    <2> p \in Holds /\ amount \in Nat
      BY ConstantTypes
    <2>1. at' \in [Handlers -> HandlerState] /\ PayoutLocals'
      BY StartType, ConstantTypes DEF Labels, Jobs
    <2>2. payout' \in [Payouts -> PayoutStatus]
      BY DEF TypeInv, TypeOK, PayoutStatus
    <2> QED
      BY <1>2, <2>1, <2>2 DEF RequestPayout, TypeInv, TypeOK,
         grantVars, holdVars
  <1> QED BY <1>1, <1>2 DEF Reserving

LEMMA FinishingType ==
    ASSUME TypeInv, NEW w \in Finishers, Finishing(w)
    PROVE  TypeInv'
  <1> w \in Handlers BY DEF Handlers
  <1> USE ConstantTypes
  <1>u. (/\ at' \in [Handlers -> HandlerState] /\ PayoutLocals'
         /\ UNCHANGED <<grantVars, holdVars, payoutVars, session, deaths>>)
        => TypeInv'
    BY DEF TypeInv, TypeOK, PayoutLocals, grantVars, holdVars, payoutVars
  <1>1. ASSUME NEW h \in Redemptions, MarkPosted(w, h)
        PROVE  TypeInv'
    BY <1>1, <1>u, StartType DEF MarkPosted, Labels, Jobs
  <1>2. ASSUME NEW h \in Redemptions, ReleaseRedemption(w, h)
        PROVE  TypeInv'
    <2>1. alloc[h] \in [Grants -> Nat]
      BY DEF TypeInv, TypeOK
    <2> QED BY <1>2, <1>u, <2>1, StartType DEF ReleaseRedemption, Labels, Jobs
  <1>3. ASSUME NEW p \in Payouts, NEW allowed, NEW pc \in Labels, NEW job \in Jobs,
               ReadPayout(w, p, allowed, pc, job)
        PROVE  TypeInv'
    BY <1>3, <1>u, StartType DEF ReadPayout
  <1>4. ASSUME NEW p \in Payouts,
               \/ ApprovePayout(w, p) \/ MarkSent(w, p)
               \/ FailPayout(w, p) \/ CancelPayout(w, p)
        PROVE  TypeInv'
    BY <1>3, <1>4 DEF ApprovePayout, MarkSent, FailPayout, CancelPayout,
                     Labels, Jobs
  <1> QED
    BY <1>1, <1>2, <1>4 DEF Finishing, ExpiredWebhook, ReleaseCheckoutReservation

LEMMA AdvanceType ==
    ASSUME TypeInv, NEW w \in Handlers, Advance(w)
    PROVE  TypeInv'
  <1> USE ConstantTypes
  <1>h. at[w] \in HandlerState
    BY DEF TypeInv, TypeOK
  <1>1. CASE Reserve(w)
    <2> PICK plan \in [Grants -> 0..at[w].amount] :
            at' = [at EXCEPT ![w].pc = "allocate", ![w].todo = plan]
      BY <1>1 DEF Reserve
    <2>1. plan \in [Grants -> Nat]
      BY <1>h DEF HandlerState
    <2>2. at' \in [Handlers -> HandlerState] /\ PayoutLocals'
      BY <2>1, <1>h DEF TypeInv, TypeOK, PayoutLocals, HandlerState, Labels
    <2>3. row' \in [Holds -> RowStatus]
      BY <1>1 DEF Reserve, TypeInv, TypeOK, RowStatus
    <2> QED BY <1>1, <2>2, <2>3
            DEF Reserve, TypeInv, TypeOK, grantVars, payoutVars
  <1>2. CASE InsufficientGrants(w) \/ SessionRejected(w) \/ ReservationMissing(w)
    <2>1. at' \in [Handlers -> HandlerState] /\ PayoutLocals'
      BY <1>2, ReturnType
         DEF InsufficientGrants, SessionRejected, ReservationMissing
    <2> QED BY <1>2, <2>1
            DEF InsufficientGrants, SessionRejected, ReservationMissing,
                TypeInv, TypeOK, grantVars, holdVars, payoutVars
  <1>3. CASE CreateAllocation(w)
    <2> PICK g \in Grants :
            /\ alloc' = [alloc EXCEPT ![at[w].hold][g] = at[w].todo[g]]
            /\ Goto(w, "drain")
      BY <1>3 DEF CreateAllocation
    <2>1. at' \in [Handlers -> HandlerState] /\ PayoutLocals'
      BY GotoType DEF Labels
    <2>2. alloc' \in [Holds -> [Grants -> Nat]]
      BY <1>h DEF TypeInv, TypeOK, HandlerState
    <2> QED BY <1>3, <2>1, <2>2
            DEF CreateAllocation, TypeInv, TypeOK, grantVars, payoutVars
  <1>4. CASE DrainGrant(w)
    <2> PICK g \in Grants :
            /\ remaining' = [remaining EXCEPT ![g] = @ - at[w].todo[g]]
            /\ \/ Return(w)
               \/ \E pc \in {"session", "allocate"} :
                      at' = [at EXCEPT ![w].pc = pc, ![w].todo[g] = 0]
      BY <1>4 DEF DrainGrant
    <2>1. remaining' \in [Grants -> Int]
      BY <1>h DEF TypeInv, TypeOK, HandlerState
    <2>2. ASSUME NEW pc \in {"session", "allocate"},
                 at' = [at EXCEPT ![w].pc = pc, ![w].todo[g] = 0]
          PROVE  at' \in [Handlers -> HandlerState] /\ PayoutLocals'
      BY <2>2, <1>h DEF TypeInv, TypeOK, PayoutLocals, HandlerState, Labels
    <2>3. at' \in [Handlers -> HandlerState] /\ PayoutLocals'
      BY <2>2, ReturnType
    <2> QED BY <1>4, <2>1, <2>3
            DEF DrainGrant, TypeInv, TypeOK, holdVars, payoutVars
  <1>5. CASE OpenSession(w)
    <2>1. at' \in [Handlers -> HandlerState] /\ PayoutLocals'
      BY <1>5, ReturnType DEF OpenSession
    <2> QED BY <1>5, <2>1 DEF OpenSession, TypeInv, TypeOK, SessionStatus,
               grantVars, holdVars, payoutVars
  <1>6. CASE FinishPost(w)
    <2>1. at' \in [Handlers -> HandlerState] /\ PayoutLocals'
      BY <1>6, ReturnType DEF FinishPost
    <2> QED BY <1>6, <2>1 DEF FinishPost, TypeInv, TypeOK, RowStatus,
               grantVars, payoutVars
  <1>7. CASE RestoreGrant(w)
    <2> PICK g \in Grants :
            /\ remaining' = [remaining EXCEPT ![g] = @ + at[w].todo[g]]
            /\ at' = [at EXCEPT ![w].todo[g] = 0]
      BY <1>7 DEF RestoreGrant
    <2>1. remaining' \in [Grants -> Int]
      BY <1>h DEF TypeInv, TypeOK, HandlerState
    <2>2. at' \in [Handlers -> HandlerState] /\ PayoutLocals'
      BY <1>h DEF TypeInv, TypeOK, PayoutLocals, HandlerState
    <2> QED BY <1>7, <2>1, <2>2
            DEF RestoreGrant, TypeInv, TypeOK, holdVars, payoutVars
  <1>8. CASE FinishRelease(w)
    <2>1. at' \in [Handlers -> HandlerState] /\ PayoutLocals'
      BY <1>8, ReturnType, GotoType DEF FinishRelease, Labels
    <2> QED BY <1>8, <2>1 DEF FinishRelease, TypeInv, TypeOK, RowStatus,
               grantVars, payoutVars
  <1>9. CASE FinishApprove(w) \/ ClosePayout(w) \/ FinishSend(w)
    <2>1. at' \in [Handlers -> HandlerState] /\ PayoutLocals'
      BY <1>9, ReturnType DEF FinishApprove, ClosePayout, FinishSend, WritePayout
    <2>2. payout' \in [Payouts -> PayoutStatus]
      BY <1>9 DEF FinishApprove, ClosePayout, FinishSend, WritePayout,
         TypeInv, TypeOK, PayoutStatus
    <2> QED BY <1>9, <2>1, <2>2
            DEF FinishApprove, ClosePayout, FinishSend, WritePayout,
                TypeInv, TypeOK, grantVars, holdVars
  <1>10. CASE ReleaseReservation(w)
    <2>1. alloc[at[w].hold] \in [Grants -> Nat]
      BY <1>10 DEF ReleaseReservation, TypeInv, TypeOK, PayoutLocals
    <2>2. at' \in [Handlers -> HandlerState] /\ PayoutLocals'
      BY <1>10, <2>1, <1>h DEF ReleaseReservation, TypeInv, TypeOK, PayoutLocals,
         HandlerState, Labels
    <2> QED BY <1>10, <2>2 DEF ReleaseReservation, TypeInv, TypeOK,
               grantVars, holdVars, payoutVars
  <1>11. CASE SendReservation(w)
    <2>1. at' \in [Handlers -> HandlerState] /\ PayoutLocals'
      BY <1>11, GotoType DEF SendReservation, TypeInv, PayoutLocals, Labels
    <2> QED BY <1>11, <2>1 DEF SendReservation, TypeInv, TypeOK, RowStatus,
               grantVars, payoutVars
  <1>12. CASE PostSentEntry(w)
    <2>1. at[w].hold \in Payouts
      BY <1>12 DEF PostSentEntry, TypeInv, PayoutLocals
    <2>2. at' \in [Handlers -> HandlerState] /\ PayoutLocals'
      BY <1>12, <2>1, GotoType DEF PostSentEntry, Labels
    <2> QED BY <1>12, <2>1, <2>2 DEF PostSentEntry, TypeInv, TypeOK,
               grantVars, holdVars
  <1> QED
    BY <1>1, <1>2, <1>3, <1>4, <1>5, <1>6, <1>7, <1>8, <1>9, <1>10, <1>11, <1>12
       DEF Advance

LEMMA TypeStep == TypeInv /\ [Next]_vars => TypeInv'
  <1> SUFFICES ASSUME TypeInv, [Next]_vars PROVE TypeInv'
    OBVIOUS
  <1> USE ConstantTypes
  <1>1. CASE RecordDelta
    BY <1>1, WalletAssumption DEF RecordDelta, TypeInv, TypeOK, PayoutLocals,
       Grants, holdVars, payoutVars
  <1>2. ASSUME NEW h \in Redemptions, CompleteSession(h) \/ ExpireSession(h)
        PROVE  TypeInv'
    BY <1>2 DEF CompleteSession, ExpireSession, SettleSession, TypeInv, TypeOK,
       PayoutLocals, SessionStatus, grantVars, holdVars, payoutVars
  <1>3. ASSUME NEW w \in Handlers, Die(w)
        PROVE  TypeInv'
    <2>1. at' \in [Handlers -> HandlerState] /\ PayoutLocals'
      BY <1>3, ReturnType DEF Die
    <2>2. deaths' \in 0..MaxDeaths
      BY <1>3, WalletAssumption DEF Die, TypeInv, TypeOK
    <2> QED BY <1>3, <2>1, <2>2 DEF Die, TypeInv, TypeOK,
               grantVars, holdVars, payoutVars
  <1>4. CASE UNCHANGED vars
    BY <1>4 DEF vars, TypeInv, TypeOK, PayoutLocals, grantVars, holdVars, payoutVars
  <1> QED
    BY <1>1, <1>2, <1>3, <1>4, ReservingType, FinishingType, AdvanceType DEF Next

\* Every variable keeps its type through every interleaving and every death.
THEOREM TypeCorrect == Spec => []TypeOK
  <1>1. Spec => []TypeInv
    BY TypeInit, TypeStep, PTL DEF Spec
  <1> QED
    BY <1>1, PTL DEF TypeInv

-----------------------------------------------------------------------------
(* The ledger and the payouts.                                             *)

\* SentIsInLedger is not inductive: a handler about to write "sent" must have
\* posted the entry, and one about to post it must have seen an approved
\* payout, which no other handler can turn back into a requested one.
LedgerInv ==
    /\ SentIsInLedger
    /\ \A w \in Handlers :
          /\ at[w].pc = "sent" => at[w].hold \in ledger
          /\ \/ at[w].pc \in {"entry", "sent"}
             \/ at[w].pc = "lookup" /\ at[w].job = "send"
             => payout[at[w].hold] \notin {"absent", "requested"}

LEMMA LedgerStep == TypeInv /\ LedgerInv /\ [Next]_vars => LedgerInv'
  <1> SUFFICES ASSUME TypeInv, LedgerInv, [Next]_vars PROVE LedgerInv'
    OBVIOUS
  <1> USE ConstantTypes
  <1>t. /\ at \in [Handlers -> HandlerState]
        /\ payout \in [Payouts -> PayoutStatus]
        /\ PayoutLocals
    BY DEF TypeInv, TypeOK
  \* A step that leaves the payouts alone and puts no slot on the way to "sent".
  <1>u. ASSUME NEW w \in Handlers, UNCHANGED payoutVars,
               \A v \in Handlers \ {w} : at'[v] = at[v],
               at'[w].pc \notin {"entry", "sent"},
               at'[w].pc = "lookup" /\ at'[w].job = "send"
                 => payout[at'[w].hold] \notin {"absent", "requested"}
        PROVE  LedgerInv'
    BY <1>u, <1>t DEF LedgerInv, SentIsInLedger, PayoutLocals, payoutVars
  \* A status other than "requested" written over one other than "absent".
  <1>w. ASSUME NEW w \in Handlers, NEW p, NEW status,
               status \notin {"absent", "requested"},
               status = "sent" => p \in ledger,
               payout' = [payout EXCEPT ![p] = status],
               UNCHANGED ledger, Return(w)
        PROVE  LedgerInv'
    BY <1>w, <1>t DEF LedgerInv, SentIsInLedger, PayoutLocals, Return, Idle
  <1>1. CASE RecordDelta \/ UNCHANGED vars
    BY <1>1, <1>t DEF RecordDelta, vars, LedgerInv, SentIsInLedger, payoutVars
  <1>2. ASSUME NEW h \in Redemptions, CompleteSession(h) \/ ExpireSession(h)
        PROVE  LedgerInv'
    BY <1>2 DEF CompleteSession, ExpireSession, SettleSession,
       LedgerInv, SentIsInLedger, payoutVars
  <1>3. ASSUME NEW w \in Handlers, Die(w)
        PROVE  LedgerInv'
    BY <1>3, <1>t, <1>u DEF Die, Return, Idle
  <1>4. ASSUME NEW w \in Reservers, Reserving(w)
        PROVE  LedgerInv'
    <2> w \in Handlers BY DEF Handlers
    <2>1. CASE PrepareCheckout(w)
      BY <2>1, <1>t, <1>u DEF PrepareCheckout, Start
    <2>2. CASE RequestPayout(w)
      <3> PICK p \in Payouts, amount \in Amounts :
            /\ payout[p] = "absent"
            /\ payout' = [payout EXCEPT ![p] = "requested"]
            /\ UNCHANGED ledger
            /\ Start(w, "list", "payout", p, amount, Nothing)
        BY <2>2 DEF RequestPayout
      <3>1. p \notin ledger
        BY DEF LedgerInv, SentIsInLedger
      <3>2. SentIsInLedger'
        BY <1>t, <3>1 DEF LedgerInv, SentIsInLedger
      <3> QED
        BY <1>t, <3>2 DEF LedgerInv, PayoutLocals, Start
    <2> QED BY <1>4, <2>1, <2>2 DEF Reserving
  <1>5. ASSUME NEW w \in Finishers, Finishing(w)
        PROVE  LedgerInv'
    <2> w \in Handlers BY DEF Handlers
    <2>1. ASSUME NEW h \in Redemptions,
                 MarkPosted(w, h) \/ ReleaseRedemption(w, h)
          PROVE  LedgerInv'
      BY <2>1, <1>t, <1>u DEF MarkPosted, ReleaseRedemption, Start
    <2>2. ASSUME NEW p \in Payouts,
                 \/ ApprovePayout(w, p) \/ MarkSent(w, p)
                 \/ FailPayout(w, p) \/ CancelPayout(w, p)
          PROVE  LedgerInv'
      BY <2>2, <1>t, <1>u
         DEF ApprovePayout, MarkSent, FailPayout, CancelPayout, ReadPayout, Start
    <2> QED
      BY <1>5, <2>1, <2>2 DEF Finishing, ExpiredWebhook, ReleaseCheckoutReservation
  <1>6. ASSUME NEW w \in Handlers, Advance(w)
        PROVE  LedgerInv'
    <2>r. ASSUME UNCHANGED payoutVars, Return(w)
          PROVE  LedgerInv'
      BY <2>r, <1>t, <1>u DEF Return, Idle
    <2>1. CASE InsufficientGrants(w) \/ OpenSession(w) \/ SessionRejected(w)
      BY <2>1, <2>r DEF InsufficientGrants, OpenSession, SessionRejected
    <2>2. CASE FinishPost(w) \/ ReservationMissing(w)
      BY <2>2, <2>r DEF FinishPost, ReservationMissing
    <2>g. ASSUME NEW pc \in Labels \ {"entry", "sent", "lookup"},
                 UNCHANGED payoutVars,
                 \A v \in Handlers \ {w} : at'[v] = at[v],
                 at'[w].pc = pc
          PROVE  LedgerInv'
      BY <2>g, <1>u
    <2>3. CASE FinishApprove(w)
      BY <2>3, <1>w DEF FinishApprove, WritePayout
    <2>6. CASE ClosePayout(w)
      BY <2>6, <1>w DEF ClosePayout, WritePayout
    <2>7. CASE FinishSend(w)
      <3>1. at[w].hold \in ledger
        BY <2>7 DEF FinishSend, WritePayout, LedgerInv
      <3> QED BY <2>7, <3>1, <1>w DEF FinishSend, WritePayout
    <2>8. CASE Reserve(w)
      BY <2>8, <1>t, <2>g DEF Reserve, Labels
    <2>9. CASE CreateAllocation(w)
      BY <2>9, <1>t, <2>g DEF CreateAllocation, Goto, Labels
    <2>10. CASE DrainGrant(w)
      <3>1. CASE Return(w)
        BY <2>10, <3>1, <2>r DEF DrainGrant
      <3>2. CASE ~Return(w)
        <4> PICK g \in Grants, pc \in {"session", "allocate"} :
                at' = [at EXCEPT ![w].pc = pc, ![w].todo[g] = 0]
          BY <2>10, <3>2 DEF DrainGrant
        <4> QED BY <2>10, <1>t, <2>g DEF DrainGrant, Labels
      <3> QED BY <3>1, <3>2
    <2>11. CASE RestoreGrant(w)
      <3> PICK g \in Grants : at' = [at EXCEPT ![w].todo[g] = 0]
        BY <2>11 DEF RestoreGrant
      <3>1. at'[w].pc = "restore"
        BY <2>11, <1>t DEF RestoreGrant, HandlerState
      <3> QED BY <2>11, <3>1, <1>t, <2>g DEF RestoreGrant, Labels
    <2>12. CASE FinishRelease(w)
      <3>1. CASE Return(w)
        BY <2>12, <3>1, <2>r DEF FinishRelease
      <3>2. CASE Goto(w, "close")
        BY <2>12, <3>2, <1>t, <2>g DEF FinishRelease, Goto, Labels
      <3> QED BY <2>12, <3>1, <3>2 DEF FinishRelease
    <2>13. CASE ReleaseReservation(w)
      BY <2>13, <1>t, <2>g DEF ReleaseReservation, Labels
    <2>4. CASE SendReservation(w)
      BY <2>4, <1>t DEF SendReservation, Goto, LedgerInv, SentIsInLedger, payoutVars
    <2>5. CASE PostSentEntry(w)
      BY <2>5, <1>t DEF PostSentEntry, Goto, LedgerInv, SentIsInLedger, PayoutLocals
    <2> QED
      BY <1>6, <2>1, <2>2, <2>3, <2>4, <2>5, <2>6, <2>7, <2>8, <2>9, <2>10,
         <2>11, <2>12, <2>13 DEF Advance
  <1> QED
    BY <1>1, <1>2, <1>3, <1>4, <1>5, <1>6 DEF Next

\* A payout shown as sent is in the ledger and was approved, whatever the
\* admin handlers interleave and wherever they die.
THEOREM LedgerSound == Spec => []SentIsInLedger
  <1>1. Init => LedgerInv
    BY DEF Init, LedgerInv, SentIsInLedger, Idle
  <1>2. Spec => [](TypeInv /\ LedgerInv)
    BY <1>1, TypeInit, TypeStep, LedgerStep, PTL DEF Spec
  <1> QED
    BY <1>2, PTL DEF LedgerInv

-----------------------------------------------------------------------------
(* What a step of a slot does to the rows, whatever the other slots do.    *)

\* g is the oldest grant a plan takes from.
Oldest(todo, g) == \A older \in Grants : older < g => todo[older] = 0

\* Slot w goes on to s, at work on h before or after, and touches no other hold.
Moves(w, s, h) ==
    /\ at' = [at EXCEPT ![w] = s]
    /\ Busy(w) => at[w].hold = h
    /\ s.pc # "idle" => s.hold = h
    /\ Busy(w) \/ s.pc # "idle"
    /\ \A x \in Holds \ {h} : row'[x] = row[x] /\ alloc'[x] = alloc[x]
    /\ \A p \in Payouts \ {h} :
          payout'[p] = payout[p] /\ (p \in ledger' <=> p \in ledger)

\* It takes nothing from the grants and plans nothing.
Keeps(w, s, h) ==
    /\ UNCHANGED <<grantVars, alloc>>
    /\ s.pc \notin {"allocate", "drain"}
    /\ s.todo \in {Nothing, at[w].todo, alloc[h]}
    /\ s.pc = "restore" => s.todo = alloc[h]
    /\ s.pc = "post" => h \in Redemptions
    /\ \/ row'[h] = row[h]
       \/ at[w].pc = "post" /\ row'[h] = "posted"
       \/ at[w].pc = "lookup" /\ row'[h] = "sent"
       \/ at[w].pc = "restore" /\ row'[h] = "released"

\* It plans to take from grants what they have.
Plans(w, s, h) ==
    /\ UNCHANGED <<grantVars, alloc>>
    /\ at[w].pc = "list" /\ s.pc = "allocate" /\ row'[h] = "reserved"
    /\ s.todo \in [Grants -> Nat]
    /\ \A g \in Grants : s.todo[g] > 0 => s.todo[g] <= remaining[g]
    /\ \A g \in Grants : remaining[g] = 0 => s.todo[g] = 0

AtGrant(w, k) == k \in Grants /\ at[w].todo[k] > 0 /\ Oldest(at[w].todo, k)

\* It creates the allocation row of grant k.
Allocates(w, s, h, k) ==
    /\ UNCHANGED <<grantVars, row>>
    /\ at[w].pc = "allocate" /\ AtGrant(w, k) /\ s.pc = "drain" /\ s.todo = at[w].todo
    /\ alloc'[h][k] = at[w].todo[k]
    /\ \A g \in Grants \ {k} : alloc'[h][g] = alloc[h][g]

\* It is done with grant k of its plan.
TicksOff(w, s, k) ==
    /\ at[w].todo \in [Grants -> Nat] /\ at[w].todo[k] > 0
    /\ s.todo[k] = 0 /\ \A g \in Grants \ {k} : s.todo[g] = at[w].todo[g]

\* It drains grant k.
Drains(w, s, h, k) ==
    /\ UNCHANGED <<count, issued, alloc, row>>
    /\ at[w].pc = "drain" /\ AtGrant(w, k) /\ s.pc \in {"idle", "session", "allocate"}
    /\ TicksOff(w, s, k)
    /\ remaining'[k] = remaining[k] - at[w].todo[k]
    /\ \A g \in Grants \ {k} : remaining'[g] = remaining[g]

\* It restores grant k.
Restores(w, s, h, k) ==
    /\ UNCHANGED <<count, issued, alloc, row>>
    /\ at[w].pc = "restore" /\ s.pc = "restore"
    /\ TicksOff(w, s, k)
    /\ remaining'[k] = remaining[k] + at[w].todo[k]
    /\ \A g \in Grants \ {k} : remaining'[g] = remaining[g]

Effect(w, s, h) ==
    /\ s # at[w] /\ Moves(w, s, h)
    /\ \/ Keeps(w, s, h) \/ Plans(w, s, h)
       \/ \E k \in Grants :
             Allocates(w, s, h, k) \/ Drains(w, s, h, k) \/ Restores(w, s, h, k)

\* What holds of the rows in every state.  A grant not yet issued has nothing
\* anyone could drain or restore; a slot drains and restores only what has an
\* allocation row; checkouts are posted and payouts are sent.
Unissued ==
    \A g \in Grants : g > count =>
        /\ issued[g] = 0 /\ remaining[g] = 0
        /\ \A h \in Holds : alloc[h][g] = 0
        /\ \A w \in Handlers : at[w].todo[g] = 0

Takes(w, g) ==
    /\ at[w].todo[g] > 0
    /\ \/ at[w].pc = "restore"
       \/ at[w].pc = "drain" /\ Oldest(at[w].todo, g)

Kinds ==
    /\ \A w \in Handlers : at[w].pc = "post" => at[w].hold \in Redemptions
    /\ \A h \in Redemptions : row[h] # "sent"
    /\ \A p \in Payouts : row[p] # "posted"

RowsInv ==
    /\ Unissued
    /\ \A w \in Handlers : Busy(w) => at[w].hold \in Holds
    /\ \A w \in Handlers, g \in Grants : Takes(w, g) => alloc[at[w].hold][g] > 0
    /\ Kinds

\* A plan of allocateFifo takes from no grant more than it has.
LEMMA PlanFits ==
    ASSUME TypeInv, NEW amount \in Nat, NEW plan \in [Grants -> 0..amount],
           AllocateFifo(plan, amount)
    PROVE  /\ plan \in [Grants -> Nat]
           /\ \A g \in Grants : plan[g] > 0 => plan[g] <= remaining[g]
           /\ \A g \in Grants : remaining[g] = 0 => plan[g] = 0
  BY DEF AllocateFifo, Available, TypeInv, TypeOK

\* A request that starts plans, takes and writes nothing.
LEMMA StartEffect ==
    ASSUME TypeInv, NEW w \in Handlers, NEW h \in Holds,
           NEW pc \in Labels \ {"idle", "allocate", "drain"}, NEW job, NEW amount,
           NEW todo \in {Nothing, alloc[h]}, Start(w, pc, job, h, amount, todo),
           pc = "restore" => todo = alloc[h], pc = "post" => h \in Redemptions,
           UNCHANGED <<grantVars, holdVars, ledger>>,
           \A p \in Payouts \ {h} : payout'[p] = payout[p]
    PROVE  \E s : Effect(w, s, h)
  <1> PICK s : s = [pc |-> pc, job |-> job, hold |-> h, amount |-> amount, todo |-> todo]
    OBVIOUS
  <1>1. s.pc = pc /\ s.hold = h /\ s.todo = todo
    OBVIOUS
  <1>2. at' = [at EXCEPT ![w] = s] /\ at[w].pc = "idle" /\ s # at[w]
    BY <1>1 DEF Start
  <1>3. Moves(w, s, h)
    BY <1>1, <1>2 DEF Moves, Busy, holdVars
  <1>4. Keeps(w, s, h)
    BY <1>1, <1>2 DEF Keeps, holdVars
  <1> QED BY <1>2, <1>3, <1>4 DEF Effect

LEMMA StartsEffect ==
    ASSUME TypeInv, NEW w \in Handlers, Reserving(w) \/ Finishing(w)
    PROVE  \E h \in Holds : \E s : Effect(w, s, h)
  <1> USE ConstantTypes
  <1>l. {"list", "post", "restore", "approve", "lookup"} \subseteq Labels \ {"idle", "allocate", "drain"}
    BY DEF Labels
  <1>1. CASE PrepareCheckout(w)
    <2> PICK h \in Redemptions, want \in Amounts : \E applied \in 1..want :
            /\ Start(w, "list", "checkout", h, applied, Nothing)
            /\ UNCHANGED <<grantVars, holdVars, payoutVars>>
      BY <1>1 DEF PrepareCheckout
    <2> PICK applied :
            /\ Start(w, "list", "checkout", h, applied, Nothing)
            /\ UNCHANGED <<grantVars, holdVars, payoutVars>>
      OBVIOUS
    <2> QED BY <1>l, StartEffect DEF payoutVars
  <1>2. CASE RequestPayout(w)
    <2> PICK p \in Payouts, amount \in Amounts :
            /\ payout' = [payout EXCEPT ![p] = "requested"]
            /\ Start(w, "list", "payout", p, amount, Nothing)
            /\ UNCHANGED <<grantVars, holdVars, ledger>>
      BY <1>2 DEF RequestPayout
    <2>1. \A q \in Payouts \ {p} : payout'[q] = payout[q]
      BY DEF TypeInv, TypeOK
    <2> QED BY <1>l, <2>1, StartEffect
  <1>3. ASSUME NEW h \in Redemptions, MarkPosted(w, h) \/ ReleaseRedemption(w, h)
        PROVE  \E s : Effect(w, s, h)
    BY <1>3, <1>l, StartEffect DEF MarkPosted, ReleaseRedemption, payoutVars
  <1>4. ASSUME NEW p \in Payouts, NEW allowed, NEW pc \in {"approve", "lookup"}, NEW job,
               ReadPayout(w, p, allowed, pc, job)
        PROVE  \E s : Effect(w, s, p)
    BY <1>4, <1>l, StartEffect DEF ReadPayout, payoutVars
  <1>5. ASSUME NEW p \in Payouts,
               \/ ApprovePayout(w, p) \/ MarkSent(w, p)
               \/ FailPayout(w, p) \/ CancelPayout(w, p)
        PROVE  \E s : Effect(w, s, p)
    BY <1>4, <1>5 DEF ApprovePayout, MarkSent, FailPayout, CancelPayout
  <1> QED
    BY <1>1, <1>2, <1>3, <1>5 DEF Reserving, Finishing, ExpiredWebhook,
       ReleaseCheckoutReservation

LEMMA AdvanceEffect ==
    ASSUME TypeInv, RowsInv, NEW w \in Handlers, Advance(w) \/ Die(w)
    PROVE  \E h \in Holds : \E s : Effect(w, s, h)
  <1> PICK t : t = at[w]
    OBVIOUS
  <1> PICK h : h = t.hold
    OBVIOUS
  <1>t. /\ t \in HandlerState /\ at \in [Handlers -> HandlerState]
        /\ row \in [Holds -> RowStatus] /\ alloc \in [Holds -> [Grants -> Nat]]
        /\ remaining \in [Grants -> Int] /\ payout \in [Payouts -> PayoutStatus]
        /\ t.todo \in [Grants -> Nat]
    BY DEF TypeInv, TypeOK, HandlerState
  <1>b. t.pc # "idle" => Busy(w) /\ h \in Holds
    BY DEF RowsInv, Busy
  <1>p. t.pc = "lookup" => h \in Payouts
    BY DEF TypeInv, PayoutLocals
  \* A slot that was busy goes on to s without a plan.
  <1>k. ASSUME NEW s, t.pc # "idle", s.pc # t.pc, at' = [at EXCEPT ![w] = s],
               s.pc # "idle" => s.hold = h, UNCHANGED <<grantVars, alloc>>,
               \A x \in Holds \ {h} : row'[x] = row[x],
               \A p \in Payouts \ {h} :
                  payout'[p] = payout[p] /\ (p \in ledger' <=> p \in ledger),
               s.pc \notin {"allocate", "drain", "post"},
               s.todo \in {Nothing, t.todo, alloc[h]}, s.pc = "restore" => s.todo = alloc[h],
               \/ row'[h] = row[h]
               \/ t.pc = "post" /\ row'[h] = "posted"
               \/ t.pc = "lookup" /\ row'[h] = "sent"
               \/ t.pc = "restore" /\ row'[h] = "released"
        PROVE  \E x \in Holds : \E r : Effect(w, r, x)
    <2>1. Moves(w, s, h)
      BY <1>b, <1>k DEF Moves, Busy
    <2>2. Keeps(w, s, h)
      BY <1>k DEF Keeps
    <2>3. s # at[w] /\ h \in Holds
      BY <1>b, <1>k
    <2> QED BY <2>1, <2>2, <2>3 DEF Effect
  <1>i. Idle.pc = "idle" /\ Idle.todo = Nothing
    BY DEF Idle
  <1>r. ASSUME t.pc # "idle", Return(w), UNCHANGED <<grantVars, alloc, ledger>>,
               \A x \in Holds \ {h} : row'[x] = row[x],
               \A p \in Payouts \ {h} : payout'[p] = payout[p],
               row'[h] = row[h] \/ (t.pc = "post" /\ row'[h] = "posted")
                  \/ (t.pc = "restore" /\ row'[h] = "released")
        PROVE  \E x \in Holds : \E r : Effect(w, r, x)
    BY <1>i, <1>k, <1>r DEF Return
  <1>1. CASE \/ Die(w) \/ InsufficientGrants(w) \/ OpenSession(w) \/ SessionRejected(w)
             \/ ReservationMissing(w)
    BY <1>1, <1>r DEF Die, InsufficientGrants, OpenSession, SessionRejected,
       ReservationMissing, holdVars, payoutVars
  <1>2. CASE FinishApprove(w) \/ ClosePayout(w) \/ FinishSend(w)
    <2>1. PICK status : payout' = [payout EXCEPT ![h] = status]
      BY <1>2 DEF FinishApprove, ClosePayout, FinishSend, WritePayout
    <2>2. \A p \in Payouts \ {h} : payout'[p] = payout[p]
      BY <1>t, <2>1
    <2> QED BY <1>2, <1>r, <2>2 DEF FinishApprove, ClosePayout, FinishSend, WritePayout, holdVars
  <1>3. CASE FinishPost(w)
    <2>1. row' = [row EXCEPT ![h] = "posted"] /\ t.pc = "post" /\ h \in Holds
      BY <1>3, <1>b DEF FinishPost
    <2>2. row'[h] = "posted" /\ \A x \in Holds \ {h} : row'[x] = row[x]
      BY <1>t, <2>1
    <2> QED BY <1>3, <1>r, <2>1, <2>2 DEF FinishPost, payoutVars
  <1>4. CASE FinishRelease(w)
    <2>1. /\ row' = [row EXCEPT ![h] = "released"] /\ t.pc = "restore" /\ h \in Holds
          /\ UNCHANGED <<grantVars, alloc, payout, ledger>>
      BY <1>4, <1>b DEF FinishRelease, payoutVars
    <2>2. row'[h] = "released" /\ \A x \in Holds \ {h} : row'[x] = row[x]
      BY <1>t, <2>1
    <2>3. CASE Return(w)
      BY <1>r, <2>1, <2>2, <2>3
    <2>4. CASE Goto(w, "close")
      <3> PICK s : s = [t EXCEPT !.pc = "close"]
        OBVIOUS
      <3>1. s.pc = "close" /\ s.hold = h /\ s.todo = t.todo /\ at' = [at EXCEPT ![w] = s]
        BY <1>t, <2>4 DEF Goto, HandlerState
      <3> QED BY <1>k, <2>1, <2>2, <3>1
    <2> QED BY <1>4, <2>3, <2>4 DEF FinishRelease
  <1>5. CASE ReleaseReservation(w)
    <2> PICK s : s = [t EXCEPT !.pc = "restore", !.todo = alloc[h]]
      OBVIOUS
    <2>1. s.pc = "restore" /\ s.hold = h /\ s.todo = alloc[h]
      BY <1>t DEF HandlerState
    <2>2. at' = [at EXCEPT ![w] = s] /\ t.pc = "lookup"
      BY <1>5 DEF ReleaseReservation
    <2> QED BY <1>5, <1>k, <2>1, <2>2 DEF ReleaseReservation, holdVars, payoutVars
  <1>6. CASE SendReservation(w)
    <2> PICK s : s = [t EXCEPT !.pc = "entry"]
      OBVIOUS
    <2>1. /\ s.pc = "entry" /\ s.hold = h /\ s.todo = t.todo /\ at' = [at EXCEPT ![w] = s]
          /\ t.pc = "lookup" /\ row' = [row EXCEPT ![h] = "sent"] /\ h \in Holds
          /\ UNCHANGED <<grantVars, alloc, payout, ledger>>
      BY <1>6, <1>t, <1>b DEF SendReservation, Goto, HandlerState, payoutVars
    <2>2. row'[h] = "sent" /\ \A x \in Holds \ {h} : row'[x] = row[x]
      BY <1>t, <2>1
    <2> QED BY <1>k, <2>1, <2>2
  <1>7. CASE PostSentEntry(w)
    <2> PICK s : s = [t EXCEPT !.pc = "sent"]
      OBVIOUS
    <2>1. /\ s.pc = "sent" /\ s.hold = h /\ s.todo = t.todo /\ at' = [at EXCEPT ![w] = s]
          /\ t.pc = "entry" /\ ledger' = ledger \cup {h}
          /\ UNCHANGED <<grantVars, row, alloc, payout>>
      BY <1>7, <1>t DEF PostSentEntry, Goto, HandlerState, holdVars
    <2> QED BY <1>k, <2>1
  <1>8. CASE Reserve(w)
    <2>1. PICK plan \in [Grants -> 0..t.amount] :
            /\ AllocateFifo(plan, t.amount)
            /\ at' = [at EXCEPT ![w].pc = "allocate", ![w].todo = plan]
      BY <1>8 DEF Reserve
    <2> PICK s : s = [t EXCEPT !.pc = "allocate", !.todo = plan]
      OBVIOUS
    <2>2. s.pc = "allocate" /\ s.todo = plan /\ s.hold = h /\ at' = [at EXCEPT ![w] = s]
      BY <1>t, <2>1 DEF HandlerState
    <2>3. /\ t.pc = "list" /\ row' = [row EXCEPT ![h] = "reserved"] /\ h \in Holds
          /\ UNCHANGED <<grantVars, alloc, payout, ledger>>
      BY <1>8, <1>b DEF Reserve, payoutVars
    <2>4. row'[h] = "reserved" /\ \A x \in Holds \ {h} : row'[x] = row[x]
      BY <1>t, <2>3
    <2>5. /\ plan \in [Grants -> Nat]
          /\ \A g \in Grants : plan[g] > 0 => plan[g] <= remaining[g]
          /\ \A g \in Grants : remaining[g] = 0 => plan[g] = 0
      BY <1>t, <2>1, PlanFits DEF HandlerState
    <2>6. Moves(w, s, h)
      BY <2>2, <2>3, <2>4 DEF Moves, Busy
    <2>7. Plans(w, s, h)
      BY <2>2, <2>3, <2>4, <2>5 DEF Plans
    <2> QED BY <2>2, <2>3, <2>6, <2>7 DEF Effect
  <1>9. CASE CreateAllocation(w)
    <2>1. PICK k \in Grants :
            IsNext(w, k) /\ alloc' = [alloc EXCEPT ![h][k] = t.todo[k]]
      BY <1>9 DEF CreateAllocation
    <2> PICK s : s = [t EXCEPT !.pc = "drain"]
      OBVIOUS
    <2>2. /\ s.pc = "drain" /\ s.todo = t.todo /\ s.hold = h /\ at' = [at EXCEPT ![w] = s]
          /\ t.pc = "allocate" /\ h \in Holds
          /\ UNCHANGED <<grantVars, row, payout, ledger>>
      BY <1>9, <1>t, <1>b DEF CreateAllocation, Goto, HandlerState, payoutVars
    <2>3. /\ alloc'[h][k] = t.todo[k]
          /\ \A g \in Grants \ {k} : alloc'[h][g] = alloc[h][g]
          /\ \A x \in Holds \ {h} : alloc'[x] = alloc[x]
      BY <1>t, <2>1, <2>2
    <2>4. AtGrant(w, k)
      BY <2>1 DEF AtGrant, IsNext, Oldest
    <2>5. Moves(w, s, h)
      BY <2>2, <2>3 DEF Moves, Busy
    <2>6. Allocates(w, s, h, k)
      BY <2>2, <2>3, <2>4 DEF Allocates
    <2> QED BY <2>2, <2>5, <2>6 DEF Effect
  <1>10. CASE DrainGrant(w)
    <2>1. PICK k \in Grants :
            /\ IsNext(w, k)
            /\ remaining' = [remaining EXCEPT ![k] = @ - t.todo[k]]
            /\ LET last == \A other \in Grants \ {k} : t.todo[other] = 0
               IN  IF last /\ t.job = "payout" THEN Return(w)
                   ELSE at' = [at EXCEPT ![w].pc = IF last THEN "session" ELSE "allocate",
                                         ![w].todo[k] = 0]
      BY <1>10 DEF DrainGrant
    <2>2. t.pc = "drain" /\ h \in Holds /\ UNCHANGED <<count, issued, row, alloc, payout, ledger>>
      BY <1>10, <1>b DEF DrainGrant, holdVars, payoutVars
    <2>k. t.todo[k] > 0
      BY <2>1 DEF IsNext
    <2>3. PICK s : /\ at' = [at EXCEPT ![w] = s]
                   /\ s.pc \in {"idle", "session", "allocate"}
                   /\ s.pc # "idle" => s.hold = h
                   /\ TicksOff(w, s, k)
      <3>1. CASE Return(w) /\ \A g \in Grants \ {k} : t.todo[g] = 0
        <4>1. Idle.todo[k] = 0 /\ \A g \in Grants \ {k} : Idle.todo[g] = t.todo[g]
          BY <1>i, <3>1 DEF Nothing
        <4>2. TicksOff(w, Idle, k)
          BY <1>t, <2>k, <4>1 DEF TicksOff
        <4>3. at' = [at EXCEPT ![w] = Idle]
          BY <3>1 DEF Return
        <4> QED BY <1>i, <4>2, <4>3
      <3>2. CASE ~(Return(w) /\ \A g \in Grants \ {k} : t.todo[g] = 0)
        <4>1. PICK pc \in {"session", "allocate"} :
                 at' = [at EXCEPT ![w].pc = pc, ![w].todo[k] = 0]
          BY <2>1, <3>2
        <4> PICK s : s = [t EXCEPT !.pc = pc, !.todo[k] = 0]
          OBVIOUS
        <4>2. s.pc = pc /\ s.todo = [t.todo EXCEPT ![k] = 0] /\ s.hold = h
          BY <1>t DEF HandlerState
        <4>3. at' = [at EXCEPT ![w] = s]
          BY <1>t, <4>1 DEF HandlerState
        <4>4. s.todo[k] = 0 /\ \A g \in Grants \ {k} : s.todo[g] = t.todo[g]
          BY <1>t, <4>2
        <4>5. TicksOff(w, s, k)
          BY <1>t, <2>k, <4>4 DEF TicksOff
        <4> QED BY <4>2, <4>3, <4>5
      <3> QED BY <3>1, <3>2
    <2>4. /\ remaining'[k] = remaining[k] - t.todo[k]
          /\ \A g \in Grants \ {k} : remaining'[g] = remaining[g]
      BY <1>t, <2>1
    <2>5. AtGrant(w, k)
      BY <2>1 DEF AtGrant, IsNext, Oldest
    <2>6. Moves(w, s, h)
      BY <2>2, <2>3 DEF Moves, Busy
    <2>7. Drains(w, s, h, k)
      BY <2>2, <2>3, <2>4, <2>5 DEF Drains
    <2> QED BY <2>2, <2>3, <2>6, <2>7 DEF Effect
  <1>11. CASE RestoreGrant(w)
    <2>1. PICK k \in Grants :
            /\ t.todo[k] > 0
            /\ remaining' = [remaining EXCEPT ![k] = @ + t.todo[k]]
            /\ at' = [at EXCEPT ![w].todo[k] = 0]
      BY <1>11 DEF RestoreGrant
    <2>2. t.pc = "restore" /\ h \in Holds /\ UNCHANGED <<count, issued, row, alloc, payout, ledger>>
      BY <1>11, <1>b DEF RestoreGrant, holdVars, payoutVars
    <2>9. PICK s : s = [t EXCEPT !.todo[k] = 0]
      OBVIOUS
    <2>3. s.pc = "restore" /\ s.todo = [t.todo EXCEPT ![k] = 0] /\ s.hold = h
          /\ at' = [at EXCEPT ![w] = s]
      BY <1>t, <2>1, <2>2, <2>9 DEF HandlerState
    <2>8. s.todo[k] = 0 /\ \A g \in Grants \ {k} : s.todo[g] = t.todo[g]
      BY <1>t, <2>3
    <2>4. TicksOff(w, s, k) /\ s # at[w]
      <3>1. t.todo[k] > 0 /\ t.todo[k] \in Nat
        BY <1>t, <2>1
      <3> QED BY <1>t, <2>8, <3>1 DEF TicksOff
    <2>5. /\ remaining'[k] = remaining[k] + t.todo[k]
          /\ \A g \in Grants \ {k} : remaining'[g] = remaining[g]
      BY <1>t, <2>1
    <2>6. Moves(w, s, h)
      BY <2>2, <2>3 DEF Moves, Busy
    <2>7. Restores(w, s, h, k)
      BY <2>2, <2>3, <2>4, <2>5 DEF Restores
    <2> QED BY <2>2, <2>4, <2>6, <2>7 DEF Effect
  <1> QED
    BY <1>1, <1>2, <1>3, <1>4, <1>5, <1>6, <1>7, <1>8, <1>9, <1>10, <1>11 DEF Advance

\* What a step of the account can be.
LEMMA StepKinds ==
    ASSUME TypeInv, RowsInv, [Next]_vars
    PROVE  \/ RecordDelta
           \/ UNCHANGED <<grantVars, holdVars, payoutVars, at>>
           \/ \E w \in Handlers, h \in Holds : \E s : Effect(w, s, h)
  <1>1. ASSUME NEW w \in Handlers, Reserving(w) \/ Finishing(w) \/ Advance(w) \/ Die(w)
        PROVE  \E v \in Handlers, h \in Holds : \E s : Effect(v, s, h)
    BY <1>1, StartsEffect, AdvanceEffect
  <1>2. CASE \/ \E h \in Redemptions : CompleteSession(h) \/ ExpireSession(h)
             \/ UNCHANGED vars
    BY <1>2 DEF CompleteSession, ExpireSession, SettleSession, vars
  <1>3. Reservers \subseteq Handlers /\ Finishers \subseteq Handlers
    BY DEF Handlers
  <1> QED BY <1>1, <1>2, <1>3 DEF Next

\* The loop over a plan is at one grant at a time.
LEMMA OldestIsUnique ==
    ASSUME NEW todo, NEW g \in Grants, NEW k \in Grants,
           todo[g] > 0, todo[k] > 0, Oldest(todo, g), Oldest(todo, k)
    PROVE  g = k
  <1>1. g \in Nat /\ k \in Nat
    BY ConstantTypes
  <1>2. CASE g < k
    BY <1>2 DEF Oldest
  <1>3. CASE k < g
    BY <1>3 DEF Oldest
  <1> QED BY <1>1, <1>2, <1>3

LEMMA RowsMove ==
    ASSUME TypeInv, RowsInv, NEW w \in Handlers, NEW h \in Holds, NEW s, Effect(w, s, h)
    PROVE  RowsInv'
  <1> PICK t : t = at[w]
    OBVIOUS
  <1>t. /\ at \in [Handlers -> HandlerState] /\ alloc \in [Holds -> [Grants -> Nat]]
        /\ t.todo \in [Grants -> Nat] /\ PayoutLocals /\ Moves(w, s, h)
    BY DEF TypeInv, TypeOK, HandlerState, Effect
  <1>a. at'[w] = s /\ \A v \in Handlers \ {w} : at'[v] = at[v]
    BY <1>t DEF Moves
  <1>h. (t.pc # "idle" => t.hold = h) /\ (s.pc # "idle" => s.hold = h)
    BY <1>t DEF Moves, Busy
  <1>r. Unissued /\ Kinds
    BY DEF RowsInv
  \* What a case has to show of the slot and of its hold.
  <1>u. ASSUME \A g \in Grants : g > count =>
                  issued'[g] = 0 /\ remaining'[g] = 0 /\ alloc'[h][g] = 0 /\ s.todo[g] = 0,
               count' = count,
               \A g \in Grants : alloc[h][g] > 0 => alloc'[h][g] > 0,
               \A g \in Grants :
                  s.todo[g] > 0 /\ (s.pc = "restore" \/ (s.pc = "drain" /\ Oldest(s.todo, g)))
                    => alloc'[h][g] > 0,
               s.pc = "post" => h \in Redemptions,
               \/ row'[h] \in {row[h], "reserved", "released"}
               \/ t.pc = "post" /\ row'[h] = "posted"
               \/ t.pc = "lookup" /\ row'[h] = "sent"
        PROVE  RowsInv'
    <2>1. Unissued'
      <3>1. ASSUME NEW g \in Grants, g > count, NEW x \in Holds PROVE alloc'[x][g] = 0
        BY <1>u, <1>t, <1>r, <3>1 DEF Moves, Unissued
      <3>2. ASSUME NEW g \in Grants, g > count, NEW v \in Handlers PROVE at'[v].todo[g] = 0
        BY <1>u, <1>a, <1>r, <3>2 DEF Unissued
      <3> QED BY <1>u, <3>1, <3>2 DEF Unissued
    <2>2. \A v \in Handlers : Busy(v)' => at'[v].hold \in Holds
      BY <1>a, <1>h DEF RowsInv, Busy
    <2>3. ASSUME NEW v \in Handlers, NEW g \in Grants, Takes(v, g)'
          PROVE  alloc'[at'[v].hold][g] > 0
      <3>1. CASE v = w
        <4>1. /\ s.todo[g] > 0 /\ s.hold = h /\ at'[v] = s
              /\ s.pc = "restore" \/ (s.pc = "drain" /\ Oldest(s.todo, g))
          BY <1>a, <1>h, <2>3, <3>1 DEF Takes, Oldest
        <4> QED BY <1>u, <4>1
      <3>2. CASE v # w
        <4>1. at'[v] = at[v] /\ Takes(v, g) /\ Busy(v)
          BY <1>a, <2>3, <3>2 DEF Takes, Busy
        <4>2. at[v].hold \in Holds /\ alloc[at[v].hold][g] > 0
          BY <4>1 DEF RowsInv
        <4> QED BY <1>u, <1>t, <4>1, <4>2 DEF Moves
      <3> QED BY <3>1, <3>2
    <2>4. Kinds'
      <3>1. \A v \in Handlers : at'[v].pc = "post" => at'[v].hold \in Redemptions
        BY <1>u, <1>a, <1>h, <1>r DEF Kinds
      <3>2. t.pc = "post" => h \in Redemptions
        BY <1>h, <1>r DEF Kinds
      <3>3. t.pc = "lookup" => h \in Payouts
        BY <1>h, <1>t DEF PayoutLocals
      <3>4. \A x \in Holds \ {h} : row'[x] = row[x]
        BY <1>t DEF Moves
      <3> QED BY <1>u, <1>r, <3>1, <3>2, <3>3, <3>4, ConstantTypes, WalletAssumption DEF Kinds
    <2> QED BY <2>1, <2>2, <2>3, <2>4 DEF RowsInv
  <1>1. CASE Keeps(w, s, h)
    BY <1>1, <1>u, <1>t, <1>r DEF Keeps, grantVars, Unissued, Nothing
  <1>2. CASE Plans(w, s, h)
    BY <1>2, <1>u, <1>r DEF Plans, grantVars, Unissued
  <1>3. ASSUME NEW k \in Grants, Allocates(w, s, h, k)
        PROVE  RowsInv'
    <2>1. /\ UNCHANGED <<count, issued, remaining, row>> /\ s.pc = "drain" /\ s.todo = t.todo
          /\ t.todo[k] > 0 /\ Oldest(t.todo, k) /\ alloc'[h][k] = t.todo[k]
          /\ \A g \in Grants \ {k} : alloc'[h][g] = alloc[h][g]
      BY <1>3 DEF Allocates, AtGrant, grantVars
    <2>2. ~(k > count)
      BY <1>r, <2>1 DEF Unissued
    <2>3. \A g \in Grants : s.todo[g] > 0 /\ Oldest(s.todo, g) => g = k
      BY <2>1, OldestIsUnique
    <2> QED BY <1>u, <1>r, <2>1, <2>2, <2>3 DEF Unissued
  <1>4. ASSUME NEW k \in Grants, Drains(w, s, h, k) \/ Restores(w, s, h, k)
        PROVE  RowsInv'
    <2>1. /\ UNCHANGED <<count, issued, row, alloc>> /\ s.pc \notin {"drain", "post"}
          /\ s.pc = "restore" => t.pc = "restore"
          /\ t.todo[k] > 0 /\ s.todo[k] = 0 /\ \A g \in Grants \ {k} : s.todo[g] = t.todo[g]
          /\ \A g \in Grants \ {k} : remaining'[g] = remaining[g]
      BY <1>4 DEF Drains, Restores, TicksOff
    <2>2. ~(k > count)
      BY <1>r, <2>1 DEF Unissued
    <2>3. ASSUME NEW g \in Grants, s.todo[g] > 0, s.pc = "restore"
          PROVE  alloc[h][g] > 0
      <3>1. g # k /\ Takes(w, g)
        BY <2>1, <2>3 DEF Takes
      <3> QED BY <1>h, <2>1, <2>3, <3>1 DEF RowsInv
    <2> QED BY <1>u, <1>r, <2>1, <2>2, <2>3 DEF Unissued
  <1> QED BY <1>1, <1>2, <1>3, <1>4 DEF Effect

\* A delta fills the next grant.
Fills(k) ==
    /\ k = count + 1 /\ count' = k /\ k > count
    /\ issued'[k] \in Deltas \cap Int /\ remaining'[k] = issued'[k]
    /\ \A g \in Grants \ {k} : issued'[g] = issued[g] /\ remaining'[g] = remaining[g]
    /\ UNCHANGED <<holdVars, payoutVars, at>>

LEMMA DeltaFills == TypeInv /\ RecordDelta => \E k \in Grants : Fills(k)
  <1> SUFFICES ASSUME TypeInv, RecordDelta PROVE \E k \in Grants : Fills(k)
    OBVIOUS
  <1>1. PICK d \in Deltas \ {0} :
            /\ count < GrantLimit
            /\ count' = count + 1
            /\ issued' = [issued EXCEPT ![count + 1] = d]
            /\ remaining' = [remaining EXCEPT ![count + 1] = d]
    BY DEF RecordDelta
  <1> PICK k : k = count + 1
    OBVIOUS
  <1>2. /\ count \in Nat /\ k \in Grants /\ k > count /\ d \in Int
        /\ issued \in [Grants -> Int] /\ remaining \in [Grants -> Int]
    BY <1>1, WalletAssumption DEF TypeInv, TypeOK, Grants
  <1>3. /\ issued'[k] = d /\ remaining'[k] = d
        /\ \A g \in Grants \ {k} : issued'[g] = issued[g] /\ remaining'[g] = remaining[g]
    BY <1>1, <1>2
  <1>4. UNCHANGED <<holdVars, payoutVars, at>>
    BY DEF RecordDelta
  <1>5. Fills(k)
    BY <1>1, <1>2, <1>3, <1>4 DEF Fills
  <1> QED BY <1>2, <1>5

LEMMA RowsStep == TypeInv /\ RowsInv /\ [Next]_vars => RowsInv'
  <1> SUFFICES ASSUME TypeInv, RowsInv, [Next]_vars PROVE RowsInv'
    OBVIOUS
  <1>1. CASE RecordDelta
    <2>1. PICK k \in Grants : Fills(k)
      BY <1>1, DeltaFills
    <2>2. count \in Int
      BY DEF TypeInv, TypeOK
    <2>3. Unissued'
      <3>1. \A g \in Grants : g > count' => g > count /\ g # k
        BY <2>1, <2>2, ConstantTypes DEF Fills
      <3> QED BY <2>1, <3>1 DEF Fills, RowsInv, Unissued, holdVars
    <2> QED BY <2>1, <2>3 DEF Fills, RowsInv, Kinds, Busy, Takes, holdVars
  <1>2. CASE UNCHANGED <<grantVars, holdVars, payoutVars, at>>
    BY <1>2 DEF RowsInv, Unissued, Kinds, Busy, Takes, grantVars, holdVars
  <1> QED BY <1>1, <1>2, RowsMove, StepKinds

LEMMA RowsInit == Init => RowsInv
  <1> SUFFICES ASSUME Init PROVE RowsInv
    OBVIOUS
  <1>1. \A w \in Handlers : at[w].pc = "idle" /\ at[w].todo = Nothing
    BY DEF Init, Idle
  <1>2. Unissued
    BY <1>1 DEF Init, Unissued, Nothing
  <1>3. Kinds
    BY <1>1, ConstantTypes DEF Init, Kinds
  <1> QED BY <1>1, <1>2, <1>3 DEF RowsInv, Takes, Busy

-----------------------------------------------------------------------------
(* Overdraft.                                                              *)

\* A grant is not drawn below zero if the plans that take from it do so one at
\* a time: what a plan still has to take from it is in it.
OverdraftInv ==
    /\ NoOverdraft
    /\ \A g \in Grants : Contended(g) => g \in contested
    /\ \A g \in Grants \ contested, w \in Handlers :
          Pending(w) /\ at[w].todo[g] > 0 => at[w].todo[g] <= remaining[g]

LEMMA OverdraftMove ==
    ASSUME TypeInv, TypeInv', OverdraftInv, NEW w \in Handlers, NEW h \in Holds, NEW s,
           Effect(w, s, h), NEW g \in Grants, g \notin contested
    PROVE  /\ remaining'[g] >= IF issued'[g] > 0 THEN 0 ELSE issued'[g]
           /\ \A v \in Handlers :
                 Pending(v)' /\ at'[v].todo[g] > 0 => at'[v].todo[g] <= remaining'[g]
  <1> PICK t : t = at[w]
    OBVIOUS
  <1>t. /\ at \in [Handlers -> HandlerState] /\ t.todo[g] \in Nat
        /\ remaining[g] \in Int /\ remaining'[g] \in Int /\ issued[g] \in Int
        /\ \A v \in Handlers : at[v].todo[g] \in Nat /\ at'[v].todo[g] \in Nat
    BY DEF TypeInv, TypeOK, HandlerState
  <1>a. at'[w] = s /\ \A v \in Handlers \ {w} : at'[v] = at[v]
    BY <1>t DEF Effect, Moves
  <1>o. /\ remaining[g] >= IF issued[g] > 0 THEN 0 ELSE issued[g]
        /\ \A v \in Handlers : Pending(v) /\ at[v].todo[g] > 0 => at[v].todo[g] <= remaining[g]
    BY DEF OverdraftInv, NoOverdraft
  <1>1. CASE Keeps(w, s, h)
    BY <1>1, <1>a, <1>o DEF Keeps, grantVars, Pending
  <1>2. CASE Plans(w, s, h)
    BY <1>2, <1>a, <1>o DEF Plans, grantVars, Pending
  <1>3. ASSUME NEW k \in Grants, Allocates(w, s, h, k)
        PROVE  /\ remaining'[g] >= IF issued'[g] > 0 THEN 0 ELSE issued'[g]
               /\ \A v \in Handlers :
                     Pending(v)' /\ at'[v].todo[g] > 0 => at'[v].todo[g] <= remaining'[g]
    BY <1>3, <1>a, <1>o DEF Allocates, grantVars, Pending
  <1>4. ASSUME NEW k \in Grants, Drains(w, s, h, k)
        PROVE  /\ remaining'[g] >= IF issued'[g] > 0 THEN 0 ELSE issued'[g]
               /\ \A v \in Handlers :
                     Pending(v)' /\ at'[v].todo[g] > 0 => at'[v].todo[g] <= remaining'[g]
    <2>1. /\ Pending(w) /\ t.todo[k] > 0 /\ s.todo[k] = 0 /\ issued' = issued
          /\ remaining'[k] = remaining[k] - t.todo[k]
          /\ k # g => remaining'[g] = remaining[g] /\ s.todo[g] = t.todo[g]
      BY <1>4 DEF Drains, TicksOff, AtGrant, Pending
    <2>2. CASE k = g
      <3>1. \A v \in Handlers \ {w} : ~(Pending(v) /\ at[v].todo[g] > 0)
        BY <2>1, <2>2 DEF OverdraftInv, Contended
      <3>2. \A v \in Handlers : ~(Pending(v)' /\ at'[v].todo[g] > 0)
        BY <1>a, <2>1, <2>2, <3>1 DEF Pending
      <3> QED BY <1>o, <1>t, <2>1, <2>2, <3>2
    <2>3. CASE k # g
      BY <1>a, <1>o, <2>1, <2>3 DEF Pending
    <2> QED BY <2>2, <2>3
  <1>5. ASSUME NEW k \in Grants, Restores(w, s, h, k)
        PROVE  /\ remaining'[g] >= IF issued'[g] > 0 THEN 0 ELSE issued'[g]
               /\ \A v \in Handlers :
                     Pending(v)' /\ at'[v].todo[g] > 0 => at'[v].todo[g] <= remaining'[g]
    <2>1. /\ s.pc = "restore" /\ issued' = issued /\ remaining'[g] >= remaining[g]
      BY <1>5, <1>t DEF Restores, TicksOff
    <2>2. \A v \in Handlers : Pending(v)' => v # w /\ Pending(v) /\ at'[v] = at[v]
      BY <1>a, <2>1 DEF Pending
    <2> QED BY <1>o, <1>t, <2>1, <2>2
  <1> QED BY <1>1, <1>2, <1>3, <1>4, <1>5 DEF Effect

LEMMA OverdraftStep ==
    TypeInv /\ TypeInv' /\ RowsInv /\ OverdraftInv /\ [HistoryNext]_historyVars => OverdraftInv'
  <1> SUFFICES ASSUME TypeInv, TypeInv', RowsInv, OverdraftInv, [HistoryNext]_historyVars
               PROVE  OverdraftInv'
    OBVIOUS
  <1>1. CASE UNCHANGED historyVars
    BY <1>1 DEF historyVars, vars, grantVars, OverdraftInv, NoOverdraft, Contended, Pending
  <1>2. CASE HistoryNext
    <2>1. /\ [Next]_vars /\ contested \subseteq contested'
          /\ \A g \in Grants : Contended(g)' => g \in contested'
      BY <1>2 DEF HistoryNext
    <2>2. ASSUME NEW g \in Grants, g \notin contested'
          PROVE  /\ remaining'[g] >= IF issued'[g] > 0 THEN 0 ELSE issued'[g]
                 /\ \A v \in Handlers :
                       Pending(v)' /\ at'[v].todo[g] > 0 => at'[v].todo[g] <= remaining'[g]
      <3>o. /\ g \notin contested
            /\ remaining[g] >= IF issued[g] > 0 THEN 0 ELSE issued[g]
            /\ \A v \in Handlers :
                  Pending(v) /\ at[v].todo[g] > 0 => at[v].todo[g] <= remaining[g]
        BY <2>1, <2>2 DEF OverdraftInv, NoOverdraft
      <3>1. CASE RecordDelta
        <4>1. PICK k \in Grants : Fills(k)
          BY <3>1, DeltaFills
        <4>2. \A v \in Handlers : ~(at[v].todo[k] > 0)
          BY <4>1 DEF Fills, RowsInv, Unissued
        <4> QED BY <3>o, <4>1, <4>2 DEF Fills, Pending
      <3>2. CASE UNCHANGED <<grantVars, holdVars, payoutVars, at>>
        BY <3>o, <3>2 DEF grantVars, Pending
      <3>3. ASSUME NEW w \in Handlers, NEW h \in Holds, NEW s, Effect(w, s, h)
            PROVE  /\ remaining'[g] >= IF issued'[g] > 0 THEN 0 ELSE issued'[g]
                   /\ \A v \in Handlers :
                         Pending(v)' /\ at'[v].todo[g] > 0 => at'[v].todo[g] <= remaining'[g]
        BY <3>o, <3>3, OverdraftMove
      <3> QED BY <2>1, <3>1, <3>2, <3>3, StepKinds
    <2> QED BY <2>1, <2>2 DEF OverdraftInv, NoOverdraft
  <1> QED BY <1>1, <1>2

\* A step of the history is a step of the account.
LEMMA HistoryStep == [HistoryNext]_historyVars => [Next]_vars
  BY DEF HistoryNext, historyVars

LEMMA HistoryTypes == HistorySpec => [](TypeInv /\ RowsInv)
  <1>1. HistoryInit => TypeInv /\ RowsInv
    BY TypeInit, RowsInit DEF HistoryInit
  <1>2. TypeInv /\ RowsInv /\ [HistoryNext]_historyVars => TypeInv' /\ RowsInv'
    BY HistoryStep, TypeStep, RowsStep
  <1> QED BY <1>1, <1>2, PTL DEF HistorySpec

\* A grant from which two reservations never had to take at once is not drawn
\* below what was in it, however many checkouts and payout requests interleave
\* on other grants, whatever is released, posted or lost in a death.
THEOREM UncontestedIsCovered == HistorySpec => []NoOverdraft
  <1>1. HistoryInit => OverdraftInv
    BY DEF HistoryInit, Init, OverdraftInv, NoOverdraft, Contended, Pending, Idle, Nothing
  <1>2. TypeInv /\ TypeInv' /\ RowsInv /\ OverdraftInv /\ [HistoryNext]_historyVars
          => OverdraftInv'
    BY OverdraftStep
  <1>3. OverdraftInv => NoOverdraft
    BY DEF OverdraftInv
  <1> QED
    BY <1>1, <1>2, <1>3, HistoryTypes, PTL DEF HistorySpec
=============================================================================
