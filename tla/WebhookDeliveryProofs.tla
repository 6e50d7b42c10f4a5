----------------------- MODULE WebhookDeliveryProofs -----------------------
(***************************************************************************)
(* What holds of WebhookDelivery for every set of rows, every number of    *)
(* dispatchers, every limit of attempts, and every number of replays,      *)
(* throws and deaths.                                                      *)
(***************************************************************************)
EXTENDS WebhookDelivery, TLAPS

-----------------------------------------------------------------------------
(* The invariant.                                                          *)

Labels == {"idle", "claim", "send", "deliver", "refuse", "fail"}
Slot == [pc : Labels, seen : SUBSET Rows, claimed : SUBSET Rows,
         row : Rows \cup {None}, snap : [Rows -> Snapshot]]

\* The rows a slot s has in hand.
Hand(s) == s.claimed \cup ({s.row} \ {None})

\* Which locals a dispatcher uses at which label.
LabelsOK(s) ==
    /\ s.pc \in {"deliver", "refuse", "fail"} => s.row \in Rows \ s.claimed
    /\ s.pc \in {"idle", "claim", "send"} => s.row = None
    /\ s.pc # "claim" => s.seen = {}
    /\ s.pc = "idle" => s.claimed = {}
    /\ s.seen \cap s.claimed = {}

\* A copy of a row tells its attempts by its nextAttemptAt; that of a row in
\* hand is up to date; what is about to be called delivered was accepted.
CopiesOK(s) ==
    /\ \A d \in s.seen :
          s.snap[d].attempts = s.snap[d].next /\ (s.snap[d].aged => d \in aged)
    /\ \A d \in Hand(s) :
          /\ status[d] = "delivering"
          /\ s.snap[d].attempts = attemptCount[d]
          /\ s.snap[d].aged => d \in aged
    /\ s.pc = "deliver" => received[s.row] >= 1

\* Failures are what nextAttemptAt counts, a row that is not terminal has
\* attempts left, and the outcomes are justified.
RowOK(d) ==
    /\ status[d] # "delivered" => nextAttempt[d] = attemptCount[d]
    /\ status[d] \notin {"delivered", "dead_letter"} => attemptCount[d] < MaxAttempts
    /\ status[d] = "delivered" => received[d] >= 1
    /\ status[d] = "dead_letter" => attemptCount[d] = MaxAttempts \/ d \in aged

SlotsInv == \A w \in Dispatchers : LabelsOK(disp[w]) /\ CopiesOK(disp[w])
HandsInv == \A v, w \in Dispatchers : v # w => Hand(disp[v]) \cap Hand(disp[w]) = {}
RowsInv == \A d \in Rows : RowOK(d)
IInv == TypeOK /\ SlotsInv /\ HandsInv /\ RowsInv

LEMMA IdleSlot == Idle \in Slot /\ LabelsOK(Idle) /\ Hand(Idle) = {} /\ Idle.pc = "idle"
                  /\ Idle.seen = {}
  BY WebhookAssumption DEF Idle, Slot, Labels, Snapshot, NoSnapshot, LabelsOK, Hand

LEMMA Initially == Init => IInv
  <1> SUFFICES ASSUME Init PROVE IInv
    OBVIOUS
  <1>1. \A w \in Dispatchers : disp[w] = Idle
    BY DEF Init
  <1>2. disp \in [Dispatchers -> Slot]
    BY IdleSlot DEF Init
  <1>3. TypeOK
    BY <1>2, WebhookAssumption DEF Init, TypeOK, Slot, Labels, Status
  <1>4. SlotsInv
    BY <1>1, IdleSlot DEF SlotsInv, CopiesOK
  <1>5. HandsInv
    BY <1>1, IdleSlot DEF HandsInv
  <1>6. RowsInv
    BY WebhookAssumption DEF Init, RowsInv, RowOK
  <1> QED BY <1>3, <1>4, <1>5, <1>6 DEF IInv

-----------------------------------------------------------------------------
(* Steps.                                                                  *)

\* What is known of one slot.
LEMMA SlotFacts ==
    ASSUME IInv, NEW w \in Dispatchers
    PROVE  /\ disp \in [Dispatchers -> Slot] /\ disp[w] \in Slot
           /\ LabelsOK(disp[w]) /\ CopiesOK(disp[w])
           /\ \A v \in Dispatchers \ {w} : Hand(disp[v]) \cap Hand(disp[w]) = {}
           /\ Hand(disp[w]) \subseteq Rows
  <1>1. disp \in [Dispatchers -> Slot]
    BY DEF IInv, TypeOK, Slot, Labels
  <1>2. disp[w] \in Slot /\ LabelsOK(disp[w]) /\ CopiesOK(disp[w])
    BY <1>1 DEF IInv, SlotsInv
  <1>3. \A v \in Dispatchers \ {w} : Hand(disp[v]) \cap Hand(disp[w]) = {}
    BY DEF IInv, HandsInv
  <1>4. Hand(disp[w]) \subseteq Rows
    BY <1>2 DEF Slot, Hand
  <1> QED BY <1>1, <1>2, <1>3, <1>4

\* A step of w that leaves the hands of the others alone, and takes no row that
\* one of them has, keeps what is known of all slots.
LEMMA SlotStep ==
    ASSUME IInv, NEW w \in Dispatchers, NEW s \in Slot,
           disp' = [disp EXCEPT ![w] = s],
           LabelsOK(s), CopiesOK(s)',
           \A v \in Dispatchers \ {w} :
               /\ Hand(disp[v]) \cap Hand(s) = {}
               /\ \A d \in Hand(disp[v]) :
                     status'[d] = status[d] /\ attemptCount'[d] = attemptCount[d],
           aged \subseteq aged',
           \A d \in Rows : received'[d] >= received[d],
           received \in [Rows -> Nat], received' \in [Rows -> Nat]
    PROVE  disp' \in [Dispatchers -> Slot] /\ SlotsInv' /\ HandsInv'
  <1>1. disp \in [Dispatchers -> Slot]
    BY SlotFacts
  <1>2. disp' \in [Dispatchers -> Slot] /\ disp'[w] = s
        /\ \A v \in Dispatchers \ {w} : disp'[v] = disp[v]
    BY <1>1
  <1>3. ASSUME NEW v \in Dispatchers \ {w}
        PROVE  (LabelsOK(disp[v]) /\ CopiesOK(disp[v]))'
    <2>1. disp'[v] = disp[v] /\ disp[v] \in Slot
      BY <1>1, <1>2
    <2>2. LabelsOK(disp[v]) /\ CopiesOK(disp[v])
      BY SlotFacts
    <2>3. disp[v].pc = "deliver" => disp[v].row \in Rows
      BY <2>2 DEF LabelsOK
    <2>4. LabelsOK(disp[v])'
      BY <2>1, <2>2 DEF LabelsOK
    <2>5. Hand(disp[v])' = Hand(disp[v]) /\ Hand(disp[v]) \subseteq Rows
      BY <2>1, SlotFacts DEF Hand
    <2>6. disp[v].pc = "deliver" => received'[disp[v].row] >= 1
      BY <2>2, <2>3 DEF CopiesOK
    <2>7. CopiesOK(disp[v])'
      BY <2>1, <2>2, <2>5, <2>6 DEF CopiesOK
    <2> QED
      BY <2>4, <2>7
  <1>4. SlotsInv'
    BY <1>2, <1>3 DEF SlotsInv
  <1>5. HandsInv'
    BY <1>2 DEF HandsInv, IInv
  <1> QED BY <1>2, <1>4, <1>5

\* A step of no dispatcher takes no row out of delivering.
LEMMA RowStep ==
    ASSUME IInv, UNCHANGED <<disp, attemptCount, received>>, aged \subseteq aged',
           \A d \in Rows : status[d] = "delivering" => status'[d] = "delivering"
    PROVE  SlotsInv' /\ HandsInv'
  <1>1. ASSUME NEW w \in Dispatchers PROVE (LabelsOK(disp[w]) /\ CopiesOK(disp[w]))'
    <2>1. disp[w] \in Slot /\ LabelsOK(disp[w]) /\ CopiesOK(disp[w])
          /\ Hand(disp[w]) \subseteq Rows
      BY SlotFacts
    <2>2. Hand(disp[w])' = Hand(disp[w])
      BY DEF Hand
    <2> QED
      BY <2>1, <2>2 DEF LabelsOK, CopiesOK
  <1>2. HandsInv'
    BY DEF IInv, HandsInv, Hand
  <1> QED BY <1>1, <1>2 DEF SlotsInv

LEMMA RowActions ==
    ASSUME IInv, NEW d \in Rows,
           \/ Enqueue(d) \/ BecomesDue(d) \/ PassesADay(d)
           \/ \E copy \in Rows : ReplayDelivery(d, copy)
    PROVE  IInv'
  <1> USE WebhookAssumption
  <1>1. ASSUME NEW e \in Rows, CreateRow(e), replays' \in 0..MaxReplays
        PROVE  IInv'
    <2>1. TypeOK'
      BY <1>1 DEF CreateRow, IInv, TypeOK, Status
    <2>2. status \in [Rows -> Status]
      BY DEF IInv, TypeOK
    <2>3. SlotsInv' /\ HandsInv'
      BY <1>1, <2>2, RowStep DEF CreateRow
    <2>4. RowsInv'
      BY <1>1, <2>2 DEF CreateRow, IInv, RowsInv, RowOK
    <2> QED BY <2>1, <2>3, <2>4 DEF IInv
  <1>2. CASE Enqueue(d)
    <2>1. CreateRow(d) /\ replays' \in 0..MaxReplays
      BY <1>2 DEF Enqueue, IInv, TypeOK
    <2> QED BY <2>1, <1>1
  <1>3. ASSUME NEW copy \in Rows, ReplayDelivery(d, copy) PROVE IInv'
    <2>1. CreateRow(copy) /\ replays' \in 0..MaxReplays
      BY <1>3 DEF ReplayDelivery, IInv, TypeOK
    <2> QED BY <2>1, <1>1
  <1>4. CASE BecomesDue(d)
    <2>1. TypeOK'
      BY <1>4 DEF BecomesDue, rowVars, boundVars, IInv, TypeOK
    <2>2. SlotsInv' /\ HandsInv'
      BY <1>4, RowStep DEF BecomesDue, rowVars
    <2>3. RowsInv'
      BY <1>4 DEF BecomesDue, rowVars, IInv, RowsInv, RowOK
    <2> QED BY <2>1, <2>2, <2>3 DEF IInv
  <1>5. CASE PassesADay(d)
    <2>1. TypeOK'
      BY <1>5 DEF PassesADay, rowVars, boundVars, IInv, TypeOK
    <2>2. SlotsInv' /\ HandsInv'
      BY <1>5, RowStep DEF PassesADay, rowVars
    <2>3. RowsInv'
      BY <1>5 DEF PassesADay, rowVars, IInv, RowsInv, RowOK
    <2> QED BY <2>1, <2>2, <2>3 DEF IInv
  <1> QED BY <1>2, <1>3, <1>4, <1>5

\* The types of everything but the slots.
RestOK ==
    /\ status \in [Rows -> Status]
    /\ attemptCount \in [Rows -> 0..MaxAttempts]
    /\ nextAttempt \in [Rows -> 0..MaxAttempts]
    /\ due \subseteq Rows
    /\ aged \subseteq Rows
    /\ received \in [Rows -> Nat]
    /\ replays \in 0..MaxReplays
    /\ throws \in 0..MaxThrows
    /\ crashes \in 0..MaxCrashes

LEMMA TypeParts ==
    ASSUME IInv
    PROVE  RestOK /\ disp \in [Dispatchers -> Slot]
  BY DEF IInv, TypeOK, RestOK, Slot, Labels

LEMMA Assemble ==
    ASSUME RestOK', disp' \in [Dispatchers -> Slot], SlotsInv', HandsInv', RowsInv'
    PROVE  IInv'
  BY DEF IInv, TypeOK, RestOK, Slot, Labels

\* A step that changes nothing but the slot of w.
LEMMA LocalStep ==
    ASSUME IInv, NEW w \in Dispatchers, NEW s \in Slot,
           disp' = [disp EXCEPT ![w] = s], LabelsOK(s), CopiesOK(s),
           Hand(s) \subseteq Hand(disp[w]),
           UNCHANGED <<rowVars, timeVars, received, replays>>,
           throws' \in 0..MaxThrows, crashes' \in 0..MaxCrashes
    PROVE  IInv'
  <1>1. RestOK /\ RestOK'
    BY TypeParts DEF RestOK, rowVars, timeVars
  <1>2. CopiesOK(s)'
    BY DEF CopiesOK, rowVars, timeVars
  <1>3. received \in [Rows -> Nat] /\ received' \in [Rows -> Nat]
        /\ \A d \in Rows : received'[d] >= received[d]
    BY <1>1 DEF RestOK
  <1>4. \A v \in Dispatchers \ {w} : Hand(disp[v]) \cap Hand(s) = {}
    BY SlotFacts
  <1>u. status' = status /\ attemptCount' = attemptCount /\ aged \subseteq aged'
    BY DEF rowVars, timeVars
  <1>5. disp' \in [Dispatchers -> Slot] /\ SlotsInv' /\ HandsInv'
    BY <1>u, <1>2, <1>3, <1>4, SlotStep
  <1>6. RowsInv'
    BY DEF IInv, RowsInv, RowOK, rowVars, timeVars
  <1> QED
    BY <1>1, <1>5, <1>6, Assemble

\* Steps that change no row.
LEMMA LocalActions ==
    ASSUME IInv, NEW w \in Dispatchers,
           FindDue(w) \/ StartSending(w) \/ MarkThrows(w) \/ DispatcherDies(w)
    PROVE  IInv'
  <1> USE WebhookAssumption
  <1>r. RestOK /\ disp \in [Dispatchers -> Slot] /\ throws \in 0..MaxThrows
        /\ crashes \in 0..MaxCrashes
    BY TypeParts DEF RestOK
  <1>w. disp[w] \in Slot /\ LabelsOK(disp[w]) /\ CopiesOK(disp[w])
    BY SlotFacts
  <1>i. Idle \in Slot /\ LabelsOK(Idle) /\ CopiesOK(Idle) /\ Hand(Idle) \subseteq Hand(disp[w])
    BY IdleSlot DEF CopiesOK
  <1>1. CASE FindDue(w)
    <2> DEFINE copy(d) == [status |-> status[d], next |-> nextAttempt[d],
                           attempts |-> attemptCount[d], aged |-> d \in aged]
               snap == [d \in Rows |-> IF d \in DueRows THEN copy(d) ELSE NoSnapshot]
               s == [disp[w] EXCEPT !.pc = "claim", !.seen = DueRows, !.snap = snap]
    <2>1. DueRows \subseteq Rows
          /\ \A d \in DueRows : status[d] \in {"pending", "retrying"}
      BY <1>r DEF DueRows, RestOK
    <2>2. \A d \in DueRows : copy(d) \in Snapshot
      BY <2>1, <1>r DEF RestOK, Snapshot
    <2>3. NoSnapshot \in Snapshot
      BY DEF NoSnapshot, Snapshot
    <2>4. snap \in [Rows -> Snapshot]
      BY <2>2, <2>3
    <2>5. \A d \in DueRows : snap[d].attempts = snap[d].next /\ (snap[d].aged => d \in aged)
      BY <2>1 DEF IInv, RowsInv, RowOK
    <2>6. disp' = [disp EXCEPT ![w].pc = "claim", ![w].seen = DueRows, ![w].snap = snap]
          /\ disp[w].pc = "idle"
      BY <1>1 DEF FindDue
    <2> HIDE DEF snap
    <2>7. s \in Slot /\ s.pc = "claim" /\ s.seen = DueRows /\ s.snap = snap
          /\ s.claimed = disp[w].claimed /\ s.row = disp[w].row
      BY <1>w, <2>1, <2>4 DEF Slot, Labels
    <2>8. disp' = [disp EXCEPT ![w] = s]
      BY <2>6, <1>r
    <2>9. s.claimed = {} /\ s.row = None
      BY <2>6, <2>7, <1>w DEF LabelsOK
    <2> HIDE DEF s
    <2>10. LabelsOK(s) /\ Hand(s) = {}
      BY <2>7, <2>9 DEF LabelsOK, Hand
    <2>11. CopiesOK(s)
      BY <2>5, <2>7, <2>10 DEF CopiesOK
    <2> QED
      BY <1>1, <1>r, <2>7, <2>8, <2>10, <2>11, LocalStep DEF FindDue, boundVars
  <1>2. CASE StartSending(w)
    <2>1. CASE disp[w].claimed = {}
      BY <1>2, <2>1, <1>i, <1>r, LocalStep DEF StartSending, boundVars
    <2>2. CASE disp[w].claimed # {}
      <3> DEFINE s == [disp[w] EXCEPT !.pc = "send"]
      <3>1. s \in Slot /\ s.pc = "send" /\ s.seen = disp[w].seen /\ s.snap = disp[w].snap
            /\ s.claimed = disp[w].claimed /\ s.row = disp[w].row
        BY <1>w DEF Slot, Labels
      <3>2. disp' = [disp EXCEPT ![w] = s] /\ disp[w].pc = "claim" /\ disp[w].seen = {}
        BY <1>2, <2>2 DEF StartSending
      <3> HIDE DEF s
      <3>3. Hand(s) = Hand(disp[w]) /\ LabelsOK(s) /\ CopiesOK(s)
        BY <3>1, <3>2, <1>w DEF Hand, LabelsOK, CopiesOK
      <3> QED
        BY <1>2, <1>r, <3>1, <3>2, <3>3, LocalStep DEF StartSending, boundVars
    <2> QED BY <2>1, <2>2
  <1>3. CASE MarkThrows(w)
    <2> DEFINE s == [disp[w] EXCEPT !.pc = "fail"]
    <2>1. s \in Slot /\ s.pc = "fail" /\ s.seen = disp[w].seen /\ s.snap = disp[w].snap
          /\ s.claimed = disp[w].claimed /\ s.row = disp[w].row
      BY <1>w DEF Slot, Labels
    <2>2. disp' = [disp EXCEPT ![w].pc = "fail"] /\ disp[w].pc \in {"deliver", "refuse"}
      BY <1>3 DEF MarkThrows
    <2>3. disp' = [disp EXCEPT ![w] = s]
      BY <2>2, <1>r
    <2> HIDE DEF s
    <2>4. Hand(s) = Hand(disp[w]) /\ LabelsOK(s) /\ CopiesOK(s)
      BY <2>1, <2>2, <1>w DEF Hand, LabelsOK, CopiesOK
    <2>5. throws' \in 0..MaxThrows
      BY <1>3, <1>r DEF MarkThrows
    <2> QED
      BY <1>3, <1>r, <2>1, <2>3, <2>4, <2>5, LocalStep DEF MarkThrows
  <1>4. CASE DispatcherDies(w)
    <2>1. crashes' \in 0..MaxCrashes
      BY <1>4, <1>r DEF DispatcherDies
    <2> QED
      BY <1>4, <1>r, <1>i, <2>1, LocalStep DEF DispatcherDies
  <1> QED BY <1>1, <1>2, <1>3, <1>4

LEMMA KeptCopy ==
    ASSUME NEW snap \in Snapshot
    PROVE  Kept(snap) \in Snapshot /\ Kept(snap).attempts = snap.attempts
           /\ Kept(snap).aged = snap.aged
  <1>1. 0 \in 0..MaxAttempts
    BY WebhookAssumption
  <1> QED BY <1>1 DEF Kept, Snapshot

LEMMA ClaimAction ==
    ASSUME IInv, NEW w \in Dispatchers, ClaimRow(w)
    PROVE  IInv'
  <1> USE WebhookAssumption
  <1>r. RestOK /\ disp \in [Dispatchers -> Slot]
    BY TypeParts
  <1>w. disp[w] \in Slot /\ LabelsOK(disp[w]) /\ CopiesOK(disp[w])
    BY SlotFacts
  <1>p. PICK d \in disp[w].seen :
        LET snap == disp[w].snap[d]
            same == status[d] = snap.status /\ nextAttempt[d] = snap.next
        IN  /\ disp[w].pc = "claim"
            /\ status' = IF same THEN [status EXCEPT ![d] = "delivering"] ELSE status
            /\ disp' = [disp EXCEPT ![w].seen = @ \ {d},
                                    ![w].claimed = IF same THEN @ \cup {d} ELSE @,
                                    ![w].snap[d] = IF same THEN Kept(snap) ELSE NoSnapshot]
            /\ UNCHANGED <<attemptCount, nextAttempt, timeVars, received, boundVars>>
    BY DEF ClaimRow
  <1> DEFINE snap == disp[w].snap[d]
             same == status[d] = snap.status /\ nextAttempt[d] = snap.next
  <1>1. d \in Rows /\ snap \in Snapshot /\ disp[w].pc = "claim" /\ d \notin disp[w].claimed
        /\ disp[w].row = None
    BY <1>p, <1>w DEF Slot, LabelsOK
  <1>2. CASE ~same
    <2> DEFINE s == [disp[w] EXCEPT !.seen = @ \ {d}, !.snap[d] = NoSnapshot]
    <2>1. NoSnapshot \in Snapshot
      BY DEF NoSnapshot, Snapshot
    <2>2. [disp[w].snap EXCEPT ![d] = NoSnapshot] \in [Rows -> Snapshot]
      BY <2>1, <1>w, <1>1 DEF Slot
    <2>3. s \in Slot /\ s.pc = "claim" /\ s.seen = disp[w].seen \ {d}
          /\ s.claimed = disp[w].claimed /\ s.row = None
          /\ \A e \in Rows \ {d} : s.snap[e] = disp[w].snap[e]
      BY <2>2, <1>w, <1>1 DEF Slot
    <2>4. disp' = [disp EXCEPT ![w] = s]
      BY <1>p, <1>2, <1>r
    <2> HIDE DEF s
    <2>5. LabelsOK(s) /\ Hand(s) = Hand(disp[w])
      BY <2>3, <1>1, <1>w DEF LabelsOK, Hand
    <2>6. CopiesOK(s)
      BY <2>3, <2>5, <1>1, <1>w DEF CopiesOK, Slot, Hand
    <2>7. UNCHANGED <<rowVars, timeVars, received, boundVars>>
      BY <1>p, <1>2 DEF rowVars
    <2> QED
      BY <1>r, <2>3, <2>4, <2>5, <2>6, <2>7, LocalStep DEF RestOK, boundVars
  <1>3. CASE same
    <2>s. PICK s : s = [disp[w] EXCEPT !.seen = @ \ {d}, !.claimed = @ \cup {d},
                                       !.snap[d] = Kept(snap)]
      OBVIOUS
    <2>1. Kept(snap) \in Snapshot /\ Kept(snap).attempts = snap.attempts
          /\ Kept(snap).aged = snap.aged
      BY <1>1, KeptCopy
    <2>2. [disp[w].snap EXCEPT ![d] = Kept(snap)] \in [Rows -> Snapshot]
      BY <2>1, <1>w, <1>1 DEF Slot
    <2>3. s \in Slot /\ s.pc = "claim" /\ s.seen = disp[w].seen \ {d}
          /\ s.claimed = disp[w].claimed \cup {d} /\ s.row = None
          /\ s.snap[d] = Kept(snap)
          /\ \A e \in Rows \ {d} : s.snap[e] = disp[w].snap[e]
      BY <2>s, <2>2, <1>w, <1>1 DEF Slot
    <2>4. disp' = [disp EXCEPT ![w] = s]
      BY <2>s, <1>p, <1>3, <1>r
    <2>5. status' = [status EXCEPT ![d] = "delivering"]
      BY <1>p, <1>3
    <2>6. UNCHANGED <<attemptCount, nextAttempt, timeVars, received, boundVars>>
      BY <1>p
    <2>7. status[d] \in {"pending", "retrying"} /\ snap.attempts = snap.next
          /\ (snap.aged => d \in aged) /\ snap.next = nextAttempt[d]
      BY <1>1, <1>3, <1>w DEF Snapshot, CopiesOK
    <2>8. nextAttempt[d] = attemptCount[d]
      BY <2>7, <1>1 DEF IInv, RowsInv, RowOK
    <2>9. LabelsOK(s) /\ Hand(s) = Hand(disp[w]) \cup {d}
      BY <2>3, <1>1, <1>w DEF LabelsOK, Hand
    <2>10. CopiesOK(s)'
      <3>1. ASSUME NEW e \in disp[w].seen \ {d}
            PROVE  s.snap[e].attempts = s.snap[e].next /\ (s.snap[e].aged => e \in aged')
        BY <1>w, <2>3, <2>6 DEF CopiesOK, Slot, timeVars
      <3>2. ASSUME NEW e \in Hand(disp[w])
            PROVE  /\ status'[e] = "delivering"
                   /\ s.snap[e].attempts = attemptCount'[e]
                   /\ s.snap[e].aged => e \in aged'
        <4>1. e \in Rows /\ e # d
          BY <1>1, <1>w DEF Hand, Slot
        <4> QED
          BY <4>1, <1>r, <1>w, <2>3, <2>5, <2>6 DEF CopiesOK, timeVars, RestOK
      <3>3. /\ status'[d] = "delivering"
            /\ s.snap[d].attempts = attemptCount'[d]
            /\ s.snap[d].aged => d \in aged'
        BY <1>1, <1>r, <2>1, <2>3, <2>5, <2>6, <2>7, <2>8 DEF timeVars, RestOK
      <3> QED
        BY <3>1, <3>2, <3>3, <2>3, <2>9, <1>1 DEF CopiesOK, Hand
    <2>11. \A v \in Dispatchers \ {w} :
              /\ Hand(disp[v]) \cap Hand(s) = {}
              /\ \A e \in Hand(disp[v]) : status'[e] = status[e] /\ attemptCount'[e] = attemptCount[e]
      <3>1. ASSUME NEW v \in Dispatchers \ {w}
            PROVE  /\ d \notin Hand(disp[v]) /\ Hand(disp[v]) \subseteq Rows
                   /\ Hand(disp[v]) \cap Hand(disp[w]) = {}
        BY <2>7, SlotFacts DEF CopiesOK
      <3> QED
        BY <3>1, <2>5, <2>6, <2>9, <1>r DEF RestOK
    <2>12. RestOK'
      BY <1>r, <1>1, <2>5, <2>6 DEF RestOK, timeVars, boundVars, Status
    <2>u. /\ aged \subseteq aged' /\ received \in [Rows -> Nat] /\ received' \in [Rows -> Nat]
          /\ \A e \in Rows : received'[e] >= received[e]
      BY <1>r, <2>6 DEF RestOK, timeVars
    <2>13. disp' \in [Dispatchers -> Slot] /\ SlotsInv' /\ HandsInv'
      BY <2>3, <2>4, <2>9, <2>10, <2>11, <2>u, SlotStep
    <2>14. RowsInv'
      BY <1>1, <1>r, <2>5, <2>6, <2>7 DEF IInv, RowsInv, RowOK, RestOK, timeVars
    <2> QED
      BY <2>12, <2>13, <2>14, Assemble
  <1> QED BY <1>2, <1>3

\* A claimed row is taken, and perhaps accepted by the endpoint.
LEMMA TakeStep ==
    ASSUME IInv, NEW w \in Dispatchers, NEW d \in disp[w].claimed,
           NEW pc \in {"deliver", "refuse", "fail"}, Take(w, d, pc),
           UNCHANGED <<rowVars, timeVars, boundVars>>,
           \/ received' = [received EXCEPT ![d] = @ + 1]
           \/ pc # "deliver" /\ received' = received
    PROVE  IInv'
  <1>r. RestOK /\ disp \in [Dispatchers -> Slot]
    BY TypeParts
  <1>w. disp[w] \in Slot /\ LabelsOK(disp[w]) /\ CopiesOK(disp[w])
    BY SlotFacts
  <1>s. PICK s : s = [disp[w] EXCEPT !.pc = pc, !.row = d, !.claimed = @ \ {d}]
    OBVIOUS
  <1>1. d \in Rows /\ disp[w].pc = "send" /\ disp[w].row = None /\ disp[w].seen = {}
    BY <1>w DEF Slot, LabelsOK, Take
  <1>2. s \in Slot /\ s.pc = pc /\ s.seen = {} /\ s.claimed = disp[w].claimed \ {d}
        /\ s.row = d /\ s.snap = disp[w].snap
    BY <1>s, <1>w, <1>1 DEF Slot, Labels
  <1>3. disp' = [disp EXCEPT ![w] = s]
    BY <1>s, <1>r DEF Take
  <1>4. LabelsOK(s) /\ Hand(s) = Hand(disp[w])
    BY <1>1, <1>2, WebhookAssumption DEF LabelsOK, Hand
  <1>5. UNCHANGED <<status, attemptCount, nextAttempt, due, aged>>
        /\ UNCHANGED <<replays, throws, crashes>>
    BY DEF rowVars, timeVars, boundVars
  <1>6. /\ received' \in [Rows -> Nat]
        /\ \A e \in Rows : received'[e] >= received[e]
        /\ pc = "deliver" => received'[d] >= 1
    BY <1>1, <1>r DEF RestOK
  <1>7. CopiesOK(s)'
    <2>1. Hand(s)' = Hand(s)
      BY DEF Hand
    <2>2. \A e \in Hand(s) : /\ status[e] = "delivering"
                             /\ s.snap[e].attempts = attemptCount[e]
                             /\ s.snap[e].aged => e \in aged
      BY <1>w, <1>2, <1>4 DEF CopiesOK
    <2>3. s.pc = "deliver" => received'[s.row] >= 1
      BY <1>2, <1>6
    <2> QED
      BY <1>2, <1>5, <2>1, <2>2, <2>3 DEF CopiesOK
  <1>8. RestOK'
    BY <1>r, <1>5, <1>6 DEF RestOK
  <1>9. \A v \in Dispatchers \ {w} : Hand(disp[v]) \cap Hand(s) = {}
    BY <1>4, SlotFacts
  <1>10. aged \subseteq aged' /\ received \in [Rows -> Nat]
    BY <1>5, <1>r DEF RestOK
  <1>11. disp' \in [Dispatchers -> Slot] /\ SlotsInv' /\ HandsInv'
    BY <1>2, <1>3, <1>4, <1>5, <1>6, <1>7, <1>9, <1>10, SlotStep
  <1>12. RowsInv'
    <2>1. ASSUME NEW e \in Rows PROVE RowOK(e)'
      <3>1. RowOK(e) /\ received[e] \in Nat /\ received'[e] \in Nat /\ received'[e] >= received[e]
        BY <1>r, <1>6 DEF IInv, RowsInv, RestOK
      <3> QED
        BY <3>1, <1>5 DEF RowOK
    <2> QED
      BY <2>1 DEF RowsInv
  <1> QED
    BY <1>8, <1>11, <1>12, Assemble

LEMMA SendActions ==
    ASSUME IInv, NEW w \in Dispatchers,
           EndpointAccepts(w) \/ EndpointRefuses(w) \/ FetchThrows(w)
    PROVE  IInv'
  <1>1. CASE EndpointAccepts(w)
    BY <1>1, TakeStep DEF EndpointAccepts
  <1>2. CASE EndpointRefuses(w)
    <2>1. PICK d \in disp[w].claimed :
             Take(w, d, "refuse") /\ UNCHANGED <<rowVars, timeVars, received, boundVars>>
      BY <1>2 DEF EndpointRefuses
    <2> QED BY <2>1, TakeStep
  <1>3. CASE FetchThrows(w)
    <2>1. PICK d \in disp[w].claimed :
             /\ Take(w, d, "fail")
             /\ UNCHANGED received \/ received' = [received EXCEPT ![d] = @ + 1]
             /\ UNCHANGED <<rowVars, timeVars, boundVars>>
      BY <1>3 DEF FetchThrows
    <2> QED BY <2>1, TakeStep
  <1> QED BY <1>1, <1>2, <1>3

\* The slot a dispatcher goes on with after row d.
LEMMA NextSlot ==
    ASSUME IInv, NEW w \in Dispatchers, disp[w].pc \in {"deliver", "refuse", "fail"},
           NextRow(w)
    PROVE  \E s \in Slot :
              /\ disp' = [disp EXCEPT ![w] = s]
              /\ LabelsOK(s) /\ s.pc # "deliver" /\ s.seen = {}
              /\ Hand(s) = Hand(disp[w]) \ {disp[w].row}
              /\ \A e \in Hand(s) : s.snap[e] = disp[w].snap[e]
  <1>r. RestOK /\ disp \in [Dispatchers -> Slot]
    BY TypeParts
  <1>w. disp[w] \in Slot /\ LabelsOK(disp[w])
    BY SlotFacts
  <1>d. disp[w].row \in Rows \ disp[w].claimed /\ disp[w].seen = {}
    BY <1>w DEF LabelsOK
  <1>1. CASE disp[w].claimed = {}
    <2>1. disp' = [disp EXCEPT ![w] = Idle]
      BY <1>1 DEF NextRow
    <2>2. Hand(disp[w]) \ {disp[w].row} = {}
      BY <1>1 DEF Hand
    <2> QED BY <2>1, <2>2, IdleSlot
  <1>2. CASE disp[w].claimed # {}
    <2>s. PICK s : s = [disp[w] EXCEPT !.pc = "send", !.row = None,
                                       !.snap[disp[w].row] = NoSnapshot]
      OBVIOUS
    <2>1. NoSnapshot \in Snapshot
      BY WebhookAssumption DEF NoSnapshot, Snapshot
    <2>2. [disp[w].snap EXCEPT ![disp[w].row] = NoSnapshot] \in [Rows -> Snapshot]
      BY <2>1, <1>w, <1>d DEF Slot
    <2>3. s \in Slot /\ s.pc = "send" /\ s.seen = disp[w].seen
          /\ s.claimed = disp[w].claimed /\ s.row = None
          /\ \A e \in Rows \ {disp[w].row} : s.snap[e] = disp[w].snap[e]
      BY <2>s, <2>2, <1>w, <1>d DEF Slot, Labels
    <2>4. disp' = [disp EXCEPT ![w] = s]
      BY <2>s, <1>2 DEF NextRow
    <2>5. LabelsOK(s) /\ Hand(s) = disp[w].claimed /\ s.seen = {} /\ disp[w].claimed \subseteq Rows
      BY <2>3, <1>d, <1>w DEF LabelsOK, Hand, Slot
    <2>6. Hand(s) = Hand(disp[w]) \ {disp[w].row}
      BY <2>5, <1>d DEF Hand
    <2>7. \A e \in Hand(s) : s.snap[e] = disp[w].snap[e]
      BY <2>3, <2>5, <1>d
    <2> QED BY <2>3, <2>4, <2>5, <2>6, <2>7
  <1> QED BY <1>1, <1>2

\* The row in hand of a dispatcher is settled.
LEMMA MarkStep ==
    ASSUME IInv, NEW w \in Dispatchers, disp[w].pc \in {"deliver", "refuse", "fail"},
           NextRow(w), RestOK', UNCHANGED <<aged, received>>,
           \A e \in Rows \ {disp[w].row} :
               status'[e] = status[e] /\ attemptCount'[e] = attemptCount[e]
    PROVE  disp' \in [Dispatchers -> Slot] /\ SlotsInv' /\ HandsInv'
  <1>r. RestOK
    BY TypeParts
  <1>w. LabelsOK(disp[w]) /\ CopiesOK(disp[w]) /\ Hand(disp[w]) \subseteq Rows
    BY SlotFacts
  <1>d. disp[w].row \in Hand(disp[w])
    BY <1>w, WebhookAssumption DEF LabelsOK, Hand
  <1>s. PICK s \in Slot :
              /\ disp' = [disp EXCEPT ![w] = s]
              /\ LabelsOK(s) /\ s.pc # "deliver" /\ s.seen = {}
              /\ Hand(s) = Hand(disp[w]) \ {disp[w].row}
              /\ \A e \in Hand(s) : s.snap[e] = disp[w].snap[e]
    BY NextSlot
  <1>1. CopiesOK(s)'
    <2>1. Hand(s)' = Hand(s)
      BY DEF Hand
    <2>2. ASSUME NEW e \in Hand(s)
          PROVE  /\ status'[e] = "delivering"
                 /\ s.snap[e].attempts = attemptCount'[e]
                 /\ s.snap[e].aged => e \in aged'
      BY <1>s, <1>w DEF CopiesOK
    <2> QED
      BY <1>s, <2>1, <2>2 DEF CopiesOK
  <1>2. \A v \in Dispatchers \ {w} :
            /\ Hand(disp[v]) \cap Hand(s) = {}
            /\ \A e \in Hand(disp[v]) :
                  status'[e] = status[e] /\ attemptCount'[e] = attemptCount[e]
    <2>1. ASSUME NEW v \in Dispatchers \ {w}
          PROVE  /\ Hand(disp[v]) \cap Hand(disp[w]) = {} /\ Hand(disp[v]) \subseteq Rows
      BY SlotFacts
    <2> QED BY <2>1, <1>s, <1>d
  <1>3. /\ aged \subseteq aged' /\ received \in [Rows -> Nat] /\ received' \in [Rows -> Nat]
        /\ \A e \in Rows : received'[e] >= received[e]
    BY <1>r DEF RestOK
  <1> QED
    BY <1>s, <1>1, <1>2, <1>3, SlotStep

LEMMA MarkActions ==
    ASSUME IInv, NEW w \in Dispatchers, MarkDelivered(w) \/ MarkFailure(w)
    PROVE  IInv'
  <1> USE WebhookAssumption
  <1> DEFINE d == disp[w].row
  <1>r. RestOK
    BY TypeParts
  <1>p. disp[w].pc \in {"deliver", "refuse", "fail"} /\ NextRow(w)
    BY DEF MarkDelivered, MarkFailure
  <1>w. LabelsOK(disp[w]) /\ CopiesOK(disp[w]) /\ Hand(disp[w]) \subseteq Rows
    BY SlotFacts
  <1>d. d \in Rows /\ d \in Hand(disp[w])
    BY <1>w, <1>p DEF LabelsOK, Hand
  <1>c. /\ status[d] = "delivering" /\ disp[w].snap[d].attempts = attemptCount[d]
        /\ disp[w].snap[d].aged => d \in aged
    BY <1>w, <1>d DEF CopiesOK
  <1>n. nextAttempt[d] = attemptCount[d] /\ attemptCount[d] < MaxAttempts
        /\ attemptCount[d] \in 0..MaxAttempts
    BY <1>c, <1>d, <1>r DEF IInv, RowsInv, RowOK, RestOK
  <1> DEFINE k == attemptCount[d] + 1
  <1>k. k \in 0..MaxAttempts
    BY <1>n
  <1>1. CASE MarkDelivered(w)
    <2>1. /\ status' = [status EXCEPT ![d] = "delivered"]
          /\ attemptCount' = [attemptCount EXCEPT ![d] = k]
          /\ UNCHANGED <<nextAttempt, due, aged, received, replays, throws, crashes>>
          /\ disp[w].pc = "deliver"
      BY <1>1 DEF MarkDelivered, timeVars, boundVars
    <2>2. RestOK'
      BY <2>1, <1>r, <1>d, <1>k DEF RestOK, Status
    <2>3. disp' \in [Dispatchers -> Slot] /\ SlotsInv' /\ HandsInv'
      BY <2>1, <2>2, <1>p, <1>r, MarkStep DEF RestOK
    <2>4. received[d] >= 1
      BY <2>1, <1>w DEF CopiesOK
    <2>5. RowsInv'
      BY <2>1, <2>4, <1>r, <1>d DEF RestOK, IInv, RowsInv, RowOK
    <2> QED BY <2>2, <2>3, <2>5, Assemble
  <1>2. CASE MarkFailure(w)
    <2> DEFINE dead == ShouldDeadLetter(disp[w].snap[d])
    <2>1. /\ status' = [status EXCEPT ![d] = IF dead THEN "dead_letter" ELSE "retrying"]
          /\ attemptCount' = [attemptCount EXCEPT ![d] = k]
          /\ nextAttempt' = [nextAttempt EXCEPT ![d] = k]
          /\ due' = due \ {d}
          /\ UNCHANGED <<aged, received, replays, throws, crashes>>
      BY <1>2, <1>n, <1>r, <1>d DEF MarkFailure, boundVars, RestOK
    <2>2. dead => k = MaxAttempts \/ d \in aged
      BY <1>c, <1>n DEF ShouldDeadLetter
    <2>3. ~dead => k < MaxAttempts
      BY <1>c, <1>n DEF ShouldDeadLetter
    <2> HIDE DEF dead
    <2>4. RestOK'
      BY <2>1, <1>r, <1>d, <1>k DEF RestOK, Status
    <2>5. disp' \in [Dispatchers -> Slot] /\ SlotsInv' /\ HandsInv'
      BY <2>1, <2>4, <1>p, <1>r, MarkStep DEF RestOK
    <2>6. RowsInv'
      <3>1. ASSUME NEW e \in Rows PROVE RowOK(e)'
        <4>1. CASE e # d
          BY <4>1, <2>1, <1>r DEF IInv, RowsInv, RowOK, RestOK
        <4>2. CASE e = d
          <5>1. attemptCount'[d] = k /\ nextAttempt'[d] = k
                /\ status'[d] = IF dead THEN "dead_letter" ELSE "retrying"
            BY <2>1, <1>r, <1>d DEF RestOK
          <5> QED BY <4>2, <5>1, <2>1, <2>2, <2>3 DEF RowOK
        <4> QED BY <4>1, <4>2
      <3> QED BY <3>1 DEF RowsInv
    <2> QED BY <2>4, <2>5, <2>6, Assemble
  <1> QED BY <1>1, <1>2

LEMMA Stuttering == IInv /\ UNCHANGED vars => IInv'
  <1> SUFFICES ASSUME IInv, UNCHANGED vars PROVE IInv'
    OBVIOUS
  <1>u. UNCHANGED <<status, attemptCount, nextAttempt, due, aged, received, disp, replays,
                    throws, crashes>>
    BY DEF vars, rowVars, timeVars, boundVars
  <1>1. TypeOK'
    BY <1>u DEF IInv, TypeOK
  <1>2. SlotsInv' /\ HandsInv'
    BY <1>u, RowStep
  <1>3. RowsInv'
    BY <1>u DEF IInv, RowsInv, RowOK
  <1> QED BY <1>1, <1>2, <1>3 DEF IInv

LEMMA Inductive == IInv /\ [Next]_vars => IInv'
  <1> SUFFICES ASSUME IInv, [Next]_vars PROVE IInv'
    OBVIOUS
  <1>1. ASSUME NEW d \in Rows,
               \/ Enqueue(d) \/ BecomesDue(d) \/ PassesADay(d)
               \/ \E copy \in Rows : ReplayDelivery(d, copy)
        PROVE  IInv'
    BY <1>1, RowActions
  <1>2. ASSUME NEW w \in Dispatchers, Dispatch(w) \/ MarkThrows(w) \/ DispatcherDies(w)
        PROVE  IInv'
    <2>1. CASE FindDue(w) \/ StartSending(w) \/ MarkThrows(w) \/ DispatcherDies(w)
      BY <2>1, LocalActions
    <2>2. CASE ClaimRow(w)
      BY <2>2, ClaimAction
    <2>3. CASE EndpointAccepts(w) \/ EndpointRefuses(w) \/ FetchThrows(w)
      BY <2>3, SendActions
    <2>4. CASE MarkDelivered(w) \/ MarkFailure(w)
      BY <2>4, MarkActions
    <2> QED BY <1>2, <2>1, <2>2, <2>3, <2>4 DEF Dispatch
  <1> QED BY <1>1, <1>2, Stuttering DEF Next

-----------------------------------------------------------------------------
(* The theorems.                                                           *)

LEMMA Invariance == Spec => []IInv
  BY Initially, Inductive, PTL DEF Spec

\* For every number of rows, loops and attempts, what the delivery service
\* and the dispatcher loops write is of its type: in particular no row counts
\* more than MaxAttempts attempts, however claims, replays and deaths fall.
THEOREM TypeCorrect == Spec => []TypeOK
  <1>1. IInv => TypeOK
    BY DEF IInv
  <1> QED BY <1>1, Invariance, PTL

\* The compare-and-set of claimDueBatch is enough for any number of duplicate
\* loops: no two of them have a row in hand, and what one has in hand is
\* delivering.
THEOREM ClaimedByOne == Spec => []ClaimedOnce
  <1>1. IInv => ClaimedOnce
    <2> SUFFICES ASSUME IInv PROVE ClaimedOnce
      OBVIOUS
    <2>1. \A w \in Dispatchers : InHand(w) = Hand(disp[w])
      BY DEF InHand, Hand
    <2>2. \A v, w \in Dispatchers : v # w => InHand(v) \cap InHand(w) = {}
      BY <2>1 DEF IInv, HandsInv
    <2>3. \A w \in Dispatchers : \A d \in InHand(w) : status[d] = "delivering"
      BY <2>1 DEF IInv, SlotsInv, CopiesOK
    <2> QED BY <2>2, <2>3 DEF ClaimedOnce
  <1> QED BY <1>1, Invariance, PTL

\* Although markFailure decides by the attempts of a copy and the age the copy
\* had when it was found, a row is given up only after its last attempt or its
\* first day; and delivered is never written of a payload nobody accepted.
THEOREM OutcomesJustified == Spec => []OutcomeIsJustified
  <1>1. IInv => OutcomeIsJustified
    BY DEF IInv, RowsInv, RowOK, OutcomeIsJustified
  <1> QED BY <1>1, Invariance, PTL
=============================================================================
