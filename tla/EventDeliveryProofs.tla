------------------------ MODULE EventDeliveryProofs ------------------------
(***************************************************************************)
(* What holds of EventDelivery for every set of events, every number of    *)
(* requests and relays, and every number of throws and deaths.             *)
(***************************************************************************)
EXTENDS EventDelivery, TLAPS

-----------------------------------------------------------------------------
(* Types, and the rows a relay has in hand.                                *)

\* A request past its first statement is about an event.
CallerLocals ==
    \A c \in Callers : caller[c].pc # "idle" => caller[c].event \in Events

\* Two transactions never insert the same event, and none inserts an event
\* that is stored: the unique key at work.
InsertInv ==
    /\ \A c \in Callers :
          caller[c].pc \in {"parent", "waiting", "commit"} =>
              /\ caller[c].event \notin stored
              /\ \A d \in Callers \ {c} :
                    caller[d].pc \in {"parent", "waiting", "commit"} =>
                        caller[d].event # caller[c].event
    /\ \A e \in Events : outbox[e] # "absent" => e \in stored

\* A row in a relay's batch is in_progress and has attempts left, and no other
\* relay has it; the row being recorded or requeued is one of the batch.
BatchInv ==
    /\ \A r \in Relays :
          /\ relay[r].pc = "idle" => relay[r].batch = {}
          /\ relay[r].pc \in {"record", "requeue"} => relay[r].row \in relay[r].batch
          /\ \A e \in relay[r].batch :
                outbox[e] = "in_progress" /\ attempts[e] < MaxAttempts
    /\ ClaimedByOneRelay

TypeInv == TypeOK /\ CallerLocals /\ InsertInv /\ BatchInv

LEMMA TypeInit == Init => TypeInv
  BY DeliveryAssumption
     DEF Init, TypeInv, TypeOK, CallerLocals, InsertInv, BatchInv,
         ClaimedByOneRelay, IdleCaller, IdleRelay

\* What a batch is taken from.
LEMMA BatchIsClaimable ==
    ASSUME NEW k, NEW batch \in kSubset(k, Claimable)
    PROVE  /\ batch \subseteq Events
           /\ \A e \in batch : outbox[e] = "pending" /\ attempts[e] < MaxAttempts
  BY DEF kSubset, Claimable

CallerState ==
    [pc : {"idle", "insert", "parent", "waiting", "commit", "screen", "lost"},
     event : Events \cup {None}, links : SUBSET (Events \X Events)]

\* What a step of slot c does to the slots keeps the invariant if it stores no
\* event and takes the slot into a transaction only as the unique key allows.
LEMMA CallerStep ==
    ASSUME TypeInv, NEW c \in Callers,
           caller' \in [Callers -> CallerState],
           \A d \in Callers \ {c} : caller'[d] = caller[d],
           caller'[c].pc # "idle" => caller'[c].event \in Events,
           caller'[c].pc \in {"parent", "waiting", "commit"} =>
               /\ caller'[c].event \notin stored
               /\ \/ /\ caller[c].pc \in {"parent", "waiting", "commit"}
                     /\ caller[c].event = caller'[c].event
                  \/ ~InTransaction(caller'[c].event),
           UNCHANGED <<stored, link, historyVars, outboxVars, brokerVars>>,
           screened' \subseteq Events, accepted' \subseteq Events,
           throws' \in 0..MaxThrows, crashes' \in 0..MaxCrashes
    PROVE  TypeInv'
  <1>1. CallerLocals'
    BY DEF TypeInv, CallerLocals
  <1>2. InsertInv'
    BY DEF TypeInv, InsertInv, InTransaction, outboxVars
  <1>3. BatchInv'
    BY DEF TypeInv, BatchInv, ClaimedByOneRelay, outboxVars
  <1> QED
    BY <1>1, <1>2, <1>3
       DEF TypeInv, TypeOK, CallerState, historyVars, outboxVars, brokerVars

\* The types of one slot.
LEMMA CallerFields ==
    ASSUME TypeInv, NEW c \in Callers
    PROVE  /\ caller[c] \in CallerState
           /\ caller[c].pc # "idle" => caller[c].event \in Events
           /\ IdleCaller \in CallerState
           /\ throws \in 0..MaxThrows /\ crashes \in 0..MaxCrashes
           /\ screened \subseteq Events /\ accepted \subseteq Events
           /\ stored \subseteq Events
  BY DEF TypeInv, TypeOK, CallerLocals, CallerState, IdleCaller

\* Slot c's insert of a signal fails those of the rivals, field by field.
SignalKeyTaken(c, rivals) ==
    /\ caller[c].pc = "screen" /\ rivals # {}
    /\ caller' \in [Callers -> CallerState]
    /\ \A d \in rivals : /\ caller'[d].pc = "lost" /\ caller'[d].event = caller[d].event
    /\ \A d \in Callers \ rivals : caller'[d] = caller[d]
    /\ outrun' = outrun \cup {<<caller[d].event, caller[c].event>> : d \in rivals}
    /\ UNCHANGED <<stored, link, screened, accepted, crossed>>
    /\ UNCHANGED <<outboxVars, brokerVars, faultVars>>

LEMMA RecordSignalFacts ==
    ASSUME TypeInv, NEW c \in Callers, RecordSignal(c)
    PROVE  \E rivals \in SUBSET {d \in Callers \ {c} : caller[d].pc = "screen"} :
               SignalKeyTaken(c, rivals)
  <1>1. caller \in [Callers -> CallerState]
    BY DEF TypeInv, TypeOK, CallerState
  <1>2. PICK rivals \in SUBSET {d \in Callers \ {c} : caller[d].pc = "screen"} :
           /\ caller[c].pc = "screen" /\ rivals # {}
           /\ caller' = [d \in Callers |-> IF d \in rivals
                                          THEN [caller[d] EXCEPT !.pc = "lost"]
                                          ELSE caller[d]]
           /\ outrun' = outrun \cup {<<caller[d].event, caller[c].event>> : d \in rivals}
           /\ UNCHANGED <<stored, link, screened, accepted, crossed>>
           /\ UNCHANGED <<outboxVars, brokerVars, faultVars>>
    BY DEF RecordSignal
  <1>3. \A d \in Callers : /\ [caller[d] EXCEPT !.pc = "lost"] \in CallerState
                           /\ [caller[d] EXCEPT !.pc = "lost"].pc = "lost"
                           /\ [caller[d] EXCEPT !.pc = "lost"].event = caller[d].event
    BY <1>1 DEF CallerState
  <1>4. \A d \in Callers :
           caller'[d] = IF d \in rivals THEN [caller[d] EXCEPT !.pc = "lost"] ELSE caller[d]
    BY <1>2
  <1>5. caller' \in [Callers -> CallerState]
    BY <1>1, <1>2, <1>3
  <1> QED BY <1>2, <1>3, <1>4, <1>5 DEF SignalKeyTaken

LEMMA RequestType ==
    ASSUME TypeInv, NEW c \in Callers,
           \/ \E e \in Events : Ingest(c, e)
           \/ Request(c) \/ IngestFails(c)
    PROVE  TypeInv'
  <1> USE DeliveryAssumption
  <1> DEFINE e == caller[c].event
  <1>f. /\ caller \in [Callers -> CallerState]
        /\ caller[c] \in CallerState
        /\ caller[c].pc # "idle" => e \in Events
        /\ IdleCaller \in CallerState /\ IdleCaller.pc = "idle"
        /\ throws \in 0..MaxThrows /\ crashes \in 0..MaxCrashes
        /\ screened \subseteq Events /\ accepted \subseteq Events
        /\ stored \subseteq Events
    BY CallerFields DEF TypeInv, TypeOK, CallerState, IdleCaller
  \* The slot falls idle, or keeps its event under another label.
  <1>i. ASSUME caller' = [caller EXCEPT ![c] = IdleCaller],
               UNCHANGED <<stored, link, historyVars, outboxVars, brokerVars>>,
               screened' \subseteq Events, accepted' \subseteq Events,
               throws' \in 0..MaxThrows, crashes' \in 0..MaxCrashes
        PROVE  TypeInv'
    BY <1>i, <1>f, CallerStep
  <1>g. ASSUME NEW pc \in {"insert", "parent", "waiting", "commit"},
               NEW v \in Events,
               caller' \in [Callers -> CallerState],
               caller'[c].pc = pc /\ caller'[c].event = v,
               \A d \in Callers \ {c} : caller'[d] = caller[d],
               pc # "insert" =>
                   /\ v \notin stored
                   /\ \/ caller[c].pc \in {"parent", "waiting", "commit"} /\ e = v
                      \/ ~InTransaction(v),
               UNCHANGED <<stored, link, screened, accepted, historyVars>>,
               UNCHANGED <<outboxVars, brokerVars, throws, crashes>>
        PROVE  TypeInv'
    BY <1>g, <1>f, CallerStep
  \* While a transaction runs its event is not stored.
  <1>s. caller[c].pc \in {"parent", "waiting", "commit"} => e \notin stored
    BY DEF TypeInv, InsertInv
  <1>1. ASSUME NEW v \in Events, Ingest(c, v) PROVE TypeInv'
    <2>1. CASE v \in stored
      BY <1>1, <2>1, <1>i, <1>f DEF Ingest, Reply, faultVars
    <2>2. CASE v \notin stored
      <3>1. caller' \in [Callers -> CallerState]
        BY <1>1, <2>2, <1>f DEF Ingest, CallerState
      <3>2. /\ caller'[c].pc = "insert" /\ caller'[c].event = v
            /\ \A d \in Callers \ {c} : caller'[d] = caller[d]
        BY <1>1, <2>2, <1>f DEF Ingest, CallerState
      <3> QED
        BY <1>1, <2>2, <3>1, <3>2, <1>g DEF Ingest, faultVars
    <2> QED BY <2>1, <2>2
  <1>2. CASE InsertEvent(c)
    <2>1. CASE e \in stored
      BY <1>2, <2>1, <1>i, <1>f DEF InsertEvent, Reply, faultVars
    <2>2. CASE e \notin stored
      <3>1. caller' \in [Callers -> CallerState]
        BY <1>2, <2>2, <1>f DEF InsertEvent, CallerState
      <3>2. /\ caller'[c].pc = "parent" /\ caller'[c].event = e /\ e \in Events
            /\ \A d \in Callers \ {c} : caller'[d] = caller[d]
        BY <1>2, <2>2, <1>f DEF InsertEvent, CallerState
      <3> QED
        BY <1>2, <2>2, <3>1, <3>2, <1>g DEF InsertEvent, faultVars
    <2> QED BY <2>1, <2>2
  <1>3. CASE FindParent(c)
    <2> DEFINE links == {e} \X (Seen(e) \cap {Parent[e]})
    <2>1. e \in Events /\ caller[c].pc = "parent"
      BY <1>3, <1>f DEF FindParent
    <2>l. links \in SUBSET (Events \X Events)
      BY <2>1, <1>f DEF Seen
    <2>u. caller' = [caller EXCEPT ![c].pc = "waiting", ![c].links = links]
      BY <1>3 DEF FindParent
    <2> HIDE DEF links
    <2>3. caller' \in [Callers -> CallerState]
      BY <2>u, <2>l, <1>f DEF CallerState
    <2>q. /\ caller'[c].pc = "waiting" /\ caller'[c].event = e
          /\ \A d \in Callers \ {c} : caller'[d] = caller[d]
      BY <2>u, <1>f DEF CallerState
    <2> QED
      BY <1>3, <2>1, <2>3, <2>q, <1>g, <1>s DEF FindParent, faultVars
  <1>4. CASE FindWaiting(c)
    <2> DEFINE waiting == {d \in Seen(e) : Parent[d] = e}
               links == caller[c].links \cup (waiting \X {e})
    <2>1. e \in Events /\ caller[c].pc = "waiting"
      BY <1>4, <1>f DEF FindWaiting
    <2>2. caller[c].links \in SUBSET (Events \X Events)
      BY <1>f DEF CallerState
    <2>l. links \in SUBSET (Events \X Events)
      BY <2>1, <2>2, <1>f DEF Seen
    <2>u. caller' = [caller EXCEPT ![c].pc = "commit", ![c].links = links]
      BY <1>4 DEF FindWaiting
    <2> HIDE DEF links, waiting
    <2>4. caller' \in [Callers -> CallerState]
      BY <2>u, <2>l, <1>f DEF CallerState
    <2>q. /\ caller'[c].pc = "commit" /\ caller'[c].event = e
          /\ \A d \in Callers \ {c} : caller'[d] = caller[d]
      BY <2>u, <1>f DEF CallerState
    <2> QED
      BY <1>4, <2>1, <2>4, <2>q, <1>g, <1>s DEF FindWaiting, faultVars
  <1>5. CASE CommitEvent(c)
    <2>1. e \in Events /\ e \notin stored /\ outbox[e] = "absent"
      BY <1>5, <1>f, <1>s DEF CommitEvent, TypeInv, InsertInv
    <2>2. /\ caller'[c].pc = "screen" /\ caller'[c].event = e
          /\ \A d \in Callers \ {c} : caller'[d] = caller[d]
      BY <1>5, <1>f DEF CommitEvent, CallerState
    <2>3. caller' \in [Callers -> CallerState]
      BY <1>5, <1>f DEF CommitEvent, CallerState
    <2>4. CallerLocals'
      BY <2>1, <2>2 DEF TypeInv, CallerLocals
    <2>5. stored' = stored \cup {e} /\ outbox' = [outbox EXCEPT ![e] = "pending"]
      BY <1>5 DEF CommitEvent
    <2>6. outbox \in [Events -> {"absent", "pending", "in_progress", "dispatched"}]
      BY DEF TypeInv, TypeOK
    <2>7. caller[c].pc = "commit"
      BY <1>5 DEF CommitEvent
    <2>8. InsertInv'
      BY <2>1, <2>2, <2>5, <2>6, <2>7 DEF TypeInv, InsertInv
    <2>9. BatchInv'
      BY <1>5, <2>1, <2>5, <2>6 DEF CommitEvent, TypeInv, TypeOK, BatchInv,
         ClaimedByOneRelay
    <2>10. link' \subseteq Events \X Events
      BY <1>5, <1>f DEF CommitEvent, CallerState, TypeInv, TypeOK
    <2>11. \A d \in Events : Overlapping(d) => Parent[d] \in Events
      BY DEF Overlapping, InTransaction, TypeInv, CallerLocals
    <2>12. crossed' \subseteq Events \X Events
      BY <1>5, <2>11 DEF CommitEvent, TypeInv, TypeOK
    <2> QED
      BY <1>5, <2>1, <2>3, <2>4, <2>5, <2>6, <2>8, <2>9, <2>10, <2>12
         DEF CommitEvent, TypeInv, TypeOK, CallerState, brokerVars, faultVars
  <1>6. CASE EmitFraudSignals(c)
    <2>1. e \in Events
      BY <1>6, <1>f DEF EmitFraudSignals
    <2> QED
      BY <1>6, <2>1, <1>i, <1>f DEF EmitFraudSignals, Reply, faultVars
  <1>7. CASE IngestFails(c)
    BY <1>7, <1>i, <1>f DEF IngestFails
  <1>8. CASE RecordSignal(c)
    <2>1. PICK rivals \in SUBSET {d \in Callers \ {c} : caller[d].pc = "screen"} :
             SignalKeyTaken(c, rivals)
      BY <1>8, RecordSignalFacts
    <2>2. caller[c].pc # "idle"
      BY <2>1 DEF SignalKeyTaken
    <2>3. \A d \in rivals : caller[d].event \in Events
      BY DEF TypeInv, CallerLocals
    <2>4. outrun' \subseteq Events \X Events
      BY <2>1, <2>2, <2>3, <1>f DEF SignalKeyTaken, TypeInv, TypeOK
    <2>5. \A d \in Callers : /\ caller'[d].event = caller[d].event
                             /\ caller'[d].pc = caller[d].pc \/ d \in rivals
                             /\ d \in rivals => caller'[d].pc = "lost"
      BY <2>1 DEF SignalKeyTaken
    <2>6. CallerLocals'
      BY <2>3, <2>5 DEF TypeInv, CallerLocals
    <2>7. InsertInv'
      BY <2>1, <2>5 DEF SignalKeyTaken, TypeInv, InsertInv, outboxVars
    <2>8. BatchInv'
      BY <2>1 DEF SignalKeyTaken, TypeInv, BatchInv, ClaimedByOneRelay, outboxVars
    <2> QED
      BY <2>1, <2>4, <2>6, <2>7, <2>8
         DEF SignalKeyTaken, TypeInv, TypeOK, CallerState, outboxVars, brokerVars, faultVars
  <1>9. CASE ReplyDuplicate(c)
    <2>1. e \in Events
      BY <1>9, <1>f DEF ReplyDuplicate
    <2> QED
      BY <1>9, <2>1, <1>i, <1>f DEF ReplyDuplicate, Reply, faultVars
  <1> QED
    BY <1>1, <1>2, <1>3, <1>4, <1>5, <1>6, <1>7, <1>8, <1>9 DEF Request

RelayState == [pc : {"idle", "publish", "record", "requeue"},
               batch : SUBSET Events, row : Events \cup {None}]

\* The relay takes a batch, or turns to a row of it.
LEMMA RelayMoves ==
    ASSUME relay \in [Relays -> RelayState], NEW r \in Relays,
           NEW pc \in {"publish", "record", "requeue"},
           \/ \E batch \in SUBSET Events :
                  relay' = [relay EXCEPT ![r].pc = pc, ![r].batch = batch]
           \/ \E e \in Events :
                  relay' = [relay EXCEPT ![r].pc = pc, ![r].row = e]
    PROVE  relay' \in [Relays -> RelayState]
  <1>1. ASSUME NEW batch \in SUBSET Events,
               relay' = [relay EXCEPT ![r].pc = pc, ![r].batch = batch]
        PROVE  relay' \in [Relays -> RelayState]
    BY <1>1 DEF RelayState
  <1>2. ASSUME NEW e \in Events,
               relay' = [relay EXCEPT ![r].pc = pc, ![r].row = e]
        PROVE  relay' \in [Relays -> RelayState]
    BY <1>2 DEF RelayState
  <1> QED BY <1>1, <1>2

\* A step of the relays: the requests are as they were.
LEMMA RelayStep ==
    ASSUME TypeInv, BatchInv',
           relay' \in [Relays -> RelayState],
           outbox' \in [Events -> {"absent", "pending", "in_progress", "dispatched"}],
           \A e \in Events : outbox'[e] # "absent" => outbox[e] # "absent",
           attempts' \in [Events -> 0..MaxAttempts],
           queue' \in [Events -> Nat], published' \in [Events -> Nat],
           throws' \in 0..MaxThrows, crashes' \in 0..MaxCrashes,
           UNCHANGED <<requestVars, handled>>
    PROVE  TypeInv'
  <1>1. CallerLocals'
    BY DEF TypeInv, CallerLocals, requestVars
  <1>2. InsertInv'
    BY DEF TypeInv, InsertInv, requestVars
  <1> QED
    BY <1>1, <1>2 DEF TypeInv, TypeOK, RelayState, requestVars, historyVars

\* What NextRow does to the batch of the relay and to those of the others.
LEMMA NextRowBatch ==
    ASSUME TypeInv, NEW r \in Relays, relay[r].pc \in {"record", "requeue"},
           NextRow(r, relay[r].row)
    PROVE  /\ relay' \in [Relays -> RelayState]
           /\ relay'[r].pc \in {"idle", "publish"}
           /\ relay'[r].pc = "idle" => relay'[r].batch = {}
           /\ relay'[r].batch = relay[r].batch \ {relay[r].row}
           /\ \A s \in Relays \ {r} : relay'[s] = relay[s]
  BY DEF NextRow, IdleRelay, TypeInv, TypeOK, BatchInv, RelayState

\* One row leaves the hands of relay r, whatever is then written into it.
LEMMA RowDone ==
    ASSUME TypeInv, NEW r \in Relays, relay[r].pc \in {"record", "requeue"},
           NextRow(r, relay[r].row),
           \A e \in Events \ {relay[r].row} :
               outbox'[e] = outbox[e] /\ attempts'[e] = attempts[e]
    PROVE  BatchInv'
  <1>1. \A s \in Relays : relay'[s].batch = relay[s].batch \ {relay[r].row}
    BY NextRowBatch DEF TypeInv, BatchInv, ClaimedByOneRelay
  <1>2. \A s \in Relays : relay[s].batch \subseteq Events
    BY DEF TypeInv, TypeOK
  <1>3. ClaimedByOneRelay'
    BY <1>1 DEF TypeInv, BatchInv, ClaimedByOneRelay
  <1>4. ASSUME NEW s \in Relays
        PROVE  /\ relay'[s].pc = "idle" => relay'[s].batch = {}
               /\ relay'[s].pc \in {"record", "requeue"} => relay'[s].row \in relay'[s].batch
    <2>1. CASE s = r
      BY <2>1, NextRowBatch
    <2>2. CASE s # r
      <3>1. relay'[s] = relay[s] /\ relay'[s].batch = relay[s].batch
        BY <2>2, NextRowBatch
      <3> QED
        BY <3>1 DEF TypeInv, BatchInv
    <2> QED BY <2>1, <2>2
  <1>5. ASSUME NEW s \in Relays, NEW e \in relay'[s].batch
        PROVE  outbox'[e] = "in_progress" /\ attempts'[e] < MaxAttempts
    BY <1>1, <1>2, <1>5 DEF TypeInv, BatchInv
  <1> QED
    BY <1>3, <1>4, <1>5 DEF BatchInv

LEMMA RelayType ==
    ASSUME TypeInv, NEW r \in Relays,
           Relay(r) \/ PublishThrows(r) \/ RecordThrows(r) \/ RelayDies(r)
    PROVE  TypeInv'
  <1> USE DeliveryAssumption
  <1>t. /\ relay \in [Relays -> RelayState]
        /\ outbox \in [Events -> {"absent", "pending", "in_progress", "dispatched"}]
        /\ attempts \in [Events -> 0..MaxAttempts]
        /\ queue \in [Events -> Nat] /\ published \in [Events -> Nat]
        /\ throws \in 0..MaxThrows /\ crashes \in 0..MaxCrashes
        /\ \A s \in Relays : relay[s].batch \subseteq Events
    BY DEF TypeInv, TypeOK, RelayState
  \* The relay turns to a row of its batch, or from the row to its requeuing.
  <1>g. ASSUME NEW pc \in {"record", "requeue"}, NEW e \in relay[r].batch,
               relay[r].pc # "idle",
               relay'[r].pc = pc /\ relay'[r].row = e,
               relay'[r].batch = relay[r].batch,
               \A s \in Relays \ {r} : relay'[s] = relay[s],
               UNCHANGED <<outbox, attempts>>
        PROVE  BatchInv'
    <2>1. \A s \in Relays : relay'[s].batch = relay[s].batch
      BY <1>g
    <2> QED
      BY <2>1, <1>g DEF TypeInv, BatchInv, ClaimedByOneRelay
  <1>1. CASE ClaimBatch(r)
    <2> PICK batch \in kSubset(Min({BatchSize, Cardinality(Claimable)}), Claimable) :
            /\ relay[r].pc = "idle"
            /\ outbox' = [e \in Events |-> IF e \in batch THEN "in_progress" ELSE outbox[e]]
            /\ relay' = [relay EXCEPT ![r].pc = "publish", ![r].batch = batch]
            /\ UNCHANGED <<requestVars, attempts, brokerVars, faultVars>>
      BY <1>1 DEF ClaimBatch
    <2>1. /\ batch \subseteq Events
          /\ \A e \in batch : outbox[e] = "pending" /\ attempts[e] < MaxAttempts
      BY BatchIsClaimable
    <2>2. \A s \in Relays : relay[s].batch \cap batch = {}
      BY <2>1 DEF TypeInv, BatchInv
    <2>3. /\ relay'[r].pc = "publish" /\ relay'[r].batch = batch
          /\ \A s \in Relays \ {r} : relay'[s] = relay[s]
      BY <1>t DEF RelayState
    <2>7. relay' \in [Relays -> RelayState]
      BY <2>1, <1>t, RelayMoves
    <2>4. ClaimedByOneRelay'
      <3> SUFFICES ASSUME NEW s \in Relays, NEW t \in Relays, s # t
                   PROVE  relay'[s].batch \cap relay'[t].batch = {}
        BY DEF ClaimedByOneRelay
      <3>1. CASE s # r /\ t # r
        BY <3>1, <2>3 DEF TypeInv, BatchInv, ClaimedByOneRelay
      <3>2. CASE s = r /\ t # r
        BY <3>2, <2>2, <2>3
      <3>3. CASE s # r /\ t = r
        BY <3>3, <2>2, <2>3
      <3> QED BY <3>1, <3>2, <3>3
    <2>5. BatchInv'
      BY <2>1, <2>3, <2>4, <1>t DEF TypeInv, BatchInv
    <2>6. \A e \in Events : outbox'[e] # "absent" => outbox[e] # "absent"
      BY <2>1
    <2> QED
      BY <2>5, <2>6, <2>7, <1>t, RelayStep DEF brokerVars, faultVars
  <1>2. CASE Publish(r)
    <2> PICK e \in relay[r].batch :
            /\ relay[r].pc = "publish"
            /\ queue' = [queue EXCEPT ![e] = @ + 1]
            /\ published' = [published EXCEPT ![e] = @ + 1]
            /\ relay' = [relay EXCEPT ![r].pc = "record", ![r].row = e]
            /\ UNCHANGED <<requestVars, outbox, attempts, handled, faultVars>>
      BY <1>2 DEF Publish
    <2> e \in Events
      BY <1>t
    <2>1. relay' \in [Relays -> RelayState]
      BY <1>t, RelayMoves
    <2>2. BatchInv'
      <3>1. /\ relay'[r].pc = "record" /\ relay'[r].row = e
            /\ relay'[r].batch = relay[r].batch
            /\ \A s \in Relays \ {r} : relay'[s] = relay[s]
        BY <1>t DEF RelayState
      <3> QED BY <3>1, <1>g
    <2>3. queue' \in [Events -> Nat] /\ published' \in [Events -> Nat]
      BY <1>t
    <2> QED
      BY <2>1, <2>2, <2>3, <1>t, RelayStep DEF faultVars
  <1>3. CASE PublishThrows(r)
    <2> PICK e \in relay[r].batch :
            /\ relay[r].pc = "publish"
            /\ throws < MaxThrows
            /\ throws' = throws + 1
            /\ relay' = [relay EXCEPT ![r].pc = "requeue", ![r].row = e]
            /\ UNCHANGED <<requestVars, outbox, attempts, brokerVars, crashes>>
      BY <1>3 DEF PublishThrows
    <2> e \in Events
      BY <1>t
    <2>1. relay' \in [Relays -> RelayState]
      BY <1>t, RelayMoves
    <2>2. BatchInv'
      <3>1. /\ relay'[r].pc = "requeue" /\ relay'[r].row = e
            /\ relay'[r].batch = relay[r].batch
            /\ \A s \in Relays \ {r} : relay'[s] = relay[s]
        BY <1>t DEF RelayState
      <3> QED BY <3>1, <1>g
    <2>3. throws' \in 0..MaxThrows
      BY <1>t
    <2> QED
      BY <2>1, <2>2, <2>3, <1>t, RelayStep DEF brokerVars
  <1>4. CASE RecordDispatched(r)
    <2>1. /\ relay[r].pc = "record" /\ NextRow(r, relay[r].row)
          /\ outbox' = [outbox EXCEPT ![relay[r].row] = "dispatched"]
      BY <1>4 DEF RecordDispatched
    <2>2. relay[r].row \in Events /\ outbox[relay[r].row] = "in_progress"
      BY <2>1, <1>t DEF TypeInv, BatchInv
    <2>3. BatchInv' /\ relay' \in [Relays -> RelayState]
      BY <1>4, <2>1, <2>2, <1>t, RowDone, NextRowBatch DEF RecordDispatched
    <2> QED
      BY <1>4, <2>1, <2>2, <2>3, <1>t, RelayStep
         DEF RecordDispatched, brokerVars, faultVars
  <1>5. CASE RecordThrows(r)
    <2>1. relay[r].pc = "record" /\ relay[r].row \in relay[r].batch
      BY <1>5 DEF RecordThrows, TypeInv, BatchInv
    <2>2. relay' \in [Relays -> RelayState]
      BY <1>5, <1>t DEF RecordThrows, RelayState
    <2>3. BatchInv'
      <3>1. /\ relay'[r].pc = "requeue" /\ relay'[r].row = relay[r].row
            /\ relay'[r].batch = relay[r].batch
            /\ \A s \in Relays \ {r} : relay'[s] = relay[s]
        BY <1>5, <1>t DEF RecordThrows, RelayState
      <3> QED BY <1>5, <2>1, <3>1, <1>g DEF RecordThrows
    <2>4. throws' \in 0..MaxThrows
      BY <1>5, <1>t DEF RecordThrows
    <2> QED
      BY <1>5, <2>2, <2>3, <2>4, <1>t, RelayStep DEF RecordThrows, brokerVars
  <1>6. CASE Requeue(r)
    <2>1. /\ relay[r].pc = "requeue" /\ NextRow(r, relay[r].row)
          /\ outbox' = [outbox EXCEPT ![relay[r].row] = "pending"]
          /\ attempts' = [attempts EXCEPT ![relay[r].row] = @ + 1]
      BY <1>6 DEF Requeue
    <2>2. /\ relay[r].row \in Events /\ attempts[relay[r].row] < MaxAttempts
          /\ outbox[relay[r].row] = "in_progress"
      BY <2>1, <1>t DEF TypeInv, BatchInv
    <2>3. BatchInv' /\ relay' \in [Relays -> RelayState]
      BY <2>1, <2>2, <1>t, RowDone, NextRowBatch
    <2>4. attempts' \in [Events -> 0..MaxAttempts]
      BY <2>1, <2>2, <1>t
    <2> QED
      BY <1>6, <2>1, <2>2, <2>3, <2>4, <1>t, RelayStep
         DEF Requeue, brokerVars, faultVars
  <1>7. CASE RelayDies(r)
    <2>1. /\ relay'[r].pc = "idle" /\ relay'[r].batch = {}
          /\ \A s \in Relays \ {r} : relay'[s] = relay[s]
          /\ relay' \in [Relays -> RelayState]
      BY <1>7, <1>t DEF RelayDies, IdleRelay, RelayState
    <2>2. BatchInv'
      BY <1>7, <2>1 DEF RelayDies, TypeInv, BatchInv, ClaimedByOneRelay
    <2>3. crashes' \in 0..MaxCrashes
      BY <1>7, <1>t DEF RelayDies
    <2> QED
      BY <1>7, <2>1, <2>2, <2>3, <1>t, RelayStep DEF RelayDies, brokerVars
  <1> QED
    BY <1>1, <1>2, <1>3, <1>4, <1>5, <1>6, <1>7 DEF Relay

LEMMA TypeStep == TypeInv /\ [Next]_vars => TypeInv'
  <1> SUFFICES ASSUME TypeInv, [Next]_vars PROVE TypeInv'
    OBVIOUS
  <1>1. ASSUME NEW e \in Events, Handle(e) PROVE TypeInv'
    BY <1>1 DEF Handle, TypeInv, TypeOK, CallerLocals, InsertInv, BatchInv,
       ClaimedByOneRelay, requestVars, historyVars, outboxVars, faultVars
  <1>2. CASE UNCHANGED vars
    BY <1>2 DEF vars, TypeInv, TypeOK, CallerLocals, InsertInv, BatchInv,
       ClaimedByOneRelay, requestVars, historyVars, outboxVars, brokerVars, faultVars
  <1> QED
    BY <1>1, <1>2, RequestType, RelayType DEF Next

\* TypeInv holds in every reachable state.
LEMMA TypeAlways == Spec => []TypeInv
  BY TypeInit, TypeStep, PTL DEF Spec

\* Every variable keeps its type; no row is ever tried more than MaxAttempts
\* times, however many relays interleave, throw and die.
THEOREM TypeCorrect == Spec => []TypeOK
  BY TypeAlways, PTL DEF TypeInv

\* dispatchBatch never hands one outbox row to two relays.
THEOREM RowsAreClaimedOnce == Spec => []ClaimedByOneRelay
  BY TypeAlways, PTL DEF TypeInv, BatchInv
-----------------------------------------------------------------------------
(* What has been published.                                                *)

\* A row that no relay is about to give back has counted a publication for each
\* time it was published but the last; and no publication is repeated, and no
\* attempt counted, without a statement having thrown.
PublishedInv ==
    /\ DispatchedIsPublished
    /\ \A e \in Events :
          /\ outbox[e] \in {"absent", "pending"} => published[e] <= attempts[e]
          /\ attempts[e] > 0 => throws > 0
    /\ \A r \in Relays :
          /\ \A e \in relay[r].batch :
                relay[r].pc \notin {"record", "requeue"} \/ relay[r].row # e
                    => published[e] <= attempts[e]
          /\ relay[r].pc = "record" => published[relay[r].row] >= 1
          /\ relay[r].pc = "requeue" => throws > 0

LEMMA PublishedInit == Init => PublishedInv
  BY DEF Init, IdleRelay, PublishedInv, DispatchedIsPublished

\* A step that leaves the rows and the relays alone.
LEMMA PublishedSame ==
    ASSUME PublishedInv, UNCHANGED <<outboxVars, published>>,
           throws' = throws \/ throws' > 0
    PROVE  PublishedInv'
  BY DEF PublishedInv, DispatchedIsPublished, outboxVars

LEMMA PublishedRequest ==
    ASSUME TypeInv, PublishedInv, NEW c \in Callers,
           (\E e \in Events : Ingest(c, e)) \/ Request(c) \/ IngestFails(c)
    PROVE  PublishedInv'
  <1>1. CASE CommitEvent(c)
    <2>1. /\ outbox' = [outbox EXCEPT ![caller[c].event] = "pending"]
          /\ UNCHANGED <<attempts, relay, published, throws>>
      BY <1>1 DEF CommitEvent, brokerVars, faultVars
    <2>2. /\ caller[c].event \in Events /\ outbox[caller[c].event] = "absent"
          /\ outbox \in [Events -> {"absent", "pending", "in_progress", "dispatched"}]
      BY <1>1 DEF CommitEvent, TypeInv, TypeOK, CallerLocals, InsertInv
    <2> QED BY <2>1, <2>2 DEF PublishedInv, DispatchedIsPublished
  <1>2. CASE IngestFails(c)
    <2>1. throws' > 0
      BY <1>2, DeliveryAssumption DEF IngestFails, TypeInv, TypeOK
    <2> QED BY <1>2, <2>1, PublishedSame DEF IngestFails, brokerVars
  <1>3. CASE (\E e \in Events : Ingest(c, e)) \/ InsertEvent(c) \/ FindParent(c)
             \/ FindWaiting(c) \/ EmitFraudSignals(c) \/ RecordSignal(c)
             \/ ReplyDuplicate(c)
    <2>1. UNCHANGED <<outboxVars, published, throws>>
      BY <1>3 DEF Ingest, InsertEvent, FindParent, FindWaiting, EmitFraudSignals,
         RecordSignal, ReplyDuplicate, brokerVars, faultVars
    <2> QED BY <2>1, PublishedSame
  <1> QED BY <1>1, <1>2, <1>3 DEF Request

\* Relay r is done with its row, which was published (record) or goes back with
\* one attempt more (requeue).
LEMMA PublishedRowDone ==
    ASSUME TypeInv, PublishedInv, NEW r \in Relays, NextRow(r, relay[r].row),
           \/ /\ relay[r].pc = "record"
              /\ outbox' = [outbox EXCEPT ![relay[r].row] = "dispatched"]
              /\ attempts' = attempts
           \/ /\ relay[r].pc = "requeue"
              /\ outbox' = [outbox EXCEPT ![relay[r].row] = "pending"]
              /\ attempts' = [attempts EXCEPT ![relay[r].row] = @ + 1],
           UNCHANGED <<published, throws>>
    PROVE  PublishedInv'
  <1> DEFINE v == relay[r].row
  <1>t. /\ outbox \in [Events -> {"absent", "pending", "in_progress", "dispatched"}]
        /\ attempts \in [Events -> Nat] /\ published \in [Events -> Nat]
        /\ \A s \in Relays : relay[s].batch \subseteq Events
        /\ v \in Events /\ v \in relay[r].batch
        /\ throws \in Nat
    BY DeliveryAssumption DEF TypeInv, TypeOK, BatchInv
  <1>b. /\ relay'[r].pc \in {"idle", "publish"}
        /\ relay'[r].batch = relay[r].batch \ {v}
        /\ \A s \in Relays \ {r} : relay'[s] = relay[s]
    BY NextRowBatch
  \* The row is of no other relay.
  <1>o. \A s \in Relays \ {r} : v \notin relay[s].batch
    BY <1>t DEF TypeInv, BatchInv, ClaimedByOneRelay
  <1>u. \A e \in Events \ {v} : outbox'[e] = outbox[e] /\ attempts'[e] = attempts[e]
    BY <1>t
  <1>v. \/ /\ relay[r].pc = "record" /\ outbox'[v] = "dispatched"
           /\ attempts'[v] = attempts[v]
        \/ /\ relay[r].pc = "requeue" /\ outbox'[v] = "pending"
           /\ attempts'[v] = attempts[v] + 1
    BY <1>t
  <1>1. DispatchedIsPublished'
    BY <1>t, <1>u, <1>v DEF PublishedInv, DispatchedIsPublished
  <1>2. ASSUME NEW e \in Events
        PROVE  /\ outbox'[e] \in {"absent", "pending"} => published'[e] <= attempts'[e]
               /\ attempts'[e] > 0 => throws' > 0
    BY <1>t, <1>u, <1>v DEF PublishedInv, DispatchedIsPublished
  <1>3. ASSUME NEW s \in Relays
        PROVE  /\ \A e \in relay'[s].batch :
                     relay'[s].pc \notin {"record", "requeue"} \/ relay'[s].row # e
                         => published'[e] <= attempts'[e]
               /\ relay'[s].pc = "record" => published'[relay'[s].row] >= 1
               /\ relay'[s].pc = "requeue" => throws' > 0
    <2>1. CASE s = r
      BY <2>1, <1>t, <1>b, <1>u DEF PublishedInv
    <2>2. CASE s # r
      BY <2>2, <1>t, <1>b, <1>o, <1>u DEF PublishedInv
    <2> QED BY <2>1, <2>2
  <1> QED BY <1>1, <1>2, <1>3 DEF PublishedInv

LEMMA PublishedRelay ==
    ASSUME TypeInv, PublishedInv, NEW r \in Relays,
           Relay(r) \/ PublishThrows(r) \/ RecordThrows(r) \/ RelayDies(r)
    PROVE  PublishedInv'
  <1>t. /\ relay \in [Relays -> RelayState]
        /\ outbox \in [Events -> {"absent", "pending", "in_progress", "dispatched"}]
        /\ attempts \in [Events -> Nat] /\ published \in [Events -> Nat]
        /\ \A s \in Relays : relay[s].batch \subseteq Events
        /\ throws \in Nat
    BY DeliveryAssumption DEF TypeInv, TypeOK, RelayState
  <1>1. CASE ClaimBatch(r)
    <2> PICK batch \in kSubset(Min({BatchSize, Cardinality(Claimable)}), Claimable) :
            /\ relay[r].pc = "idle"
            /\ outbox' = [e \in Events |-> IF e \in batch THEN "in_progress" ELSE outbox[e]]
            /\ relay' = [relay EXCEPT ![r].pc = "publish", ![r].batch = batch]
            /\ UNCHANGED <<requestVars, attempts, brokerVars, faultVars>>
      BY <1>1 DEF ClaimBatch
    <2>1. /\ batch \subseteq Events
          /\ \A e \in batch : outbox[e] = "pending"
      BY BatchIsClaimable
    <2>2. /\ relay'[r].pc = "publish" /\ relay'[r].batch = batch
          /\ \A s \in Relays \ {r} : relay'[s] = relay[s]
      BY <1>t DEF RelayState
    <2>3. \A e \in Events :
             outbox'[e] = IF e \in batch THEN "in_progress" ELSE outbox[e]
      OBVIOUS
    <2>4. UNCHANGED <<attempts, published, throws>>
      BY DEF brokerVars, faultVars
    <2> QED
      BY <2>1, <2>2, <2>3, <2>4, <1>t DEF PublishedInv, DispatchedIsPublished
  <1>2. CASE Publish(r)
    <2> PICK v \in relay[r].batch :
            /\ relay[r].pc = "publish"
            /\ queue' = [queue EXCEPT ![v] = @ + 1]
            /\ published' = [published EXCEPT ![v] = @ + 1]
            /\ relay' = [relay EXCEPT ![r].pc = "record", ![r].row = v]
            /\ UNCHANGED <<requestVars, outbox, attempts, handled, faultVars>>
      BY <1>2 DEF Publish
    <2>1. v \in Events /\ outbox[v] = "in_progress" /\ published[v] <= attempts[v]
      BY <1>t DEF TypeInv, BatchInv, PublishedInv
    <2>2. /\ relay'[r].pc = "record" /\ relay'[r].row = v
          /\ relay'[r].batch = relay[r].batch
          /\ \A s \in Relays \ {r} : relay'[s] = relay[s]
      BY <1>t DEF RelayState
    <2>3. \A s \in Relays \ {r} : v \notin relay[s].batch
      BY DEF TypeInv, BatchInv, ClaimedByOneRelay
    <2>4. \A s \in Relays \ {r} :
             relay[s].pc \in {"record", "requeue"} => relay[s].row \in relay[s].batch
      BY DEF TypeInv, BatchInv
    <2>5. /\ published'[v] = published[v] + 1
          /\ \A e \in Events \ {v} : published'[e] = published[e]
      BY <2>1, <1>t
    <2>6. UNCHANGED <<outbox, attempts, throws>>
      BY DEF faultVars
    <2>7. DispatchedIsPublished'
      BY <2>1, <2>5, <2>6, <1>t DEF PublishedInv, DispatchedIsPublished
    <2>8. ASSUME NEW s \in Relays
          PROVE  /\ \A e \in relay'[s].batch :
                       relay'[s].pc \notin {"record", "requeue"} \/ relay'[s].row # e
                           => published'[e] <= attempts'[e]
                 /\ relay'[s].pc = "record" => published'[relay'[s].row] >= 1
                 /\ relay'[s].pc = "requeue" => throws' > 0
      <3>1. CASE s = r
        BY <3>1, <2>1, <2>2, <2>5, <2>6, <1>t DEF PublishedInv
      <3>2. CASE s # r
        BY <3>2, <2>2, <2>3, <2>4, <2>5, <2>6, <1>t DEF PublishedInv
      <3> QED BY <3>1, <3>2
    <2> QED
      BY <2>1, <2>5, <2>6, <2>7, <2>8, <1>t DEF PublishedInv
  <1>3. CASE PublishThrows(r)
    <2> PICK v \in relay[r].batch :
            /\ relay[r].pc = "publish"
            /\ throws < MaxThrows
            /\ throws' = throws + 1
            /\ relay' = [relay EXCEPT ![r].pc = "requeue", ![r].row = v]
            /\ UNCHANGED <<requestVars, outbox, attempts, brokerVars, crashes>>
      BY <1>3 DEF PublishThrows
    <2>1. /\ relay'[r].pc = "requeue" /\ relay'[r].row = v
          /\ relay'[r].batch = relay[r].batch
          /\ \A s \in Relays \ {r} : relay'[s] = relay[s]
      BY <1>t DEF RelayState
    <2>2. UNCHANGED <<outbox, attempts, published>> /\ throws' > 0
      BY <1>t DEF brokerVars
    <2> QED
      BY <2>1, <2>2, <1>t DEF PublishedInv, DispatchedIsPublished
  <1>4. CASE RecordDispatched(r)
    BY <1>4, PublishedRowDone DEF RecordDispatched, brokerVars, faultVars
  <1>5. CASE RecordThrows(r)
    <2>1. /\ relay'[r].pc = "requeue" /\ relay'[r].row = relay[r].row
          /\ relay'[r].batch = relay[r].batch
          /\ \A s \in Relays \ {r} : relay'[s] = relay[s]
      BY <1>5, <1>t DEF RecordThrows, RelayState
    <2>2. /\ relay[r].pc = "record"
          /\ UNCHANGED <<outbox, attempts, published>> /\ throws' > 0
      BY <1>5, <1>t DEF RecordThrows, brokerVars
    <2> QED
      BY <2>1, <2>2, <1>t DEF PublishedInv, DispatchedIsPublished
  <1>6. CASE Requeue(r)
    BY <1>6, PublishedRowDone DEF Requeue, brokerVars, faultVars
  <1>7. CASE RelayDies(r)
    <2>1. /\ relay'[r].pc = "idle" /\ relay'[r].batch = {}
          /\ \A s \in Relays \ {r} : relay'[s] = relay[s]
      BY <1>7, <1>t DEF RelayDies, IdleRelay, RelayState
    <2>2. UNCHANGED <<outbox, attempts, published, throws>>
      BY <1>7 DEF RelayDies, brokerVars
    <2> QED
      BY <2>1, <2>2, <1>t DEF PublishedInv, DispatchedIsPublished
  <1> QED
    BY <1>1, <1>2, <1>3, <1>4, <1>5, <1>6, <1>7 DEF Relay

LEMMA PublishedStep == TypeInv /\ PublishedInv /\ [Next]_vars => PublishedInv'
  <1> SUFFICES ASSUME TypeInv, PublishedInv, [Next]_vars PROVE PublishedInv'
    OBVIOUS
  <1>1. ASSUME NEW e \in Events, Handle(e) PROVE PublishedInv'
    BY <1>1, PublishedSame DEF Handle, faultVars
  <1>2. CASE UNCHANGED vars
    BY <1>2, PublishedSame DEF vars, outboxVars, brokerVars, faultVars
  <1> QED
    BY <1>1, <1>2, PublishedRequest, PublishedRelay DEF Next

LEMMA PublishedAlways == Spec => []PublishedInv
  BY TypeAlways, PublishedInit, PublishedStep, PTL DEF Spec

\* The relay never calls a row dispatched that was not published, and the broker
\* is given a row once more at most than it has failed, wherever statements throw.
THEOREM PublishedSoundly == Spec => []DispatchedIsPublished
  BY PublishedAlways, PTL DEF PublishedInv

\* Without a throw no event is published twice: worker deaths, concurrent
\* requests and concurrent relays repeat nothing.
THEOREM PublishedOnce == Spec => []HandledOnceWithoutFaults
  <1>1. TypeInv /\ PublishedInv => HandledOnceWithoutFaults
    <2> SUFFICES ASSUME TypeInv, PublishedInv, throws = 0, NEW e \in Events
                 PROVE  published[e] <= 1
      BY DEF HandledOnceWithoutFaults
    <2>1. attempts[e] \in Nat /\ published[e] \in Nat
      BY DEF TypeInv, TypeOK
    <2> QED BY <2>1 DEF PublishedInv, DispatchedIsPublished
  <1> QED BY <1>1, TypeAlways, PublishedAlways, PTL

-----------------------------------------------------------------------------
(* Screening.                                                              *)

\* As long as nothing threw, a stored event has been screened, has lost a key, or
\* is about to be screened by the request that stored it; where a key was lost,
\* an event has been screened or a request that still runs its checks will be the
\* one to screen; only stored events are acknowledged.
ScreenInv ==
    /\ accepted \subseteq stored
    /\ \A c \in Callers :
          /\ caller[c].pc \in {"screen", "lost"} => caller[c].event \in stored
          /\ caller[c].pc = "screen" =>
                \A d \in Callers \ {c} :
                    caller[d].pc = "screen" => caller[d].event # caller[c].event
    /\ throws = 0 =>
          /\ \A e \in stored \ screened :
                \/ \E c \in Callers : caller[c].pc = "screen" /\ caller[c].event = e
                \/ \E f \in stored \ {e} : <<e, f>> \in outrun
          /\ outrun # {} =>
                screened # {} \/ \E c \in Callers : caller[c].pc = "screen"

LEMMA ScreenInit == Init => ScreenInv
  BY DEF Init, ScreenInv, IdleCaller

\* A step that stores and screens nothing and leaves the slots that screen.
LEMMA ScreenSame ==
    ASSUME ScreenInv, accepted' \subseteq stored, throws' = 0 => throws = 0,
           UNCHANGED <<stored, screened, outrun>>,
           \A c \in Callers :
               caller'[c].pc \in {"screen", "lost"} => caller'[c] = caller[c],
           throws' = 0 => \A c \in Callers :
                              caller[c].pc = "screen" => caller'[c] = caller[c]
    PROVE  ScreenInv'
  BY DEF ScreenInv

LEMMA ScreenRequest ==
    ASSUME TypeInv, ScreenInv, NEW c \in Callers,
           \/ \E e \in Events : Ingest(c, e)
           \/ Request(c) \/ IngestFails(c)
    PROVE  ScreenInv'
  <1> DEFINE e == caller[c].event
  <1>t. /\ caller \in [Callers -> CallerState] /\ throws \in Nat
        /\ IdleCaller.pc = "idle" /\ accepted \subseteq stored
    BY DeliveryAssumption DEF TypeInv, TypeOK, CallerState, IdleCaller, ScreenInv
  \* The slot is not screening, before or after.
  <1>o. ASSUME NEW s, s.pc \notin {"screen", "lost"}, caller' = [caller EXCEPT ![c] = s],
               caller[c].pc # "screen" \/ throws' # 0,
               accepted' \subseteq stored, throws' = 0 => throws = 0,
               UNCHANGED <<stored, screened, outrun>>
        PROVE  ScreenInv'
    BY <1>o, <1>t, ScreenSame
  <1>1. ASSUME NEW v \in Events, Ingest(c, v) PROVE ScreenInv'
    <2>1. CASE v \in stored
      BY <1>1, <2>1, <1>o, <1>t DEF Ingest, Reply, historyVars, faultVars
    <2>2. CASE v \notin stored
      <3>1. caller' = [caller EXCEPT ![c] =
                          [caller[c] EXCEPT !.pc = "insert", !.event = v]]
        BY <1>1, <2>2, <1>t DEF Ingest
      <3>2. [caller[c] EXCEPT !.pc = "insert", !.event = v].pc = "insert"
        BY <1>t DEF CallerState
      <3> QED
        BY <1>1, <2>2, <3>1, <3>2, <1>o, <1>t DEF Ingest, historyVars, faultVars
    <2> QED BY <2>1, <2>2
  <1>2. CASE InsertEvent(c)
    <2>1. CASE e \in stored
      BY <1>2, <2>1, <1>o, <1>t DEF InsertEvent, Reply, historyVars, faultVars
    <2>2. CASE e \notin stored
      BY <1>2, <2>2, <1>t, ScreenSame DEF InsertEvent, CallerState, historyVars, faultVars
    <2> QED BY <2>1, <2>2
  <1>3. CASE FindParent(c)
    BY <1>3, <1>t, ScreenSame DEF FindParent, CallerState, historyVars, faultVars
  <1>4. CASE FindWaiting(c)
    BY <1>4, <1>t, ScreenSame DEF FindWaiting, CallerState, historyVars, faultVars
  <1>5. CASE CommitEvent(c)
    <2>1. /\ caller'[c].pc = "screen" /\ caller'[c].event = e
          /\ \A d \in Callers \ {c} : caller'[d] = caller[d]
      BY <1>5, <1>t DEF CommitEvent, CallerState
    <2>2. /\ stored' = stored \cup {e}
          /\ UNCHANGED <<screened, accepted, outrun, throws>>
          /\ caller[c].pc = "commit"
      BY <1>5 DEF CommitEvent, faultVars
    <2>3. e \notin stored
      BY <2>2 DEF TypeInv, InsertInv
    <2> QED
      BY <2>1, <2>2, <2>3, <1>t DEF ScreenInv
  <1>6. CASE EmitFraudSignals(c)
    <2>1. /\ caller'[c].pc = "idle"
          /\ \A d \in Callers \ {c} : caller'[d] = caller[d]
      BY <1>6, <1>t DEF EmitFraudSignals, Reply, CallerState
    <2>2. /\ screened' = screened \cup {e} /\ UNCHANGED <<stored, outrun, throws>>
          /\ accepted' = accepted \cup {e} /\ caller[c].pc = "screen"
      BY <1>6 DEF EmitFraudSignals, Reply, historyVars, faultVars
    <2> QED
      BY <2>1, <2>2, <1>t DEF ScreenInv
  <1>7. CASE IngestFails(c)
    <2>1. /\ caller' = [caller EXCEPT ![c] = IdleCaller] /\ throws' # 0
          /\ UNCHANGED <<stored, screened, outrun, accepted>>
      BY <1>7, <1>t DEF IngestFails, historyVars
    <2>2. IdleCaller.pc \notin {"screen", "lost"}
      BY <1>t
    <2> QED BY <2>1, <2>2, <1>o, <1>t
  <1>8. CASE RecordSignal(c)
    <2>1. PICK rivals \in SUBSET {d \in Callers \ {c} : caller[d].pc = "screen"} :
             SignalKeyTaken(c, rivals)
      BY <1>8, RecordSignalFacts
    <2>2. /\ UNCHANGED <<stored, screened, accepted, throws>>
          /\ outrun' = outrun \cup {<<caller[d].event, e>> : d \in rivals}
          /\ \A d \in Callers : caller'[d].event = caller[d].event
          /\ \A d \in rivals : caller'[d].pc = "lost" /\ caller[d].pc = "screen"
          /\ \A d \in Callers \ rivals : caller'[d].pc = caller[d].pc
          /\ c \notin rivals /\ caller[c].pc = "screen"
      BY <2>1 DEF SignalKeyTaken, faultVars
    <2>3. \A d \in rivals : caller[d].event # e
      BY <2>2 DEF ScreenInv
    <2>4. e \in stored
      BY <2>2 DEF ScreenInv
    <2>5. \A d \in Callers :
             /\ caller'[d].pc \in {"screen", "lost"} => caller'[d].event \in stored'
             /\ caller'[d].pc = "screen" =>
                   \A b \in Callers \ {d} :
                       caller'[b].pc = "screen" => caller'[b].event # caller'[d].event
      BY <2>2 DEF ScreenInv
    <2>6. ASSUME throws' = 0, NEW v \in stored' \ screened'
          PROVE  \/ \E d \in Callers : caller'[d].pc = "screen" /\ caller'[d].event = v
                 \/ \E f \in stored' \ {v} : <<v, f>> \in outrun'
      <3>1. CASE \E d \in rivals : caller[d].event = v
        BY <2>2, <2>3, <2>4, <3>1
      <3>2. CASE ~ \E d \in rivals : caller[d].event = v
        BY <2>2, <2>6, <3>2 DEF ScreenInv
      <3> QED BY <3>1, <3>2
    <2>7. \E d \in Callers : caller'[d].pc = "screen"
      BY <2>2
    <2> QED
      BY <2>2, <2>5, <2>6, <2>7 DEF ScreenInv
  <1>9. CASE ReplyDuplicate(c)
    <2>1. /\ caller' = [caller EXCEPT ![c] = IdleCaller] /\ accepted' = accepted \cup {e}
          /\ UNCHANGED <<stored, screened, outrun, throws>> /\ caller[c].pc = "lost"
      BY <1>9 DEF ReplyDuplicate, Reply, historyVars, faultVars
    <2>2. e \in stored
      BY <2>1 DEF ScreenInv
    <2> QED BY <2>1, <2>2, <1>o, <1>t
  <1> QED
    BY <1>1, <1>2, <1>3, <1>4, <1>5, <1>6, <1>7, <1>8, <1>9 DEF Request

LEMMA ScreenStep == TypeInv /\ ScreenInv /\ [Next]_vars => ScreenInv'
  <1> SUFFICES ASSUME TypeInv, ScreenInv, [Next]_vars PROVE ScreenInv'
    OBVIOUS
  <1>t. throws \in Nat /\ accepted \subseteq stored
    BY DeliveryAssumption DEF TypeInv, TypeOK, ScreenInv
  <1>1. ASSUME NEW r \in Relays,
               Relay(r) \/ PublishThrows(r) \/ RecordThrows(r) \/ RelayDies(r)
        PROVE  ScreenInv'
    <2>1. UNCHANGED requestVars /\ (throws' = throws \/ throws' = throws + 1)
      BY <1>1 DEF Relay, ClaimBatch, Publish, RecordDispatched, Requeue, PublishThrows,
                  RecordThrows, RelayDies, faultVars
    <2> QED BY <2>1, <1>t, ScreenSame DEF requestVars, historyVars
  <1>2. ASSUME NEW e \in Events, Handle(e) PROVE ScreenInv'
    BY <1>2, <1>t, ScreenSame DEF Handle, requestVars, historyVars, faultVars
  <1>3. CASE UNCHANGED vars
    BY <1>3, <1>t, ScreenSame DEF vars, requestVars, historyVars, faultVars
  <1> QED
    BY <1>1, <1>2, <1>3, ScreenRequest DEF Next

LEMMA ScreenAlways == Spec => []ScreenInv
  BY TypeAlways, ScreenInit, ScreenStep, PTL DEF Spec

\* Whatever requests and relays interleave, and as long as no statement throws,
\* emitFraudSignals leaves an acknowledged event unscreened in one way only: a
\* signal's key was lost to the request of another event (the catch block of
\* ingest); and never are all the events whose keys collide left unscreened.
THEOREM ScreenedSoundly == Spec => []AcceptedIsScreened
  <1>1. ScreenInv => AcceptedIsScreened
    BY DEF ScreenInv, AcceptedIsScreened
  <1> QED BY <1>1, ScreenAlways, PTL

-----------------------------------------------------------------------------
(* Links.                                                                  *)

\* What transaction q has found so far: its event's parent, then the events that
\* wait for its event, except for those stored while it was open.
LinksFound(q) ==
    /\ q.pc \in {"waiting", "commit"} /\ Parent[q.event] \in Seen(q.event) =>
           <<q.event, Parent[q.event]>> \in q.links \cup link \cup crossed
    /\ q.pc = "commit" =>
           \A d \in Seen(q.event) :
               Parent[d] = q.event => <<d, q.event>> \in q.links \cup link \cup crossed

LinkInv == LinkedInTurn /\ \A c \in Callers : LinksFound(caller[c])

LEMMA LinkInit == Init => LinkInv
  BY DEF Init, LinkInv, LinkedInTurn, LinksFound, IdleCaller

\* A step of slot c that stores nothing.
LEMMA LinkSame ==
    ASSUME LinkInv, NEW c \in Callers, NEW q, caller \in [Callers -> CallerState],
           caller' = [caller EXCEPT ![c] = q], LinksFound(q), UNCHANGED <<stored, link, crossed>>
    PROVE  LinkInv'
  <1>1. ASSUME NEW d \in Callers PROVE LinksFound(caller[d])'
    <2>1. caller'[d] = q \/ caller'[d] = caller[d]
      OBVIOUS
    <2> QED BY <2>1 DEF LinkInv, LinksFound, Seen
  <1> QED BY <1>1 DEF LinkInv, LinkedInTurn

LEMMA IdleFound == LinksFound(IdleCaller)
  BY DEF LinksFound, IdleCaller

\* The reads of a transaction find what is there.
LEMMA LinkReads ==
    ASSUME TypeInv, LinkInv, NEW c \in Callers, FindParent(c) \/ FindWaiting(c)
    PROVE  LinkInv'
  <1>1. caller \in [Callers -> CallerState] /\ caller[c] \in CallerState
    BY CallerFields DEF TypeInv, TypeOK, CallerState
  <1>2. PICK e : e = caller[c].event
    OBVIOUS
  <1>3. UNCHANGED <<stored, link, crossed>>
    BY DEF FindParent, FindWaiting, historyVars
  <1>4. CASE FindParent(c)
    <2>1. PICK links : links = {e} \X (Seen(e) \cap {Parent[e]})
      OBVIOUS
    <2>2. PICK q : q = [caller[c] EXCEPT !.pc = "waiting", !.links = links]
      OBVIOUS
    <2>3. caller' = [caller EXCEPT ![c] = q]
      BY <1>2, <1>4, <2>1, <2>2 DEF FindParent
    <2>4. q.pc = "waiting" /\ q.event = e /\ q.links = links
      BY <1>1, <1>2, <2>2 DEF CallerState
    <2>5. LinksFound(q)
      BY <2>1, <2>4 DEF LinksFound
    <2> QED BY <1>1, <1>3, <2>3, <2>5, LinkSame
  <1>5. CASE FindWaiting(c)
    <2>1. PICK found : found = {d \in Seen(e) : Parent[d] = e} \X {e}
      OBVIOUS
    <2>2. PICK q : q = [caller[c] EXCEPT !.pc = "commit", !.links = @ \cup found]
      OBVIOUS
    <2>3. caller' = [caller EXCEPT ![c] = q]
      BY <1>2, <1>5, <2>1, <2>2 DEF FindWaiting
    <2>4. q.pc = "commit" /\ q.event = e /\ q.links = caller[c].links \cup found
      BY <1>1, <1>2, <2>2 DEF CallerState
    <2>5. Parent[e] \in Seen(e) =>
             <<e, Parent[e]>> \in caller[c].links \cup link \cup crossed
      BY <1>2, <1>5 DEF FindWaiting, LinkInv, LinksFound
    <2>6. LinksFound(q)
      BY <2>1, <2>4, <2>5 DEF LinksFound
    <2> QED BY <1>1, <1>3, <2>3, <2>6, LinkSame
  <1> QED BY <1>4, <1>5

\* A commit adds a row and all its links; the pairs it makes with the events of
\* the transactions that are open are crossed unless it links them.
LEMMA LinkCommit ==
    ASSUME TypeInv, LinkInv, NEW c \in Callers, CommitEvent(c)
    PROVE  LinkInv'
  <1>1. caller \in [Callers -> CallerState] /\ caller[c] \in CallerState
    BY CallerFields DEF TypeInv, TypeOK, CallerState
  <1>2. PICK e : e = caller[c].event
    OBVIOUS
  <1>3. /\ stored' = stored \cup {e} /\ link' = link \cup caller[c].links
        /\ caller[c].pc = "commit" /\ e \in Events
        /\ crossed' = (crossed \cup {<<f, Parent[f]>> : f \in {d \in Events : Overlapping(d)}})
                         \ link'
    BY <1>2 DEF CommitEvent, TypeInv, CallerLocals
  \* What was linked or crossed still is, and so are the pairs that overlap.
  <1>4. /\ link \cup crossed \subseteq link' \cup crossed'
        /\ caller[c].links \subseteq link' \cup crossed'
        /\ \A d \in Events : Overlapping(d) => <<d, Parent[d]>> \in link' \cup crossed'
    BY <1>3
  <1>5. LinkedInTurn'
    <2>1. ASSUME NEW d \in stored', Parent[d] \in stored'
          PROVE  <<d, Parent[d]>> \in link' \cup crossed'
      <3>1. CASE d = e
        BY <1>2, <1>3, <1>4, <2>1, <3>1 DEF LinkInv, LinksFound, Seen
      <3>2. CASE d # e /\ Parent[d] = e
        BY <1>2, <1>3, <1>4, <2>1, <3>2 DEF LinkInv, LinksFound, Seen
      <3>3. CASE d # e /\ Parent[d] # e
        BY <1>3, <1>4, <2>1, <3>3 DEF LinkInv, LinkedInTurn
      <3> QED BY <3>1, <3>2, <3>3
    <2> QED BY <2>1 DEF LinkedInTurn
  <1>6. ASSUME NEW d \in Callers PROVE LinksFound(caller[d])'
    <2>1. CASE d = c
      <3>1. caller'[d].pc = "screen"
        BY <1>1, <2>1 DEF CommitEvent, CallerState
      <3> QED BY <3>1 DEF LinksFound
    <2>2. CASE d # c
      <3>1. caller'[d] = caller[d]
        BY <1>1, <2>2 DEF CommitEvent
      <3>2. PICK q : q = caller[d]
        OBVIOUS
      <3>3. SUFFICES ASSUME q.pc \in {"waiting", "commit"} PROVE LinksFound(q)'
        BY <3>1, <3>2 DEF LinksFound
      <3>4. /\ q.event \in Events /\ q.event # e
            /\ InTransaction(q.event) /\ InTransaction(e)
        BY <1>2, <1>3, <2>2, <3>2, <3>3
           DEF TypeInv, CallerLocals, InsertInv, InTransaction
      <3>5. ASSUME Parent[q.event] \in Seen(q.event)'
            PROVE  <<q.event, Parent[q.event]>> \in q.links \cup link' \cup crossed'
        <4>1. CASE Parent[q.event] = e
          BY <1>4, <3>4, <4>1 DEF Overlapping
        <4>2. CASE Parent[q.event] # e
          <5>1. Parent[q.event] \in Seen(q.event)
            BY <1>3, <3>5, <4>2 DEF Seen
          <5> QED BY <1>4, <3>2, <3>3, <5>1 DEF LinkInv, LinksFound
        <4> QED BY <4>1, <4>2
      <3>6. ASSUME q.pc = "commit", NEW v \in Seen(q.event)', Parent[v] = q.event
            PROVE  <<v, q.event>> \in q.links \cup link' \cup crossed'
        <4>1. CASE v = e
          BY <1>3, <1>4, <3>4, <3>6, <4>1 DEF Overlapping
        <4>2. CASE v # e
          <5>1. v \in Seen(q.event)
            BY <1>3, <3>6, <4>2 DEF Seen
          <5> QED BY <1>4, <3>2, <3>6, <5>1 DEF LinkInv, LinksFound
        <4> QED BY <4>1, <4>2
      <3> QED BY <3>5, <3>6 DEF LinksFound
    <2> QED BY <2>1, <2>2
  <1> QED BY <1>5, <1>6 DEF LinkInv

LEMMA LinkStep ==
    ASSUME TypeInv, LinkInv, [Next]_vars PROVE LinkInv'
  <1>t. caller \in [Callers -> CallerState]
    BY DEF TypeInv, TypeOK, CallerState
  \* The slot has found nothing yet, or need not know it any more.
  <1>o. ASSUME NEW c \in Callers, NEW q, q.pc \notin {"waiting", "commit"},
               caller' = [caller EXCEPT ![c] = q], UNCHANGED <<stored, link, crossed>>
        PROVE  LinkInv'
    BY <1>o, <1>t, LinkSame DEF LinksFound
  <1>i. ASSUME NEW c \in Callers, caller' = [caller EXCEPT ![c] = IdleCaller],
               UNCHANGED <<stored, link, crossed>>
        PROVE  LinkInv'
    BY <1>i, <1>o DEF IdleCaller
  <1>1. ASSUME NEW c \in Callers, NEW e \in Events, Ingest(c, e) PROVE LinkInv'
    <2>1. CASE e \in stored
      BY <1>1, <2>1, <1>i DEF Ingest, Reply, historyVars
    <2>2. CASE e \notin stored
      <3>1. PICK q : q = [caller[c] EXCEPT !.pc = "insert", !.event = e]
        OBVIOUS
      <3>2. caller' = [caller EXCEPT ![c] = q]
        BY <1>1, <2>2, <3>1 DEF Ingest
      <3>3. q.pc = "insert"
        BY <1>t, <3>1 DEF CallerState
      <3> QED BY <1>1, <3>2, <3>3, <1>o DEF Ingest, historyVars
    <2> QED BY <2>1, <2>2
  <1>2. ASSUME NEW c \in Callers, InsertEvent(c) PROVE LinkInv'
    <2>1. CASE caller[c].event \in stored
      BY <1>2, <2>1, <1>i DEF InsertEvent, Reply, historyVars
    <2>2. CASE caller[c].event \notin stored
      <3>1. PICK q : q = [caller[c] EXCEPT !.pc = "parent"]
        OBVIOUS
      <3>2. caller' = [caller EXCEPT ![c] = q]
        BY <1>2, <2>2, <3>1 DEF InsertEvent
      <3>3. q.pc = "parent"
        BY <1>t, <3>1 DEF CallerState
      <3> QED BY <1>2, <3>2, <3>3, <1>o DEF InsertEvent, historyVars
    <2> QED BY <2>1, <2>2
  <1>3. ASSUME NEW c \in Callers,
               EmitFraudSignals(c) \/ ReplyDuplicate(c) \/ IngestFails(c)
        PROVE  LinkInv'
    BY <1>3, <1>i DEF EmitFraudSignals, ReplyDuplicate, IngestFails, Reply, historyVars
  <1>8. ASSUME NEW c \in Callers, RecordSignal(c) PROVE LinkInv'
    <2>1. PICK rivals \in SUBSET {d \in Callers \ {c} : caller[d].pc = "screen"} :
             SignalKeyTaken(c, rivals)
      BY <1>8, RecordSignalFacts
    <2>2. /\ UNCHANGED <<stored, link, crossed>>
          /\ \A d \in Callers : caller'[d].pc = "lost" \/ caller'[d] = caller[d]
      BY <2>1 DEF SignalKeyTaken
    <2> QED BY <2>2 DEF LinkInv, LinkedInTurn, LinksFound, Seen
  <1>4. ASSUME UNCHANGED requestVars PROVE LinkInv'
    BY <1>4 DEF requestVars, historyVars, LinkInv, LinkedInTurn, LinksFound, Seen
  <1>5. ASSUME NEW r \in Relays,
               Relay(r) \/ PublishThrows(r) \/ RecordThrows(r) \/ RelayDies(r)
        PROVE  LinkInv'
    BY <1>4, <1>5 DEF Relay, ClaimBatch, Publish, RecordDispatched, Requeue, PublishThrows,
       RecordThrows, RelayDies
  <1>6. ASSUME NEW e \in Events, Handle(e) PROVE LinkInv'
    BY <1>4, <1>6 DEF Handle
  <1>7. CASE UNCHANGED vars
    BY <1>4, <1>7 DEF vars
  <1> QED
    BY <1>1, <1>2, <1>3, <1>5, <1>6, <1>7, <1>8, LinkReads, LinkCommit DEF Next, Request

LEMMA LinkAlways == Spec => []LinkInv
  <1>1. TypeInv /\ LinkInv /\ [Next]_vars => LinkInv'
    BY LinkStep
  <1> QED BY <1>1, TypeAlways, LinkInit, PTL DEF Spec

\* Whichever of two events that refer to each other comes first, and whatever
\* else runs, throws or dies, ingest links them, for any number of events that
\* wait for one, unless the transactions of these two were open at once: then
\* neither need see the other's row (EventIngestionService.ingest).
THEOREM LinkedOneByOne == Spec => []LinkedInTurn
  <1>1. LinkInv => LinkedInTurn
    BY DEF LinkInv
  <1> QED BY <1>1, LinkAlways, PTL

=============================================================================
