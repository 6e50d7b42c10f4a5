--------------------------- MODULE EventDelivery ---------------------------
(***************************************************************************)
(* The way of an event from the HTTP request that reports it to the reward *)
(* consumer: EventIngestionService writes the event, its outbox row and    *)
(* its links in one transaction, OutboxRelayService publishes the row to   *)
(* RabbitMQ, and the consumer handles the message and acknowledges it.     *)
(*                                                                         *)
(* An event may refer to a parent (a refund to its purchase).  The reads   *)
(* of a transaction are steps of their own (READ COMMITTED) and its writes *)
(* are one step, its commit.  Statements may throw and processes may die.  *)
(***************************************************************************)
EXTENDS Integers, FiniteSets, FiniteSetsExt

CONSTANTS
    Events,         \* events, told apart by (tenantId, idempotencyKey)
    Parent,         \* [Events -> Events \cup {None}]: linkedExternalEventId
    Callers,        \* slots in which POST /v1/events runs
    Relays,         \* worker processes that run the outbox loop
    BatchSize,      \* rows a relay claims at once (50 in the code)
    MaxAttempts,    \* publications tried for one row (10 in the code)
    MaxThrows,      \* bound: statements and publications that throw
    MaxCrashes,     \* bound: processes that die
    None            \* no event

ASSUME DeliveryAssumption ==
    /\ None \notin Events
    /\ Parent \in [Events -> Events \cup {None}]
    /\ BatchSize \in Nat \ {0}
    /\ MaxAttempts \in Nat \ {0}
    /\ MaxThrows \in Nat
    /\ MaxCrashes \in Nat

VARIABLES
    stored,     \* ingestedEvent rows
    link,       \* eventLink rows, <<event, linked event>>
    screened,   \* events on which every fraud check was run
    outrun,     \* history: <<e, f>> if e's request lost a signal's key to f's
    crossed,    \* history: <<e, Parent[e]>> if their transactions were open at
                \* once and no link has come of it
    accepted,   \* events acknowledged with 202
    caller,     \* control state and locals of each request
    outbox,     \* outboxMessage.status
    attempts,   \* outboxMessage.attempts
    relay,      \* control state and locals of each relay
    queue,      \* messages the broker holds for the reward consumer, per event
    published,  \* messages it was ever given
    handled,    \* events the consumer has handled and acknowledged
    throws, crashes

historyVars == <<outrun, crossed>>
requestVars == <<stored, link, screened, accepted, caller, historyVars>>
outboxVars == <<outbox, attempts, relay>>
brokerVars == <<queue, published, handled>>
faultVars == <<throws, crashes>>
vars == <<requestVars, outboxVars, brokerVars, faultVars>>

IdleCaller == [pc |-> "idle", event |-> None, links |-> {}]
IdleRelay == [pc |-> "idle", batch |-> {}, row |-> None]

\* Rows, messages and loops are of their types; an outbox row is never tried
\* more than MaxAttempts times.
TypeOK ==
    /\ stored \subseteq Events
    /\ link \subseteq Events \X Events
    /\ screened \subseteq Events
    /\ outrun \subseteq Events \X Events
    /\ crossed \subseteq Events \X Events
    /\ accepted \subseteq Events
    /\ caller \in [Callers ->
          [pc : {"idle", "insert", "parent", "waiting", "commit", "screen", "lost"},
           event : Events \cup {None}, links : SUBSET (Events \X Events)]]
    /\ outbox \in [Events -> {"absent", "pending", "in_progress", "dispatched"}]
    /\ attempts \in [Events -> 0..MaxAttempts]
    /\ relay \in [Relays ->
          [pc : {"idle", "publish", "record", "requeue"},
           batch : SUBSET Events, row : Events \cup {None}]]
    /\ queue \in [Events -> Nat]
    /\ published \in [Events -> Nat]
    /\ handled \subseteq Events
    /\ throws \in 0..MaxThrows
    /\ crashes \in 0..MaxCrashes

Init ==
    /\ stored = {} /\ link = {} /\ screened = {} /\ accepted = {}
    /\ outrun = {} /\ crossed = {}
    /\ caller = [c \in Callers |-> IdleCaller]
    /\ outbox = [e \in Events |-> "absent"]
    /\ attempts = [e \in Events |-> 0]
    /\ relay = [r \in Relays |-> IdleRelay]
    /\ queue = [e \in Events |-> 0]
    /\ published = [e \in Events |-> 0]
    /\ handled = {}
    /\ throws = 0 /\ crashes = 0

-----------------------------------------------------------------------------
(* Ingestion.  A client reports an event until it is acknowledged.         *)

Reply(c, e) ==
    /\ accepted' = accepted \cup {e}
    /\ caller' = [caller EXCEPT ![c] = IdleCaller]

InTransaction(e) ==
    \E c \in Callers :
        caller[c].event = e /\ caller[c].pc \in {"parent", "waiting", "commit"}

\* The lookup by idempotency key; a hit is answered as a duplicate.
Ingest(c, e) ==
    /\ caller[c].pc = "idle"
    /\ IF e \in stored
       THEN Reply(c, e)
       ELSE /\ caller' = [caller EXCEPT ![c].pc = "insert", ![c].event = e]
            /\ UNCHANGED accepted
    /\ UNCHANGED <<stored, link, screened, historyVars, outboxVars, brokerVars, faultVars>>

\* Mutant of InsertEvent: no unique key, and no P2002 to turn into a reply.
InsertTwice(c) ==
    /\ caller[c].pc = "insert"
    /\ caller' = [caller EXCEPT ![c].pc = "parent"]
    /\ UNCHANGED <<accepted, stored, link, screened, historyVars>>
    /\ UNCHANGED <<outboxVars, brokerVars, faultVars>>

\* The unique key makes the insert wait for a transaction that has inserted the
\* same event; if that one commits, P2002 is answered as a duplicate.
InsertEvent(c) ==
    LET e == caller[c].event
    IN  /\ caller[c].pc = "insert"
        /\ ~InTransaction(e)
        /\ IF e \in stored
           THEN Reply(c, e)
           ELSE /\ caller' = [caller EXCEPT ![c].pc = "parent"]
                /\ UNCHANGED accepted
        /\ UNCHANGED <<stored, link, screened, historyVars, outboxVars, brokerVars, faultVars>>

\* What the transaction of event e reads: it sees its own insert.
Seen(e) == stored \cup {e}

FindParent(c) ==
    LET e == caller[c].event
    IN  /\ caller[c].pc = "parent"
        /\ caller' = [caller EXCEPT ![c].pc = "waiting",
                                    ![c].links = {e} \X (Seen(e) \cap {Parent[e]})]
        /\ UNCHANGED <<stored, link, screened, accepted, historyVars>>
        /\ UNCHANGED <<outboxVars, brokerVars, faultVars>>

\* Mutant of FindWaiting: events that came before their parent stay unlinked.
IgnoreWaiting(c) ==
    /\ caller[c].pc = "waiting"
    /\ caller' = [caller EXCEPT ![c].pc = "commit"]
    /\ UNCHANGED <<stored, link, screened, accepted, historyVars>>
    /\ UNCHANGED <<outboxVars, brokerVars, faultVars>>

\* Events that refer to this one.
FindWaiting(c) ==
    LET e == caller[c].event
        waiting == {d \in Seen(e) : Parent[d] = e}
    IN  /\ caller[c].pc = "waiting"
        /\ caller' = [caller EXCEPT ![c].pc = "commit", ![c].links = @ \cup (waiting \X {e})]
        /\ UNCHANGED <<stored, link, screened, accepted, historyVars>>
        /\ UNCHANGED <<outboxVars, brokerVars, faultVars>>

\* The transactions of an event and of its parent are open at once.
Overlapping(e) ==
    Parent[e] # e /\ InTransaction(e) /\ InTransaction(Parent[e])

CommitEvent(c) ==
    LET e == caller[c].event
    IN  /\ caller[c].pc = "commit"
        /\ stored' = stored \cup {e}
        /\ outbox' = [outbox EXCEPT ![e] = "pending"]
        /\ link' = link \cup caller[c].links
        /\ crossed' = (crossed \cup {<<f, Parent[f]>> : f \in {d \in Events : Overlapping(d)}})
                         \ link'
        /\ caller' = [caller EXCEPT ![c].pc = "screen", ![c].links = {}]
        /\ UNCHANGED <<screened, accepted, outrun, attempts, relay, brokerVars, faultVars>>

\* Mutant of EmitFraudSignals: an error of the screening is swallowed.
EmitErrorSwallowed(c) ==
    /\ caller[c].pc = "screen"
    /\ screened' \in {screened, screened \cup {caller[c].event}}
    /\ Reply(c, caller[c].event)
    /\ UNCHANGED <<stored, link, historyVars, outboxVars, brokerVars, faultVars>>

\* emitFraudSignals runs after the commit and before the reply: every check ran,
\* and every signal was recorded or its key found.
EmitFraudSignals(c) ==
    /\ caller[c].pc = "screen"
    /\ screened' = screened \cup {caller[c].event}
    /\ Reply(c, caller[c].event)
    /\ UNCHANGED <<stored, link, historyVars, outboxVars, brokerVars, faultVars>>

\* recordSignal looks a dedupe key up and then inserts the signal: the insert of
\* slot c fails those of the rivals, who looked the same key up in vain.
RecordSignal(c) ==
    \E rivals \in SUBSET {d \in Callers \ {c} : caller[d].pc = "screen"} :
        /\ caller[c].pc = "screen"
        /\ rivals # {}
        /\ caller' = [d \in Callers |-> IF d \in rivals THEN [caller[d] EXCEPT !.pc = "lost"]
                                       ELSE caller[d]]
        /\ outrun' = outrun \cup {<<caller[d].event, caller[c].event>> : d \in rivals}
        /\ UNCHANGED <<stored, link, screened, accepted, crossed>>
        /\ UNCHANGED <<outboxVars, brokerVars, faultVars>>

\* P2002 of a signal's key is taken for the event's: the event is found and
\* answered as a duplicate, and the checks that are left do not run.
ReplyDuplicate(c) ==
    /\ caller[c].pc = "lost"
    /\ Reply(c, caller[c].event)
    /\ UNCHANGED <<stored, link, screened, historyVars, outboxVars, brokerVars, faultVars>>

\* A statement throws or the server dies; a transaction leaves nothing behind.
IngestFails(c) ==
    /\ caller[c].pc # "idle"
    /\ throws < MaxThrows
    /\ throws' = throws + 1
    /\ caller' = [caller EXCEPT ![c] = IdleCaller]
    /\ UNCHANGED <<stored, link, screened, accepted, historyVars>>
    /\ UNCHANGED <<outboxVars, brokerVars, crashes>>

-----------------------------------------------------------------------------
(* The relay.                                                              *)

Claimable == {e \in Events : outbox[e] = "pending" /\ attempts[e] < MaxAttempts}

\* Mutant of ClaimBatch: selects without marking the rows.
SelectBatch(r) ==
    \E batch \in kSubset(Min({BatchSize, Cardinality(Claimable)}), Claimable) :
        /\ relay[r].pc = "idle"
        /\ batch # {}
        /\ relay' = [relay EXCEPT ![r].pc = "publish", ![r].batch = batch]
        /\ UNCHANGED <<requestVars, outbox, attempts, brokerVars, faultVars>>

\* FOR UPDATE SKIP LOCKED and the update to in_progress are one transaction.
\* createdAt is the time of the insert, not of the commit: any order may occur.
ClaimBatch(r) ==
    \E batch \in kSubset(Min({BatchSize, Cardinality(Claimable)}), Claimable) :
        /\ relay[r].pc = "idle"
        /\ batch # {}
        /\ outbox' = [e \in Events |-> IF e \in batch THEN "in_progress" ELSE outbox[e]]
        /\ relay' = [relay EXCEPT ![r].pc = "publish", ![r].batch = batch]
        /\ UNCHANGED <<requestVars, attempts, brokerVars, faultVars>>

Publish(r) ==
    \E e \in relay[r].batch :
        /\ relay[r].pc = "publish"
        /\ queue' = [queue EXCEPT ![e] = @ + 1]
        /\ published' = [published EXCEPT ![e] = @ + 1]
        /\ relay' = [relay EXCEPT ![r].pc = "record", ![r].row = e]
        /\ UNCHANGED <<requestVars, outbox, attempts, handled, faultVars>>

\* publish throws; the row is not published.
PublishThrows(r) ==
    \E e \in relay[r].batch :
        /\ relay[r].pc = "publish"
        /\ throws < MaxThrows
        /\ throws' = throws + 1
        /\ relay' = [relay EXCEPT ![r].pc = "requeue", ![r].row = e]
        /\ UNCHANGED <<requestVars, outbox, attempts, brokerVars, crashes>>

\* The next row of the batch, or the end of it.
NextRow(r, e) ==
    relay' = [relay EXCEPT ![r] =
        IF relay[r].batch = {e} THEN IdleRelay
        ELSE [pc |-> "publish", batch |-> relay[r].batch \ {e}, row |-> None]]

RecordDispatched(r) ==
    LET e == relay[r].row
    IN  /\ relay[r].pc = "record"
        /\ outbox' = [outbox EXCEPT ![e] = "dispatched"]
        /\ NextRow(r, e)
        /\ UNCHANGED <<requestVars, attempts, brokerVars, faultVars>>

\* The update throws: the catch block handles a row that was published.
RecordThrows(r) ==
    /\ relay[r].pc = "record"
    /\ throws < MaxThrows
    /\ throws' = throws + 1
    /\ relay' = [relay EXCEPT ![r].pc = "requeue"]
    /\ UNCHANGED <<requestVars, outbox, attempts, brokerVars, crashes>>

\* Mutant of Requeue: gives a row up by calling it dispatched.
RequeueAsDispatched(r) ==
    LET e == relay[r].row
    IN  /\ relay[r].pc = "requeue"
        /\ outbox' = [outbox EXCEPT ![e] = "dispatched"]
        /\ attempts' = [attempts EXCEPT ![e] = @ + 1]
        /\ NextRow(r, e)
        /\ UNCHANGED <<requestVars, brokerVars, faultVars>>

Requeue(r) ==
    LET e == relay[r].row
    IN  /\ relay[r].pc = "requeue"
        /\ outbox' = [outbox EXCEPT ![e] = "pending"]
        /\ attempts' = [attempts EXCEPT ![e] = @ + 1]
        /\ NextRow(r, e)
        /\ UNCHANGED <<requestVars, brokerVars, faultVars>>

\* The catch block throws too, or the worker dies: the rest of the batch stays
\* in_progress, and nothing looks at such rows again.
RelayDies(r) ==
    /\ relay[r].pc # "idle"
    /\ crashes < MaxCrashes
    /\ crashes' = crashes + 1
    /\ relay' = [relay EXCEPT ![r] = IdleRelay]
    /\ UNCHANGED <<requestVars, outbox, attempts, brokerVars, throws>>

Relay(r) ==
    \/ ClaimBatch(r) \/ Publish(r) \/ RecordDispatched(r) \/ Requeue(r)

-----------------------------------------------------------------------------
(* The consumer.                                                           *)

\* What RewardPosting does with the message, and the acknowledgement.
Handle(e) ==
    /\ queue[e] > 0
    /\ queue' = [queue EXCEPT ![e] = @ - 1]
    /\ handled' = handled \cup {e}
    /\ UNCHANGED <<requestVars, outboxVars, published, faultVars>>

-----------------------------------------------------------------------------
Request(c) ==
    \/ InsertEvent(c) \/ FindParent(c) \/ FindWaiting(c) \/ CommitEvent(c)
    \/ EmitFraudSignals(c) \/ RecordSignal(c) \/ ReplyDuplicate(c)

Next ==
    \/ \E c \in Callers :
          \/ \E e \in Events : Ingest(c, e)
          \/ Request(c) \/ IngestFails(c)
    \/ \E r \in Relays :
          Relay(r) \/ PublishThrows(r) \/ RecordThrows(r) \/ RelayDies(r)
    \/ \E e \in Events : Handle(e)

Spec == Init /\ [][Next]_vars

\* Requests run on, the relay polls, and the broker delivers.
Fairness ==
    /\ \A c \in Callers : WF_vars(Request(c))
    /\ \A r \in Relays : WF_vars(Relay(r))
    /\ \A e \in Events : WF_vars(Handle(e))

FairSpec == Spec /\ Fairness

-----------------------------------------------------------------------------
(* Properties.                                                             *)

\* No two relays ever hold the same row.
ClaimedByOneRelay ==
    \A r, s \in Relays : r # s => relay[r].batch \cap relay[s].batch = {}

\* A row called dispatched was published, and an event is published once more
\* at most for every attempt its row has counted or a relay is about to count.
DispatchedIsPublished ==
    \A e \in Events :
        /\ outbox[e] = "dispatched" => published[e] >= 1
        /\ published[e] <= attempts[e] + 1

\* A stored event that refers to a stored event is linked to it, in whichever
\* order the two were reported and whatever else runs or fails, unless the
\* transactions of these two were open at once.
LinkedInTurn ==
    \A e \in stored :
        Parent[e] \in stored => <<e, Parent[e]>> \in link \cup crossed

\* An event that was acknowledged is eventually handled by the consumer, unless
\* a relay dies or the event's row uses up its attempts.
AcceptedIsHandled ==
    \A e \in Events :
        e \in accepted ~> \/ e \in handled
                          \/ crashes > 0
                          \/ attempts[e] = MaxAttempts

\* A crash between the commit and the publication does not lose an event.
NoEventIsLost == \A e \in Events : e \in accepted ~> e \in handled

\* No event reaches the consumer twice unless a statement threw.
HandledOnceWithoutFaults ==
    throws = 0 => \A e \in Events : published[e] <= 1

\* When no request is running and no statement threw, every acknowledged event
\* was screened but for one whose request lost a signal's key to the request of
\* another event; and as long as a key was lost, some event was screened: the
\* requests cannot all lose to each other.
AcceptedIsScreened ==
    throws = 0 /\ (\A c \in Callers : caller[c].pc = "idle") =>
        /\ \A e \in accepted \ screened :
              \E f \in stored \ {e} : <<e, f>> \in outrun
        /\ outrun # {} => screened # {}
=============================================================================
