--------------------------- MODULE WebhookDelivery ---------------------------
(***************************************************************************)
(* Outbound webhooks: rows of webhookDelivery, the dispatcher loops that   *)
(* claim and send them, and the replays that an admin asks for.            *)
(*                                                                         *)
(* A claim is one updateMany that compares the row with what the           *)
(* dispatcher read before.  Time enters in two ways: a retry becomes due,  *)
(* and a row passes the age of 24 hours.  nextAttemptAt only ever serves   *)
(* to tell two states of a row apart, so it is a counter of the failures.  *)
(***************************************************************************)
EXTENDS Integers, FiniteSets

CONSTANTS
    Rows,           \* ids of webhookDelivery rows
    Dispatchers,    \* worker processes that run the dispatcher loop
    MaxAttempts,    \* attempts after which a row is dead (6 in the code)
    MaxReplays,     \* bound: replays an admin asks for
    MaxThrows,      \* bound: database statements that throw
    MaxCrashes,     \* bound: workers that die
    None            \* no row

ASSUME WebhookAssumption ==
    /\ None \notin Rows
    /\ MaxAttempts \in Nat \ {0}
    /\ MaxReplays \in Nat
    /\ MaxThrows \in Nat
    /\ MaxCrashes \in Nat

VARIABLES
    status,         \* webhookDelivery.status
    attemptCount,   \* webhookDelivery.attemptCount
    nextAttempt,    \* webhookDelivery.nextAttemptAt, as a counter
    due,            \* rows whose nextAttemptAt has passed
    aged,           \* rows created 24 hours ago or more
    received,       \* times the endpoint accepted the row's payload
    disp,           \* control state and locals of each dispatcher
    replays, throws, crashes

rowVars == <<status, attemptCount, nextAttempt>>
timeVars == <<due, aged>>
boundVars == <<replays, throws, crashes>>
vars == <<rowVars, timeVars, received, disp, boundVars>>

Status == {"absent", "pending", "retrying", "delivering", "delivered", "dead_letter"}

\* What a dispatcher keeps of a row it has read.
Snapshot == [status : {"pending", "retrying"}, next : 0..MaxAttempts,
             attempts : 0..MaxAttempts, aged : BOOLEAN]
NoSnapshot == [status |-> "pending", next |-> 0, attempts |-> 0, aged |-> FALSE]

Idle == [pc |-> "idle", seen |-> {}, claimed |-> {}, row |-> None,
         snap |-> [d \in Rows |-> NoSnapshot]]

\* Rows and loops are of their types; a row is never attempted more than
\* MaxAttempts times.
TypeOK ==
    /\ status \in [Rows -> Status]
    /\ attemptCount \in [Rows -> 0..MaxAttempts]
    /\ nextAttempt \in [Rows -> 0..MaxAttempts]
    /\ due \subseteq Rows
    /\ aged \subseteq Rows
    /\ received \in [Rows -> Nat]
    /\ disp \in [Dispatchers ->
          [pc : {"idle", "claim", "send", "deliver", "refuse", "fail"},
           seen : SUBSET Rows, claimed : SUBSET Rows, row : Rows \cup {None},
           snap : [Rows -> Snapshot]]]
    /\ replays \in 0..MaxReplays
    /\ throws \in 0..MaxThrows
    /\ crashes \in 0..MaxCrashes

Init ==
    /\ status = [d \in Rows |-> "absent"]
    /\ attemptCount = [d \in Rows |-> 0]
    /\ nextAttempt = [d \in Rows |-> 0]
    /\ due = {} /\ aged = {}
    /\ received = [d \in Rows |-> 0]
    /\ disp = [w \in Dispatchers |-> Idle]
    /\ replays = 0 /\ throws = 0 /\ crashes = 0

-----------------------------------------------------------------------------
(* The rows.                                                               *)

\* A new row is pending and due at once.
CreateRow(d) ==
    /\ status[d] = "absent"
    /\ status' = [status EXCEPT ![d] = "pending"]
    /\ due' = due \cup {d}
    /\ UNCHANGED <<attemptCount, nextAttempt, aged, received, disp, throws, crashes>>

\* enqueueForEndpoints.
Enqueue(d) == CreateRow(d) /\ UNCHANGED replays

\* replayDelivery copies a row that is terminal or waits for a retry.
ReplayDelivery(d, copy) ==
    /\ replays < MaxReplays
    /\ status[d] \in {"delivered", "dead_letter", "retrying"}
    /\ replays' = replays + 1
    /\ CreateRow(copy)

BecomesDue(d) ==
    /\ status[d] = "retrying"
    /\ d \notin due
    /\ due' = due \cup {d}
    /\ UNCHANGED <<rowVars, aged, received, disp, boundVars>>

\* Only rows that a dispatcher may still find are looked at for their age.
PassesADay(d) ==
    /\ status[d] \in {"pending", "retrying"}
    /\ d \notin aged
    /\ aged' = aged \cup {d}
    /\ UNCHANGED <<rowVars, due, received, disp, boundVars>>

-----------------------------------------------------------------------------
(* The dispatcher.                                                         *)

\* Mutant of DueRows: retries are not looked for.
FreshRows == {d \in due : status[d] = "pending"}

DueRows == {d \in due : status[d] \in {"pending", "retrying"}}

\* claimDueBatch, first part: find the due rows.
FindDue(w) ==
    /\ disp[w].pc = "idle"
    /\ DueRows # {}
    /\ disp' = [disp EXCEPT ![w].pc = "claim", ![w].seen = DueRows,
          ![w].snap = [d \in Rows |->
              IF d \in DueRows
              THEN [status |-> status[d], next |-> nextAttempt[d],
                    attempts |-> attemptCount[d], aged |-> d \in aged]
              ELSE NoSnapshot]]
    /\ UNCHANGED <<rowVars, timeVars, received, boundVars>>

\* What is still read of a copy once its row is claimed.
Kept(snap) == [status |-> "pending", next |-> 0, attempts |-> snap.attempts, aged |-> snap.aged]

\* Mutant of ClaimRow: updates by id, whatever became of the row.
ClaimById(w) ==
    \E d \in disp[w].seen :
        /\ disp[w].pc = "claim"
        /\ status' = [status EXCEPT ![d] = "delivering"]
        /\ disp' = [disp EXCEPT ![w].seen = @ \ {d}, ![w].claimed = @ \cup {d}]
        /\ UNCHANGED <<attemptCount, nextAttempt, timeVars, received, boundVars>>

\* claimDueBatch, second part: a row is claimed if it is as it was read.
ClaimRow(w) ==
    \E d \in disp[w].seen :
        LET snap == disp[w].snap[d]
            same == status[d] = snap.status /\ nextAttempt[d] = snap.next
        IN  /\ disp[w].pc = "claim"
            /\ status' = IF same THEN [status EXCEPT ![d] = "delivering"] ELSE status
            /\ disp' = [disp EXCEPT ![w].seen = @ \ {d},
                                    ![w].claimed = IF same THEN @ \cup {d} ELSE @,
                                    ![w].snap[d] = IF same THEN Kept(snap) ELSE NoSnapshot]
            /\ UNCHANGED <<attemptCount, nextAttempt, timeVars, received, boundVars>>

\* The batch is complete: send it, or return.
StartSending(w) ==
    /\ disp[w].pc = "claim"
    /\ disp[w].seen = {}
    /\ disp' = [disp EXCEPT ![w] =
          IF disp[w].claimed = {} THEN Idle ELSE [disp[w] EXCEPT !.pc = "send"]]
    /\ UNCHANGED <<rowVars, timeVars, received, boundVars>>

Take(w, d, pc) ==
    /\ disp[w].pc = "send"
    /\ disp' = [disp EXCEPT ![w].pc = pc, ![w].row = d, ![w].claimed = @ \ {d}]

\* The endpoint answers 2xx ...
EndpointAccepts(w) ==
    \E d \in disp[w].claimed :
        /\ Take(w, d, "deliver")
        /\ received' = [received EXCEPT ![d] = @ + 1]
        /\ UNCHANGED <<rowVars, timeVars, boundVars>>

\* ... or another status ...
EndpointRefuses(w) ==
    \E d \in disp[w].claimed :
        /\ Take(w, d, "refuse")
        /\ UNCHANGED <<rowVars, timeVars, received, boundVars>>

\* ... or fetch throws, before or after the endpoint took the payload.
FetchThrows(w) ==
    \E d \in disp[w].claimed :
        /\ Take(w, d, "fail")
        /\ \/ UNCHANGED received
           \/ received' = [received EXCEPT ![d] = @ + 1]
        /\ UNCHANGED <<rowVars, timeVars, boundVars>>

NextRow(w) ==
    disp' = [disp EXCEPT ![w] =
        IF disp[w].claimed = {} THEN Idle
        ELSE [disp[w] EXCEPT !.pc = "send", !.row = None,
                             !.snap[disp[w].row] = NoSnapshot]]

MarkDelivered(w) ==
    LET d == disp[w].row
    IN  /\ disp[w].pc = "deliver"
        /\ status' = [status EXCEPT ![d] = "delivered"]
        /\ attemptCount' = [attemptCount EXCEPT ![d] = @ + 1]
        /\ NextRow(w)
        /\ UNCHANGED <<nextAttempt, timeVars, received, boundVars>>

\* Mutant of ShouldDeadLetter: looks at the age only.
DeadLetterByAge(snap) == snap.aged

\* Mutant of ShouldDeadLetter: an attempt too early.
DeadLetterEarly(snap) == snap.attempts + 2 >= MaxAttempts \/ snap.aged

\* The attempt number is the one of the claimed copy, the age that of the batch.
ShouldDeadLetter(snap) == snap.attempts + 1 >= MaxAttempts \/ snap.aged

MarkFailure(w) ==
    LET d == disp[w].row
    IN  /\ disp[w].pc \in {"refuse", "fail"}
        /\ status' = [status EXCEPT ![d] =
              IF ShouldDeadLetter(disp[w].snap[d]) THEN "dead_letter" ELSE "retrying"]
        /\ attemptCount' = [attemptCount EXCEPT ![d] = @ + 1]
        /\ nextAttempt' = [nextAttempt EXCEPT ![d] = @ + 1]
        /\ due' = due \ {d}
        /\ NextRow(w)
        /\ UNCHANGED <<aged, received, boundVars>>

\* markDelivered or the first markFailure throws: the catch block counts a
\* failure, even of a payload that was accepted.
MarkThrows(w) ==
    /\ disp[w].pc \in {"deliver", "refuse"}
    /\ throws < MaxThrows
    /\ throws' = throws + 1
    /\ disp' = [disp EXCEPT ![w].pc = "fail"]
    /\ UNCHANGED <<rowVars, timeVars, received, replays, crashes>>

\* A claim or the catch block throws, or the worker dies: claimed rows stay
\* delivering, and nothing looks for such rows.
DispatcherDies(w) ==
    /\ disp[w].pc # "idle"
    /\ crashes < MaxCrashes
    /\ crashes' = crashes + 1
    /\ disp' = [disp EXCEPT ![w] = Idle]
    /\ UNCHANGED <<rowVars, timeVars, received, replays, throws>>

Dispatch(w) ==
    \/ FindDue(w) \/ ClaimRow(w) \/ StartSending(w)
    \/ EndpointAccepts(w) \/ EndpointRefuses(w) \/ FetchThrows(w)
    \/ MarkDelivered(w) \/ MarkFailure(w)

Next ==
    \/ \E d \in Rows :
          \/ Enqueue(d) \/ BecomesDue(d) \/ PassesADay(d)
          \/ \E copy \in Rows : ReplayDelivery(d, copy)
    \/ \E w \in Dispatchers : Dispatch(w) \/ MarkThrows(w) \/ DispatcherDies(w)

Spec == Init /\ [][Next]_vars

\* The dispatchers poll, fetch returns, and the clock runs.
Fairness ==
    /\ \A w \in Dispatchers : WF_vars(Dispatch(w))
    /\ \A d \in Rows : WF_vars(BecomesDue(d))

FairSpec == Spec /\ Fairness

-----------------------------------------------------------------------------
(* Properties.                                                             *)

\* Rows a dispatcher has claimed and not finished.
InHand(w) == disp[w].claimed \cup ({disp[w].row} \ {None})

\* Duplicate dispatcher loops never have the same row in hand, and a row in
\* hand is delivering.
ClaimedOnce ==
    /\ \A v, w \in Dispatchers : v # w => InHand(v) \cap InHand(w) = {}
    /\ \A w \in Dispatchers : \A d \in InHand(w) : status[d] = "delivering"

\* Only an accepted payload is called delivered, and a row is dead only after
\* its last attempt or its first day.
OutcomeIsJustified ==
    \A d \in Rows :
        /\ status[d] = "delivered" => received[d] >= 1
        /\ status[d] = "dead_letter" => attemptCount[d] = MaxAttempts \/ d \in aged

\* Every row is eventually delivered or given up, unless a dispatcher dies.
EveryRowIsSettled ==
    \A d \in Rows :
        status[d] = "pending" ~>
            status[d] \in {"delivered", "dead_letter"} \/ crashes > 0
=============================================================================
