---------------------------- MODULE FraudSignals ----------------------------
(***************************************************************************)
(* How stored events become risk signals and signals become risk cases:    *)
(* EventIngestionService.emitFraudSignals runs five checks on an event it  *)
(* has just committed, FraudService.recordSignal writes one row per dedupe *)
(* key and opens a case for a user whose rolling score has reached the     *)
(* threshold.  Reviewers close cases meanwhile.                            *)
(*                                                                         *)
(* A step is one statement.  Every event lies inside every time window of  *)
(* the configuration.                                                      *)
(***************************************************************************)
EXTENDS Integers, FiniteSets, FiniteSetsExt, Sequences

CONSTANTS
    People,         \* external user ids
    Reports,        \* events, told apart by their idempotency keys
    Facts,          \* [Reports -> Fact]: what each event says
    CodeOwner,      \* [codes -> People]: who owns an active referral code
    Velocity,       \* velocityReferralCountThreshold
    Screeners,      \* requests that run at once
    MaxFailures,    \* bound: events whose request fails
    None

Kinds == {"registered", "paid", "refund"}
Checks == <<"self", "ip", "velocity", "card", "refunds">>

\* parseFraudConfig's defaults.
Weight == [self |-> 100, ip |-> 35, velocity |-> 30, card |-> 45, refunds |-> 60]
CaseThreshold == 100

VARIABLES
    members,    \* people who have a tenantUser row
    events,     \* ingestedEvent rows
    signals,    \* riskSignal rows: dedupe key and user (None if unknown)
    active,     \* number of riskCase rows per user that are open or escalated
    suspected,  \* history: users for whom a case was opened
    answer,     \* what the request that stored an event answered
    halted,     \* history: users whose signal's request threw or died, and
    unscreened, \* events whose request did
    screen      \* control state and locals of each request

rowVars == <<members, events, signals>>
caseVars == <<active, suspected>>
historyVars == <<answer, halted, unscreened>>
vars == <<rowVars, caseVars, historyVars, screen>>

Idle == [pc |-> "idle", event |-> None, member |-> None, todo |-> <<>>,
         key |-> <<>>, user |-> None]

\* Every row is of its type; a request holds at most one signal.
TypeOK ==
    /\ members \subseteq People /\ events \subseteq Reports
    /\ \A s \in signals : s.user \in People \cup {None} /\ s.key[1] \in DOMAIN Weight
    /\ active \in [People -> Nat] /\ suspected \subseteq People
    /\ answer \in [Reports -> {"none", "created", "duplicate"}]
    /\ halted \subseteq People /\ unscreened \subseteq Reports
    /\ \A h \in Screeners :
          /\ screen[h].pc \in {"idle", "lookup", "check", "dedupe", "create", "score",
                               "find", "open"}
          /\ screen[h].event \in Reports \cup {None}
          /\ screen[h].member \in People \cup {None}

Init ==
    /\ members \in SUBSET People /\ events = {} /\ signals = {}
    /\ active = [u \in People |-> 0] /\ suspected = {}
    /\ answer = [e \in Reports |-> "none"] /\ halted = {} /\ unscreened = {}
    /\ screen = [h \in Screeners |-> Idle]

At(h, pc) == screen[h].pc = pc
Goto(h, pc) == screen' = [screen EXCEPT ![h].pc = pc]

\* The check in hand is done.
NextCheck(h) ==
    screen' = [screen EXCEPT ![h].pc = "check", ![h].todo = Tail(@),
                             ![h].key = <<>>, ![h].user = None]

Answer(h, kind) ==
    /\ answer' = [answer EXCEPT ![screen[h].event] = kind]
    /\ screen' = [screen EXCEPT ![h] = Idle]

-----------------------------------------------------------------------------
(* What the checks look for among the stored events.                       *)

With(field, value) == {e \in events : Facts[e][field] = value}
Registrations == With("kind", "registered")
Payments == With("kind", "paid") \cup With("kind", "refund")
UsersOf(es) == {Facts[e].user : e \in es}

\* Mutant of CardUsers: refunds are not looked at.
CardPayers(card) == UsersOf(With("card", card) \cap With("kind", "paid"))
\* Users of the recent payments and refunds that carry the fingerprint.
CardUsers(card) == UsersOf(With("card", card) \cap Payments)
IpUsers(ip) == UsersOf(With("ip", ip) \cap Registrations)
CodeUses(code) == Cardinality(With("code", code) \cap Registrations)
RefundsOf(u) == Cardinality(With("user", u) \cap With("kind", "refund"))
PurchasesOf(u) == Cardinality(With("user", u) \cap With("kind", "paid"))

Suspicious(check, fact, member) ==
    CASE check = "self" -> fact.kind = "registered" /\ fact.self
      [] check = "ip" ->
            fact.kind = "registered" /\ fact.ip # None /\ Cardinality(IpUsers(fact.ip)) >= 2
      [] check = "velocity" ->
            fact.kind = "registered" /\ fact.code # None /\ CodeUses(fact.code) >= Velocity
      [] check = "card" -> fact.card # None /\ Cardinality(CardUsers(fact.card)) >= 2
      [] check = "refunds" ->
            /\ fact.kind = "refund" /\ member # None
            /\ PurchasesOf(fact.user) > 0
            /\ 2 * RefundsOf(fact.user) >= PurchasesOf(fact.user)

\* The dedupe keys; counts that are part of a key make a new one each time.
Key(check, fact) ==
    CASE check = "self" -> <<check, fact.user>>
      [] check = "ip" -> <<check, fact.user, fact.ip>>
      [] check = "velocity" -> <<check, fact.code, CodeUses(fact.code)>>
      [] check = "card" -> <<check, fact.user, fact.card>>
      [] check = "refunds" ->
            <<check, fact.user, RefundsOf(fact.user), PurchasesOf(fact.user)>>

-----------------------------------------------------------------------------
(* Ingestion: the event is committed before it is screened.                *)

Receive(h, e) ==
    /\ At(h, "idle") /\ e \notin events
    /\ events' = events \cup {e}
    /\ screen' = [screen EXCEPT ![h].pc = "lookup", ![h].event = e, ![h].todo = Checks]
    /\ UNCHANGED <<members, signals, caseVars, historyVars>>

\* lookupTenantUserId.
LookUp(h) ==
    LET u == Facts[screen[h].event].user
    IN  /\ At(h, "lookup")
        /\ screen' = [screen EXCEPT ![h].pc = "check",
                                    ![h].member = IF u \in members THEN u ELSE None]
        /\ UNCHANGED <<rowVars, caseVars, historyVars>>

Check(h) ==
    LET fact == Facts[screen[h].event]
        check == Head(screen[h].todo)
    IN  /\ At(h, "check") /\ screen[h].todo # <<>>
        /\ IF Suspicious(check, fact, screen[h].member)
           THEN screen' = [screen EXCEPT
                   ![h].pc = "dedupe", ![h].key = Key(check, fact),
                   ![h].user = IF check = "velocity" THEN CodeOwner[fact.code]
                                ELSE screen[h].member]
           ELSE NextCheck(h)
        /\ UNCHANGED <<rowVars, caseVars, historyVars>>

Created(h) ==
    /\ At(h, "check") /\ screen[h].todo = <<>>
    /\ Answer(h, "created")
    /\ UNCHANGED <<rowVars, caseVars, halted, unscreened>>

-----------------------------------------------------------------------------
(* recordSignal.                                                           *)

Taken(key) == \E s \in signals : s.key = key

Dedupe(h) ==
    /\ At(h, "dedupe")
    /\ IF Taken(screen[h].key) THEN NextCheck(h) ELSE Goto(h, "create")
    /\ UNCHANGED <<rowVars, caseVars, historyVars>>

\* The loser's P2002 leaves recordSignal and emitFraudSignals; ingest takes it
\* for one of the event's own key and answers a duplicate.
CreateSignal(h) ==
    /\ At(h, "create")
    /\ IF Taken(screen[h].key)
       THEN /\ Answer(h, "duplicate")
            /\ UNCHANGED signals
       ELSE /\ signals' = signals \cup {[key |-> screen[h].key, user |-> screen[h].user]}
            /\ Goto(h, "score")
            /\ UNCHANGED answer
    /\ UNCHANGED <<members, events, caseVars, halted, unscreened>>

Score(rows) == MapThenSumSet(LAMBDA s : Weight[s.key[1]], rows)

\* computeRollingScore: the weights of the user's active signals.
RollingScore(u) == Score({s \in signals : s.user = u})

\* Mutant of Crosses: a score that is the threshold does not reach it.
Exceeds(u) == RollingScore(u) > CaseThreshold
Crosses(u) == RollingScore(u) >= CaseThreshold

ComputeRollingScore(h) ==
    LET u == screen[h].user
    IN  /\ At(h, "score")
        /\ IF u # None /\ Crosses(u)
           THEN Goto(h, "find")
           ELSE NextCheck(h)
        /\ UNCHANGED <<rowVars, caseVars, historyVars>>

\* ensureOpenCase reads, then writes: two at once open two cases.
FindCase(h) ==
    /\ At(h, "find")
    /\ IF active[screen[h].user] > 0 THEN NextCheck(h) ELSE Goto(h, "open")
    /\ UNCHANGED <<rowVars, caseVars, historyVars>>

OpenCase(h) ==
    /\ At(h, "open")
    /\ active' = [active EXCEPT ![screen[h].user] = @ + 1]
    /\ suspected' = suspected \cup {screen[h].user}
    /\ NextCheck(h)
    /\ UNCHANGED <<rowVars, historyVars>>

-----------------------------------------------------------------------------
(* The rest of the world.                                                  *)

\* allowCase or rejectCase; the signals stay active.
CloseCase(u) ==
    /\ active[u] > 0
    /\ active' = [active EXCEPT ![u] = @ - 1]
    /\ UNCHANGED <<rowVars, suspected, historyVars, screen>>

\* POST /users: the row may come after the events of its user.
AddMember(u) ==
    /\ u \notin members
    /\ members' = members \cup {u}
    /\ UNCHANGED <<events, signals, caseVars, historyVars, screen>>

\* A statement throws or the process dies; a repeated report finds the event
\* and is answered at once.
Fail(h) ==
    /\ ~At(h, "idle")
    /\ Cardinality(unscreened) < MaxFailures
    /\ unscreened' = unscreened \cup {screen[h].event}
    /\ halted' = halted \cup ({screen[h].user} \ {None})
    /\ screen' = [screen EXCEPT ![h] = Idle]
    /\ UNCHANGED <<rowVars, caseVars, answer>>

Next ==
    \/ \E h \in Screeners :
          \/ \E e \in Reports : Receive(h, e)
          \/ LookUp(h) \/ Check(h) \/ Created(h)
          \/ Dedupe(h) \/ CreateSignal(h) \/ ComputeRollingScore(h)
          \/ FindCase(h) \/ OpenCase(h) \/ Fail(h)
    \/ \E u \in People : CloseCase(u) \/ AddMember(u)

Spec == Init /\ [][Next]_vars

-----------------------------------------------------------------------------
(* A score that reaches the threshold opens a case.  Signals are written by
   requests that run at once, each of which reads the score after its own
   insert: however they interleave, the last to insert reads them all.  Only
   a request that fails between the two leaves a user over the threshold
   without a case, and no later request with the same dedupe key makes up for
   it. *)
CrossingOpensCase ==
    \A u \in People :
        RollingScore(u) >= CaseThreshold
        => \/ u \in suspected \cup halted
           \/ \E h \in Screeners :
                 screen[h].user = u /\ screen[h].pc \in {"score", "find", "open"}

(* Two users who pay or are refunded with one card are noticed: once the
   requests that stored their events are through, there is a signal on one of
   them.  It is enough that every event is committed before it is screened. *)
SharedCardIsSignalled ==
    \A e, f \in events :
        /\ {e, f} \cap unscreened = {}
        /\ \A h \in Screeners : screen[h].event \notin {e, f}
        /\ {Facts[e].kind, Facts[f].kind} \subseteq {"paid", "refund"}
        /\ Facts[e].card = Facts[f].card /\ Facts[e].card # None
        /\ Facts[e].user # Facts[f].user
        => \E s \in signals : s.key[1] = "card" /\ s.key[3] = Facts[e].card

(* "Race: two concurrent calls with the same idempotency key"
   (ingestion.service.ts:143): the answer "duplicate" is for a report whose
   event another request stored, not for the one that stored it and has checks
   left to run. *)
FirstReportIsNew == \A e \in Reports : answer[e] # "duplicate"
=============================================================================
