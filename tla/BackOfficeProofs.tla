------------------------- MODULE BackOfficeProofs -------------------------
(***************************************************************************)
(* What holds of the parts of BackOffice for any number of people, events, *)
(* tenants, users and requests, wherever requests fail.  The sections take *)
(* one part each: its inductive invariant, and that every step of the part *)
(* keeps it.  The last section is about whole behaviours.                  *)
(***************************************************************************)
EXTENDS BackOffice, FiniteSums

-----------------------------------------------------------------------------
(* FraudSignals: checks.
   What a set of signals scores is never expanded: the score of a user changes
   only with the set of that user's signals.  The checks a request has left. *)

AllChecks == <<"self", "ip", "velocity", "card", "refunds">>
FourChecks == <<"ip", "velocity", "card", "refunds">>
ThreeChecks == <<"velocity", "card", "refunds">>
CardFirst == <<"card", "refunds">>
Last == <<"refunds">>

\* Those among which the check of the card still is.
WithCard == {AllChecks, FourChecks, ThreeChecks, CardFirst}
Todos == WithCard \cup {Last, <<>>}

LEMMA TodoSteps ==
    /\ Checks = AllChecks
    /\ \A t \in Todos : t # <<>> => Tail(t) \in Todos
    /\ \A t \in WithCard : t # <<>>
    /\ \A t \in WithCard : Head(t) # "card" => Tail(t) \in WithCard
    /\ \A t \in Todos : t # <<>> /\ Head(t) \notin {"card", "refunds"}
          => Head(t) \in {"self", "ip", "velocity"}
    /\ \A t \in Todos : t # <<>> /\ Head(t) = "card" => t = CardFirst
    /\ \A t \in WithCard : Head(t) # "refunds"
  BY DEF Checks, Todos, WithCard, AllChecks, FourChecks, ThreeChecks, CardFirst, Last

-----------------------------------------------------------------------------
(* FraudSignals: invariant.                                                *)

Recording == {"dedupe", "create"}
Scoring == {"score", "find", "open"}
FraudLabels == {"idle", "lookup", "check"} \cup Recording \cup Scoring

\* A request, whatever the key it holds.
Slot(key) ==
    [pc : FraudLabels, event : Reports \cup {None}, member : People \cup {None},
     todo : Todos, key : {key}, user : People \cup {None}]

TypesInv ==
    /\ screen = [h \in Screeners |-> screen[h]]
    /\ \A h \in Screeners : screen[h] \in Slot(screen[h].key)
    /\ members \subseteq People /\ events \subseteq Reports
    /\ active \in [People -> Nat] /\ suspected \subseteq People

Noticed(card) == \E s \in signals : s.key[1] = "card" /\ s.key[3] = card

\* What a request knows: its event is stored; of a payment only the card and the
\* refunds can be suspicious; and past the insert of a card's signal there is one.
FraudLocal(s) ==
    /\ s.pc # "idle" => s.event \in events
    /\ s.pc \in Recording \cup Scoring =>
          /\ s.todo # <<>>
          /\ Facts[s.event].kind # "registered" => Head(s.todo) \in {"card", "refunds"}
    /\ s.pc \in Recording /\ Head(s.todo) = "card" =>
          s.key = <<"card", Facts[s.event].user, Facts[s.event].card>>
    /\ s.pc \in Scoring /\ Head(s.todo) = "card" => Noticed(Facts[s.event].card)
    /\ s.pc \in {"find", "open"} => s.user \in People

FraudLocalsInv == \A h \in Screeners : FraudLocal(screen[h])

\* A user with an active case has had one.
CasesInv ==
    /\ CrossingOpensCase
    /\ \A u \in People : active[u] > 0 => u \in suspected

\* A request that has the check of its card ahead of it or in hand.
Checking(s) == s.pc \in {"lookup", "check"} \cup Recording /\ s.todo \in WithCard

\* Two events of two users with one card, whose requests have not failed.
Pair(e, f) ==
    /\ {e, f} \cap unscreened = {}
    /\ {Facts[e].kind, Facts[f].kind} \subseteq {"paid", "refund"}
    /\ Facts[e].card = Facts[f].card /\ Facts[e].card # None
    /\ Facts[e].user # Facts[f].user

CardsInv ==
    \A e, f \in events :
        Pair(e, f) =>
            \/ Noticed(Facts[e].card)
            \/ \E h \in Screeners : screen[h].event \in {e, f} /\ Checking(screen[h])

FraudInv == TypesInv /\ FraudLocalsInv /\ CasesInv /\ CardsInv

-----------------------------------------------------------------------------
(* FraudSignals: what a step leaves.                                       *)

\* Every event and every signal stays.
FraudGrows == events \subseteq events' /\ signals \subseteq signals'

LEMMA LocalStays ==
    ASSUME FraudGrows, NEW s, FraudLocal(s)
    PROVE  FraudLocal(s)'
  BY DEF FraudGrows, FraudLocal, Noticed

\* Only request h moves, to a state that is of its type and knows what it must.
Moves(h) ==
    /\ screen' = [g \in Screeners |-> screen'[g]]
    /\ \A g \in Screeners \ {h} : screen'[g] = screen[g]
    /\ screen'[h] \in Slot(screen'[h].key)

LEMMA LocalsKept ==
    ASSUME FraudLocalsInv, FraudGrows, NEW h \in Screeners, Moves(h), FraudLocal(screen[h])'
    PROVE  FraudLocalsInv'
  <1> SUFFICES ASSUME NEW g \in Screeners, g # h PROVE FraudLocal(screen[g])'
    BY DEF FraudLocalsInv
  <1> PICK s : s = screen[g]
    OBVIOUS
  <1>1. screen'[g] = s /\ FraudLocal(s)
    BY DEF Moves, FraudLocalsInv
  <1>2. FraudLocal(s)'
    BY <1>1, LocalStays
  <1> QED BY <1>1, <1>2 DEF FraudLocal

\* No signal is written, and a request that is about to open a case goes on
\* unless there is nothing left to do.
LEMMA CasesKept ==
    ASSUME CasesInv, UNCHANGED signals,
           suspected \subseteq suspected', halted \subseteq halted',
           \A u \in People : active'[u] > 0 => active[u] > 0 \/ u \in suspected',
           \A g \in Screeners : screen[g].pc \in Scoring =>
               \/ screen'[g].pc \in Scoring /\ screen'[g].user = screen[g].user
               \/ screen[g].user \in suspected' \cup halted'
               \/ screen[g].user \notin People
               \/ ~Crosses(screen[g].user)
    PROVE  CasesInv'
  <1>1. ASSUME NEW u \in People, (RollingScore(u) >= CaseThreshold)'
        PROVE  \/ u \in suspected' \cup halted'
               \/ \E g \in Screeners : screen'[g].user = u /\ screen'[g].pc \in Scoring
    <2>1. RollingScore(u) >= CaseThreshold /\ Crosses(u)
      BY <1>1 DEF RollingScore, CaseThreshold, Crosses
    <2>2. \/ u \in suspected \cup halted
          \/ \E g \in Screeners : screen[g].user = u /\ screen[g].pc \in Scoring
      BY <2>1 DEF CasesInv, CrossingOpensCase, Scoring
    <2> QED BY <2>1, <2>2
  <1> QED BY <1>1 DEF CasesInv, CrossingOpensCase, Scoring

\* A request with the check of its card ahead goes on, unless the card has its
\* signal or no other event of the card concerns it.
LEMMA CardsKept ==
    ASSUME CardsInv, UNCHANGED events, signals \subseteq signals',
           unscreened \subseteq unscreened',
           \A g \in Screeners, e \in events :
               Checking(screen[g]) /\ screen[g].event = e =>
                   \/ Checking(screen[g])' /\ screen'[g].event = e
                   \/ Noticed(Facts[e].card)'
                   \/ \A f \in events : ~Pair(e, f)' /\ ~Pair(f, e)'
    PROVE  CardsInv'
  <1> SUFFICES ASSUME NEW e \in events, NEW f \in events, Pair(e, f)'
               PROVE  \/ Noticed(Facts[e].card)'
                      \/ \E h \in Screeners :
                            screen'[h].event \in {e, f} /\ Checking(screen[h])'
    BY DEF CardsInv
  <1>1. Pair(e, f)
    BY DEF Pair
  <1>2. CASE Noticed(Facts[e].card)
    BY <1>2 DEF Noticed
  <1>3. CASE \E h \in Screeners : screen[h].event \in {e, f} /\ Checking(screen[h])
    <2> PICK h \in Screeners : screen[h].event \in {e, f} /\ Checking(screen[h])
      BY <1>3
    <2> PICK d \in {e, f} : d = screen[h].event
      OBVIOUS
    <2>1. CASE Checking(screen[h])' /\ screen'[h].event = d
      BY <2>1
    <2>2. CASE Noticed(Facts[d].card)'
      <3>1. Facts[d].card = Facts[e].card
        BY <1>1 DEF Pair
      <3> QED BY <2>2, <3>1
    <2>3. CASE \A g \in events : ~Pair(d, g)' /\ ~Pair(g, d)'
      BY <2>3
    <2> QED BY <2>1, <2>2, <2>3
  <1> QED BY <1>1, <1>2, <1>3 DEF CardsInv

-----------------------------------------------------------------------------
(* FraudSignals: the next check.                                           *)

\* What a request that gives up the check in hand looks like afterwards.
LEMMA NextCheckMoves ==
    ASSUME TypesInv, NEW h \in Screeners, NextCheck(h), screen[h].todo # <<>>
    PROVE  /\ Moves(h)
           /\ screen'[h].pc = "check" /\ screen'[h].event = screen[h].event
           /\ screen'[h].todo = Tail(screen[h].todo)
           /\ screen'[h].user = None
  <1> PICK s : s = screen[h]
    OBVIOUS
  <1>1. s \in Slot(s.key) /\ s.todo # <<>>
    BY DEF TypesInv
  <1>2. Tail(s.todo) \in Todos
    BY <1>1, TodoSteps DEF Slot
  <1> PICK t : t = [s EXCEPT !.pc = "check", !.todo = Tail(@), !.key = <<>>, !.user = None]
    OBVIOUS
  <1>3. /\ t.pc = "check" /\ t.event = s.event /\ t.todo = Tail(s.todo)
        /\ t.key = <<>> /\ t.user = None
        /\ t \in Slot(t.key)
    BY <1>1, <1>2 DEF Slot, FraudLabels
  <1>4. screen' = [screen EXCEPT ![h] = t]
    BY DEF NextCheck
  <1>5. screen'[h] = t /\ \A g \in Screeners \ {h} : screen'[g] = screen[g]
    BY <1>4 DEF TypesInv
  <1>6. screen' = [g \in Screeners |-> screen'[g]]
    BY <1>4 DEF TypesInv
  <1> QED BY <1>3, <1>5, <1>6 DEF Moves

-----------------------------------------------------------------------------
(* FraudSignals: the card of a stored event.                               *)

\* The check of a card sees every other event of the card.
LEMMA PartnerIsSuspicious ==
    ASSUME FactsKnown, events \subseteq Reports,
           NEW e \in events, NEW f \in events, Pair(e, f), NEW member
    PROVE  /\ Suspicious("card", Facts[e], member)
           /\ Suspicious("card", Facts[f], member)
  <1> PICK card : card = Facts[e].card
    OBVIOUS
  <1> PICK a : a = Facts[e].user
    OBVIOUS
  <1> PICK b : b = Facts[f].user
    OBVIOUS
  <1>1. a # b /\ card # None /\ Facts[f].card = card
    BY DEF Pair
  <1>2. {e, f} \subseteq With("card", card) \cap Payments
    BY <1>1 DEF Pair, With, Payments
  <1>3. {a, b} \subseteq CardUsers(card)
    BY <1>2 DEF CardUsers, UsersOf
  <1>4. IsFiniteSet(CardUsers(card))
    <2>1. IsFiniteSet(With("card", card) \cap Payments)
      BY FS_Subset DEF FactsKnown, With
    <2> PICK S : S = With("card", card) \cap Payments
      OBVIOUS
    <2> PICK T : T = UsersOf(S)
      OBVIOUS
    <2>2. [d \in S |-> Facts[d].user] \in Surjection(S, T)
      BY DEF Surjection, UsersOf
    <2>3. IsFiniteSet(T)
      BY <2>1, <2>2, FS_Surjection
    <2> QED BY <2>3 DEF CardUsers
  <1>5. Cardinality(CardUsers(card)) >= 2
    <2>1. Cardinality({a, b}) = 2 /\ IsFiniteSet({a, b})
      <3>1. Cardinality({b}) = 1 /\ IsFiniteSet({b})
        BY FS_Singleton
      <3>2. Cardinality({b} \cup {a}) = Cardinality({b}) + 1 /\ IsFiniteSet({b} \cup {a})
        BY <1>1, <3>1, FS_AddElement
      <3>3. {b} \cup {a} = {a, b}
        OBVIOUS
      <3> QED BY <3>1, <3>2, <3>3
    <2>2. Cardinality({a, b}) <= Cardinality(CardUsers(card))
      BY <1>3, <1>4, FS_Subset
    <2>3. Cardinality(CardUsers(card)) \in Nat
      BY <1>4, FS_CardinalityType
    <2> QED BY <2>1, <2>2, <2>3
  <1> QED BY <1>1, <1>5 DEF Suspicious

-----------------------------------------------------------------------------
(* FraudSignals: steps that only move a request.                           *)

LEMMA GotoMoves ==
    ASSUME TypesInv, NEW h \in Screeners, NEW pc \in FraudLabels, Goto(h, pc)
    PROVE  /\ Moves(h)
           /\ screen'[h].pc = pc /\ screen'[h].event = screen[h].event
           /\ screen'[h].todo = screen[h].todo /\ screen'[h].key = screen[h].key
           /\ screen'[h].user = screen[h].user
  <1> PICK s : s = screen[h]
    OBVIOUS
  <1>1. s \in Slot(s.key)
    BY DEF TypesInv
  <1> PICK t : t = [s EXCEPT !.pc = pc]
    OBVIOUS
  <1>2. /\ t.pc = pc /\ t.event = s.event /\ t.todo = s.todo
        /\ t.key = s.key /\ t.user = s.user
        /\ t \in Slot(t.key)
    BY <1>1 DEF Slot
  <1>3. screen' = [screen EXCEPT ![h] = t]
    BY DEF Goto
  <1>4. screen'[h] = t /\ \A g \in Screeners \ {h} : screen'[g] = screen[g]
    BY <1>3 DEF TypesInv
  <1>5. screen' = [g \in Screeners |-> screen'[g]]
    BY <1>3 DEF TypesInv
  <1> QED BY <1>2, <1>4, <1>5 DEF Moves

LEMMA IdleMoves ==
    ASSUME TypesInv, NEW h \in Screeners, screen' = [screen EXCEPT ![h] = Idle]
    PROVE  Moves(h) /\ screen'[h].pc = "idle" /\ FraudLocal(screen[h])'
  <1>1. Idle \in Slot(Idle.key) /\ Idle.pc = "idle"
    BY DEF Idle, Slot, FraudLabels, Todos, Recording, Scoring
  <1>2. screen'[h] = Idle /\ \A g \in Screeners \ {h} : screen'[g] = screen[g]
    BY DEF TypesInv
  <1>3. screen' = [g \in Screeners |-> screen'[g]]
    BY DEF TypesInv
  <1>4. screen'[h].pc = "idle" /\ screen'[h] \in Slot(screen'[h].key)
    BY <1>1, <1>2
  <1> QED BY <1>2, <1>3, <1>4 DEF Moves, FraudLocal, Recording, Scoring

LEMMA TypesKept ==
    ASSUME TypesInv, NEW h \in Screeners, Moves(h),
           members' \subseteq People, events' \subseteq Reports,
           active' \in [People -> Nat], suspected' \subseteq People
    PROVE  TypesInv'
  <1> SUFFICES ASSUME NEW g \in Screeners PROVE screen'[g] \in Slot(screen'[g].key)
    BY DEF TypesInv, Moves
  <1>1. CASE g = h
    BY <1>1 DEF Moves
  <1>2. CASE g # h
    <2>1. screen'[g] = screen[g]
      BY <1>2 DEF Moves
    <2> QED BY <2>1 DEF TypesInv
  <1> QED BY <1>1, <1>2

\* A request outside the two parts of a record's writing knows only its event.
LEMMA LocalOutside ==
    ASSUME NEW s, s.pc \notin Recording \cup Scoring, s.event \in events
    PROVE  FraudLocal(s)
  BY DEF FraudLocal, Recording, Scoring

\* A step of h that writes no signal, no case and no event.
LEMMA Silent ==
    ASSUME FraudInv, NEW h \in Screeners, Moves(h), FraudLocal(screen[h])',
           UNCHANGED <<rowVars, caseVars>>,
           halted \subseteq halted', unscreened \subseteq unscreened',
           screen[h].pc \in Scoring =>
               \/ screen'[h].pc \in Scoring /\ screen'[h].user = screen[h].user
               \/ screen[h].user \in suspected \cup halted'
               \/ screen[h].user \notin People
               \/ ~Crosses(screen[h].user),
           NEW d, d = screen[h].event,
           Checking(screen[h]) =>
               \/ Checking(screen[h])' /\ screen'[h].event = d
               \/ Noticed(Facts[d].card)
               \/ \A f \in events : ~Pair(d, f)' /\ ~Pair(f, d)'
    PROVE  FraudInv'
  <1>1. FraudGrows
    BY DEF FraudGrows, rowVars
  <1>2. TypesInv'
    BY TypesKept DEF FraudInv, TypesInv, rowVars, caseVars
  <1>3. FraudLocalsInv'
    BY <1>1, LocalsKept DEF FraudInv
  <1>4. CasesInv'
    <2>1. \A g \in Screeners : screen[g].pc \in Scoring =>
               \/ screen'[g].pc \in Scoring /\ screen'[g].user = screen[g].user
               \/ screen[g].user \in suspected' \cup halted'
               \/ screen[g].user \notin People
               \/ ~Crosses(screen[g].user)
      BY DEF Moves, caseVars
    <2> QED BY <2>1, CasesKept DEF FraudInv, rowVars, caseVars
  <1>5. CardsInv'
    <2>1. ASSUME NEW g \in Screeners, NEW e \in events,
                 Checking(screen[g]), screen[g].event = e
          PROVE  \/ Checking(screen[g])' /\ screen'[g].event = e
                 \/ Noticed(Facts[e].card)'
                 \/ \A f \in events : ~Pair(e, f)' /\ ~Pair(f, e)'
      <3>1. CASE g = h
        BY <2>1, <3>1 DEF Noticed, rowVars
      <3>2. CASE g # h
        <4>1. screen'[g] = screen[g]
          BY <3>2 DEF Moves
        <4> QED BY <2>1, <4>1 DEF Checking
      <3> QED BY <3>1, <3>2
    <2> QED BY <2>1, CardsKept DEF FraudInv, rowVars
  <1> QED BY <1>2, <1>3, <1>4, <1>5 DEF FraudInv

-----------------------------------------------------------------------------
(* FraudSignals: the steps of a request.                                   *)

LEMMA LookUpKeeps ==
    ASSUME FraudInv, NEW h \in Screeners, LookUp(h)
    PROVE  FraudInv'
  <1> PICK s : s = screen[h]
    OBVIOUS
  <1>1. s \in Slot(s.key) /\ s.pc = "lookup" /\ s.event \in events
    BY DEF FraudInv, TypesInv, FraudLocalsInv, FraudLocal, LookUp, At
  <1> PICK m : m = IF Facts[s.event].user \in members THEN Facts[s.event].user ELSE None
    OBVIOUS
  <1>2. m \in People \cup {None}
    BY DEF FraudInv, TypesInv
  <1> PICK t : t = [s EXCEPT !.pc = "check", !.member = m]
    OBVIOUS
  <1>3. /\ t.pc = "check" /\ t.event = s.event /\ t.todo = s.todo
        /\ t \in Slot(t.key)
    BY <1>1, <1>2 DEF Slot, FraudLabels
  <1>4. screen' = [screen EXCEPT ![h] = t]
    BY DEF LookUp
  <1>5. screen'[h] = t /\ \A g \in Screeners \ {h} : screen'[g] = screen[g]
    BY <1>4 DEF FraudInv, TypesInv
  <1>6. Moves(h)
    <2>1. screen' = [g \in Screeners |-> screen'[g]]
      BY <1>4 DEF FraudInv, TypesInv
    <2> QED BY <1>3, <1>5, <2>1 DEF Moves
  <1>7. FraudLocal(screen[h])'
    <2>1. events' = events
      BY DEF LookUp, rowVars
    <2>2. screen'[h].pc = "check" /\ screen'[h].event = s.event
      BY <1>3, <1>5
    <2> QED BY <1>1, <2>1, <2>2 DEF FraudLocal, Recording, Scoring
  <1>8. screen[h].pc \notin Scoring
    BY <1>1 DEF Scoring
  <1>9. Checking(screen[h]) => Checking(screen[h])' /\ screen'[h].event = s.event
    BY <1>1, <1>3, <1>5 DEF Checking
  <1> QED BY <1>6, <1>7, <1>8, <1>9, Silent DEF LookUp, historyVars

LEMMA CreatedKeeps ==
    ASSUME FraudInv, NEW h \in Screeners, Created(h)
    PROVE  FraudInv'
  <1>1. Moves(h) /\ FraudLocal(screen[h])'
    BY IdleMoves DEF FraudInv, Created, Answer
  <1>2. screen[h].pc \notin Scoring
    BY DEF Created, At, Scoring
  <1>3. ~Checking(screen[h])
    BY TodoSteps DEF Created, Checking
  <1> PICK d : d = screen[h].event
    OBVIOUS
  <1> QED BY <1>1, <1>2, <1>3, Silent DEF Created, rowVars, caseVars

LEMMA FailKeeps ==
    ASSUME FactsKnown, FraudInv, NEW h \in Screeners, Fail(h)
    PROVE  FraudInv'
  <1>1. Moves(h) /\ FraudLocal(screen[h])'
    BY IdleMoves DEF FraudInv, Fail
  <1>2. screen[h].user \in halted' \/ screen[h].user \notin People
    BY DEF Fail, FactsKnown
  <1> PICK d : d = screen[h].event
    OBVIOUS
  <1>3. \A f \in events : ~Pair(d, f)' /\ ~Pair(f, d)'
    BY DEF Fail, Pair
  <1>4. /\ halted \subseteq halted' /\ unscreened \subseteq unscreened'
        /\ UNCHANGED <<rowVars, caseVars>>
    BY DEF Fail
  <1> QED BY <1>1, <1>2, <1>3, <1>4, Silent

\* A request that gives up a check other than that of a card still has the card's
\* ahead, if it had, or is of a registration.
LEMMA CardAhead ==
    ASSUME FraudInv, NEW h \in Screeners, NextCheck(h), screen[h].todo # <<>>,
           UNCHANGED <<rowVars, caseVars, historyVars>>,
           screen[h].pc \in Scoring =>
               screen[h].user \notin People \/ screen[h].user \in suspected
               \/ ~Crosses(screen[h].user),
           NEW d, d = screen[h].event, d \in events,
           Checking(screen[h]) /\ Head(screen[h].todo) = "card" =>
               \/ Noticed(Facts[d].card)
               \/ \A f \in events : ~Pair(d, f) /\ ~Pair(f, d)
    PROVE  FraudInv'
  <1>1. /\ Moves(h) /\ screen'[h].pc = "check" /\ screen'[h].event = d
        /\ screen'[h].todo = Tail(screen[h].todo)
    BY NextCheckMoves DEF FraudInv
  <1>2. FraudLocal(screen[h])'
    BY <1>1 DEF FraudLocal, Recording, Scoring, rowVars
  <1>3. ASSUME Checking(screen[h])
        PROVE  \/ Checking(screen[h])' /\ screen'[h].event = d
               \/ Noticed(Facts[d].card)
               \/ \A f \in events : ~Pair(d, f)' /\ ~Pair(f, d)'
    <2>1. CASE Head(screen[h].todo) = "card"
      BY <1>3, <2>1 DEF Pair, historyVars
    <2>2. CASE Head(screen[h].todo) # "card"
      BY <1>1, <1>3, <2>2, TodoSteps DEF Checking
    <2> QED BY <2>1, <2>2
  <1> QED BY <1>1, <1>2, <1>3, Silent DEF caseVars, historyVars

LEMMA ComputeRollingScoreKeeps ==
    ASSUME FactsKnown, FraudInv, NEW h \in Screeners, ComputeRollingScore(h)
    PROVE  FraudInv'
  <1> PICK d : d = screen[h].event
    OBVIOUS
  <1>1. /\ screen[h].pc = "score" /\ FraudLocal(screen[h]) /\ ~Checking(screen[h])
        /\ screen[h].todo # <<>> /\ d \in events
    BY DEF ComputeRollingScore, At, FraudInv, FraudLocalsInv, FraudLocal, Scoring, Checking,
       Recording
  <1>2. screen[h] \in Slot(screen[h].key)
    BY DEF FraudInv, TypesInv
  <1>3. CASE screen[h].user # None /\ Crosses(screen[h].user)
    <2>1. Goto(h, "find")
      BY <1>3 DEF ComputeRollingScore
    <2>2. /\ Moves(h) /\ screen'[h].pc = "find" /\ screen'[h].event = d
          /\ screen'[h].todo = screen[h].todo /\ screen'[h].key = screen[h].key
          /\ screen'[h].user = screen[h].user
      BY <2>1, GotoMoves DEF FraudInv, FraudLabels, Scoring
    <2>3. FraudLocal(screen[h])'
      BY <1>1, <1>2, <1>3, <2>2 DEF FraudLocal, Slot, Recording, Scoring, Noticed,
         ComputeRollingScore, rowVars
    <2>4. screen'[h].pc \in Scoring
      BY <2>2 DEF Scoring
    <2> QED BY <1>1, <2>2, <2>3, <2>4, Silent DEF ComputeRollingScore, historyVars
  <1>4. CASE ~(screen[h].user # None /\ Crosses(screen[h].user))
    <2>1. NextCheck(h)
      BY <1>4 DEF ComputeRollingScore
    <2>2. screen[h].user \notin People \/ ~Crosses(screen[h].user)
      BY <1>4 DEF FactsKnown
    <2> QED BY <1>1, <2>1, <2>2, CardAhead DEF ComputeRollingScore
  <1> QED BY <1>3, <1>4

LEMMA FindCaseKeeps ==
    ASSUME FraudInv, NEW h \in Screeners, FindCase(h)
    PROVE  FraudInv'
  <1> PICK d : d = screen[h].event
    OBVIOUS
  <1>1. /\ screen[h].pc = "find" /\ FraudLocal(screen[h]) /\ ~Checking(screen[h])
        /\ screen[h].todo # <<>> /\ d \in events /\ screen[h].user \in People
    BY DEF FindCase, At, FraudInv, FraudLocalsInv, FraudLocal, Scoring, Checking, Recording
  <1>2. CASE active[screen[h].user] > 0
    <2>1. NextCheck(h)
      BY <1>2 DEF FindCase
    <2>2. screen[h].user \in suspected
      BY <1>1, <1>2 DEF FraudInv, CasesInv
    <2> QED BY <1>1, <2>1, <2>2, CardAhead DEF FindCase
  <1>3. CASE ~(active[screen[h].user] > 0)
    <2>1. Goto(h, "open")
      BY <1>3 DEF FindCase
    <2>2. /\ Moves(h) /\ screen'[h].pc = "open" /\ screen'[h].event = d
          /\ screen'[h].todo = screen[h].todo /\ screen'[h].key = screen[h].key
          /\ screen'[h].user = screen[h].user
      BY <2>1, GotoMoves DEF FraudInv, FraudLabels, Scoring
    <2>3. FraudLocal(screen[h])'
      BY <1>1, <2>2 DEF FraudLocal, Recording, Scoring, Noticed, FindCase, rowVars
    <2>4. screen'[h].pc \in Scoring
      BY <2>2 DEF Scoring
    <2> QED BY <1>1, <2>2, <2>3, <2>4, Silent DEF FindCase, historyVars
  <1> QED BY <1>2, <1>3

\* The key of a card's signal is taken: there is one.
LEMMA TakenIsNoticed ==
    ASSUME NEW s, FraudLocal(s), s.pc \in Recording, Head(s.todo) = "card", Taken(s.key)
    PROVE  Noticed(Facts[s.event].card)
  <1> PICK k : k = s.key
    OBVIOUS
  <1>1. k[1] = "card" /\ k[3] = Facts[s.event].card
    BY DEF FraudLocal
  <1> QED BY <1>1 DEF Taken, Noticed

LEMMA DedupeKeeps ==
    ASSUME FraudInv, NEW h \in Screeners, Dedupe(h)
    PROVE  FraudInv'
  <1> PICK d : d = screen[h].event
    OBVIOUS
  <1>1. /\ screen[h].pc = "dedupe" /\ FraudLocal(screen[h])
        /\ screen[h].todo # <<>> /\ d \in events
        /\ screen[h].pc \notin Scoring /\ screen[h].pc \in Recording
    BY DEF Dedupe, At, FraudInv, FraudLocalsInv, FraudLocal, Scoring, Recording
  <1>2. CASE Taken(screen[h].key)
    <2>1. NextCheck(h)
      BY <1>2 DEF Dedupe
    <2>2. Head(screen[h].todo) = "card" => Noticed(Facts[d].card)
      BY <1>1, <1>2, TakenIsNoticed
    <2> QED BY <1>1, <2>1, <2>2, CardAhead DEF Dedupe
  <1>3. CASE ~Taken(screen[h].key)
    <2>1. Goto(h, "create")
      BY <1>3 DEF Dedupe
    <2>2. /\ Moves(h) /\ screen'[h].pc = "create" /\ screen'[h].event = d
          /\ screen'[h].todo = screen[h].todo /\ screen'[h].key = screen[h].key
          /\ screen'[h].user = screen[h].user
      BY <2>1, GotoMoves DEF FraudInv, FraudLabels, Recording
    <2>3. FraudLocal(screen[h])'
      BY <1>1, <2>2 DEF FraudLocal, Recording, Scoring, Dedupe, rowVars
    <2>4. Checking(screen[h]) => Checking(screen[h])'
      BY <2>2 DEF Checking, Recording
    <2> QED BY <1>1, <2>2, <2>3, <2>4, Silent DEF Dedupe, historyVars
  <1> QED BY <1>2, <1>3

LEMMA CheckKeeps ==
    ASSUME FactsKnown, FraudInv, NEW h \in Screeners, Check(h)
    PROVE  FraudInv'
  <1> PICK s : s = screen[h]
    OBVIOUS
  <1> PICK d : d = s.event
    OBVIOUS
  <1> PICK check : check = Head(s.todo)
    OBVIOUS
  <1>1. /\ s.pc = "check" /\ s \in Slot(s.key) /\ s.todo # <<>>
        /\ d \in events /\ d \in Reports
        /\ s.pc \notin Scoring
    BY DEF Check, At, FraudInv, TypesInv, FraudLocalsInv, FraudLocal, Scoring
  <1>2. CASE ~Suspicious(check, Facts[d], s.member)
    <2>1. NextCheck(h)
      BY <1>2 DEF Check
    <2>2. check = "card" => \A f \in events : ~Pair(d, f) /\ ~Pair(f, d)
      BY <1>1, <1>2, PartnerIsSuspicious DEF FraudInv, TypesInv
    <2> QED BY <1>1, <2>1, <2>2, CardAhead DEF Check
  <1>3. CASE Suspicious(check, Facts[d], s.member)
    <2> PICK key : key = Key(check, Facts[d])
      OBVIOUS
    <2> PICK user : user = IF check = "velocity" THEN CodeOwner[Facts[d].code] ELSE s.member
      OBVIOUS
    <2>1. user \in People \cup {None}
      BY <1>1, <1>3 DEF Slot, Suspicious, FactsKnown
    <2> PICK t : t = [s EXCEPT !.pc = "dedupe", !.key = key, !.user = user]
      OBVIOUS
    <2>2. /\ t.pc = "dedupe" /\ t.event = d /\ t.todo = s.todo /\ t.key = key
          /\ t \in Slot(t.key)
      BY <1>1, <2>1 DEF Slot, FraudLabels, Recording
    <2>3. screen' = [screen EXCEPT ![h] = t]
      BY <1>3 DEF Check
    <2>4. screen'[h] = t /\ \A g \in Screeners \ {h} : screen'[g] = screen[g]
      BY <2>3 DEF FraudInv, TypesInv
    <2>5. Moves(h)
      <3>1. screen' = [g \in Screeners |-> screen'[g]]
        BY <2>3 DEF FraudInv, TypesInv
      <3> QED BY <2>2, <2>4, <3>1 DEF Moves
    <2>6. check = "card" => key = <<"card", Facts[d].user, Facts[d].card>>
      BY DEF Key
    <2>7. Facts[d].kind # "registered" => check \in {"card", "refunds"}
      <3>1. s.todo \in Todos
        BY <1>1 DEF Slot
      <3>2. check \in {"card", "refunds"} \/ check \in {"self", "ip", "velocity"}
        BY <1>1, <3>1, TodoSteps
      <3> QED BY <1>3, <3>2 DEF Suspicious
    <2>8. FraudLocal(screen[h])'
      <3>1. events' = events
        BY DEF Check, rowVars
      <3>2. /\ screen'[h].pc = "dedupe" /\ screen'[h].event = d
            /\ screen'[h].todo = s.todo /\ screen'[h].key = key
        BY <2>2, <2>4
      <3> QED BY <1>1, <2>6, <2>7, <3>1, <3>2 DEF FraudLocal, Recording, Scoring
    <2>9. Checking(screen[h]) => Checking(screen[h])' /\ screen'[h].event = d
      BY <2>2, <2>4 DEF Checking, Recording
    <2> QED BY <1>1, <2>5, <2>8, <2>9, Silent DEF Check, historyVars
  <1> QED BY <1>2, <1>3

\* What is not of another user's does not change that user's score.
LEMMA OthersKeepTheirScore ==
    ASSUME NEW row, signals' = signals \cup {row}, NEW u, row.user # u
    PROVE  RollingScore(u)' = RollingScore(u)
  <1> PICK mine : mine = {s \in signals : s.user = u}
    OBVIOUS
  <1>1. {s \in signals' : s.user = u} = mine
    OBVIOUS
  <1> QED BY <1>1 DEF RollingScore

LEMMA CreateSignalKeeps ==
    ASSUME FactsKnown, FraudInv, NEW h \in Screeners, CreateSignal(h)
    PROVE  FraudInv'
  <1> PICK d : d = screen[h].event
    OBVIOUS
  <1> PICK key : key = screen[h].key
    OBVIOUS
  <1> PICK user : user = screen[h].user
    OBVIOUS
  <1>1. /\ screen[h].pc = "create" /\ FraudLocal(screen[h])
        /\ screen[h].todo # <<>> /\ d \in events
        /\ screen[h].pc \notin Scoring /\ screen[h].pc \in Recording
        /\ Facts[d].kind # "registered" => Head(screen[h].todo) \in {"card", "refunds"}
    BY DEF CreateSignal, At, FraudInv, FraudLocalsInv, FraudLocal, Scoring, Recording
  <1>2. UNCHANGED <<members, events, caseVars, halted, unscreened>>
    BY DEF CreateSignal
  <1>3. Checking(screen[h]) =>
            Head(screen[h].todo) = "card" \/ \A f \in events : ~Pair(d, f) /\ ~Pair(f, d)
    BY <1>1, TodoSteps DEF Checking, Pair
  <1>4. CASE Taken(key)
    <2>1. Moves(h) /\ FraudLocal(screen[h])'
      BY <1>4, IdleMoves DEF FraudInv, CreateSignal, Answer
    <2>2. Head(screen[h].todo) = "card" => Noticed(Facts[d].card)
      BY <1>1, <1>4, TakenIsNoticed
    <2>3. UNCHANGED <<rowVars, caseVars>>
      BY <1>2, <1>4 DEF CreateSignal, rowVars
    <2>4. Checking(screen[h]) =>
              Noticed(Facts[d].card) \/ \A f \in events : ~Pair(d, f)' /\ ~Pair(f, d)'
      BY <1>2, <1>3, <2>2 DEF Pair
    <2> QED BY <1>1, <1>2, <2>1, <2>3, <2>4, Silent
  <1>5. CASE ~Taken(key)
    <2> PICK row : row = [key |-> key, user |-> user]
      OBVIOUS
    <2>1. signals' = signals \cup {row} /\ Goto(h, "score")
      BY <1>5 DEF CreateSignal
    <2>2. /\ Moves(h) /\ screen'[h].pc = "score" /\ screen'[h].event = d
          /\ screen'[h].todo = screen[h].todo /\ screen'[h].key = key
          /\ screen'[h].user = user
      BY <2>1, GotoMoves DEF FraudInv, FraudLabels, Scoring
    <2>3. FraudGrows
      BY <1>2, <2>1 DEF FraudGrows
    <2>4. Head(screen[h].todo) = "card" => Noticed(Facts[d].card)'
      <3> HAVE Head(screen[h].todo) = "card"
      <3>1. key[1] = "card" /\ key[3] = Facts[d].card
        BY <1>1 DEF FraudLocal
      <3>2. row \in signals' /\ row.key = key
        BY <2>1
      <3> QED BY <3>1, <3>2 DEF Noticed
    <2>5. FraudLocal(screen[h])'
      BY <1>1, <1>2, <2>2, <2>4 DEF FraudLocal, Recording, Scoring
    <2>6. TypesInv'
      BY <1>2, <2>2, TypesKept DEF FraudInv, TypesInv, caseVars
    <2>7. FraudLocalsInv'
      BY <2>2, <2>3, <2>5, LocalsKept DEF FraudInv
    <2>8. CasesInv'
      <3>1. ASSUME NEW u \in People, (RollingScore(u) >= CaseThreshold)'
            PROVE  \/ u \in suspected' \cup halted'
                   \/ \E g \in Screeners : screen'[g].user = u /\ screen'[g].pc \in Scoring
        <4>1. CASE user = u
          BY <2>2, <4>1 DEF Scoring
        <4>2. CASE user # u
          <5>1. RollingScore(u)' = RollingScore(u)
            BY <2>1, <4>2, OthersKeepTheirScore
          <5>2. RollingScore(u) >= CaseThreshold
            BY <3>1, <5>1 DEF CaseThreshold
          <5>3. \/ u \in suspected \cup halted
                \/ \E g \in Screeners : screen[g].user = u /\ screen[g].pc \in Scoring
            BY <5>2 DEF FraudInv, CasesInv, CrossingOpensCase, Scoring
          <5>4. \A g \in Screeners : screen[g].pc \in Scoring => screen'[g] = screen[g]
            BY <1>1, <2>2 DEF Moves
          <5> QED BY <1>2, <5>3, <5>4 DEF caseVars
        <4> QED BY <4>1, <4>2
      <3> QED BY <1>2, <3>1 DEF FraudInv, CasesInv, CrossingOpensCase, Scoring, caseVars
    <2>9. CardsInv'
      <3>1. ASSUME NEW g \in Screeners, NEW e \in events,
                   Checking(screen[g]), screen[g].event = e
            PROVE  \/ Checking(screen[g])' /\ screen'[g].event = e
                   \/ Noticed(Facts[e].card)'
                   \/ \A f \in events : ~Pair(e, f)' /\ ~Pair(f, e)'
        <4>1. CASE g = h
          BY <1>2, <1>3, <2>4, <3>1, <4>1 DEF Pair
        <4>2. CASE g # h
          <5>1. screen'[g] = screen[g]
            BY <2>2, <4>2 DEF Moves
          <5> QED BY <3>1, <5>1 DEF Checking
        <4> QED BY <4>1, <4>2
      <3> QED BY <1>2, <2>1, <3>1, CardsKept DEF FraudInv
    <2> QED BY <2>6, <2>7, <2>8, <2>9 DEF FraudInv
  <1> QED BY <1>4, <1>5

LEMMA OpenCaseKeeps ==
    ASSUME FraudInv, NEW h \in Screeners, OpenCase(h)
    PROVE  FraudInv'
  <1> PICK user : user = screen[h].user
    OBVIOUS
  <1>1. /\ screen[h].pc = "open" /\ screen[h].todo # <<>> /\ user \in People
        /\ screen[h].event \in events /\ ~Checking(screen[h])
    BY DEF OpenCase, At, FraudInv, FraudLocalsInv, FraudLocal, Scoring, Checking, Recording
  <1>2. /\ Moves(h) /\ screen'[h].pc = "check" /\ screen'[h].event = screen[h].event
    BY <1>1, NextCheckMoves DEF FraudInv, OpenCase
  <1>3. /\ UNCHANGED <<rowVars, historyVars>>
        /\ active' = [active EXCEPT ![user] = @ + 1]
        /\ suspected' = suspected \cup {user}
    BY DEF OpenCase
  <1>4. FraudLocal(screen[h])'
    BY <1>1, <1>2, <1>3 DEF FraudLocal, Recording, Scoring, rowVars
  <1>5. FraudGrows
    BY <1>3 DEF FraudGrows, rowVars
  <1>6. TypesInv'
    <2>1. active' \in [People -> Nat] /\ suspected' \subseteq People
      BY <1>1, <1>3 DEF FraudInv, TypesInv
    <2> QED BY <1>2, <1>3, <2>1, TypesKept DEF FraudInv, TypesInv, rowVars
  <1>7. FraudLocalsInv'
    BY <1>2, <1>4, <1>5, LocalsKept DEF FraudInv
  <1>8. CasesInv'
    <2>1. \A u \in People : active'[u] > 0 => active[u] > 0 \/ u \in suspected'
      BY <1>3 DEF FraudInv, TypesInv
    <2>2. \A g \in Screeners : screen[g].pc \in Scoring =>
               \/ screen'[g].pc \in Scoring /\ screen'[g].user = screen[g].user
               \/ screen[g].user \in suspected' \cup halted'
      BY <1>2, <1>3 DEF Moves
    <2> QED BY <1>3, <2>1, <2>2, CasesKept DEF FraudInv, rowVars, historyVars
  <1>9. CardsInv'
    <2>1. ASSUME NEW g \in Screeners, NEW e \in events,
                 Checking(screen[g]), screen[g].event = e
          PROVE  Checking(screen[g])' /\ screen'[g].event = e
      <3>1. screen'[g] = screen[g]
        BY <1>1, <1>2, <2>1 DEF Moves
      <3> QED BY <2>1, <3>1 DEF Checking
    <2> QED BY <1>3, <2>1, CardsKept DEF FraudInv, rowVars, historyVars
  <1> QED BY <1>6, <1>7, <1>8, <1>9 DEF FraudInv

LEMMA ReceiveKeeps ==
    ASSUME FactsKnown, FraudInv, NEW h \in Screeners, NEW e \in Reports, Receive(h, e)
    PROVE  FraudInv'
  <1> PICK s : s = screen[h]
    OBVIOUS
  <1>1. s \in Slot(s.key) /\ s.pc = "idle"
    BY DEF FraudInv, TypesInv, Receive, At
  <1>2. events' = events \cup {e} /\ UNCHANGED <<members, signals, caseVars, historyVars>>
    BY DEF Receive
  <1> PICK t : t = [s EXCEPT !.pc = "lookup", !.event = e, !.todo = Checks]
    OBVIOUS
  <1>3. /\ t.pc = "lookup" /\ t.event = e /\ t.todo = AllChecks
        /\ t \in Slot(t.key)
    BY <1>1, TodoSteps DEF Slot, FraudLabels, Todos, WithCard
  <1>4. screen' = [screen EXCEPT ![h] = t]
    BY DEF Receive
  <1>5. screen'[h] = t /\ \A g \in Screeners \ {h} : screen'[g] = screen[g]
    BY <1>4 DEF FraudInv, TypesInv
  <1>6. Moves(h)
    <2>1. screen' = [g \in Screeners |-> screen'[g]]
      BY <1>4 DEF FraudInv, TypesInv
    <2> QED BY <1>3, <1>5, <2>1 DEF Moves
  <1>7. screen'[h].pc = "lookup" /\ screen'[h].event = e /\ screen'[h].todo = AllChecks
    BY <1>3, <1>5
  <1>8. FraudGrows
    BY <1>2 DEF FraudGrows
  <1>9. TypesInv'
    BY <1>2, <1>6, TypesKept DEF FraudInv, TypesInv, caseVars
  <1>10. FraudLocalsInv'
    <2>1. FraudLocal(screen[h])'
      BY <1>2, <1>7 DEF FraudLocal, Recording, Scoring
    <2> QED BY <1>6, <1>8, <2>1, LocalsKept DEF FraudInv
  <1>11. CasesInv'
    <2>1. \A g \in Screeners : screen[g].pc \in Scoring => screen'[g] = screen[g]
      BY <1>1, <1>5 DEF Scoring
    <2> QED BY <1>2, <2>1, CasesKept DEF FraudInv, caseVars, historyVars
  <1>12. CardsInv'
    <2> SUFFICES ASSUME NEW a \in events', NEW b \in events', Pair(a, b)'
                 PROVE  \/ Noticed(Facts[a].card)'
                        \/ \E g \in Screeners :
                              screen'[g].event \in {a, b} /\ Checking(screen[g])'
      BY DEF CardsInv
    <2>1. CASE e \in {a, b}
      <3>1. Checking(screen[h])'
        BY <1>7 DEF Checking, WithCard
      <3> QED BY <1>7, <2>1, <3>1
    <2>2. CASE e \notin {a, b}
      <3>1. a \in events /\ b \in events /\ Pair(a, b)
        BY <1>2, <2>2 DEF Pair, historyVars
      <3>2. CASE Noticed(Facts[a].card)
        BY <1>2, <3>2 DEF Noticed
      <3>3. CASE \E g \in Screeners : screen[g].event \in {a, b} /\ Checking(screen[g])
        <4> PICK g \in Screeners : screen[g].event \in {a, b} /\ Checking(screen[g])
          BY <3>3
        <4>1. g # h
          BY <1>1 DEF Checking, Recording
        <4>2. screen'[g] = screen[g]
          BY <1>5, <4>1
        <4> QED BY <4>2 DEF Checking
      <3> QED BY <3>1, <3>2, <3>3 DEF FraudInv, CardsInv
    <2> QED BY <2>1, <2>2
  <1> QED BY <1>9, <1>10, <1>11, <1>12 DEF FraudInv

-----------------------------------------------------------------------------
(* FraudSignals: the steps of no request.                                  *)

\* People join and cases are closed: nothing a request goes by changes.
LEMMA OutsideKeeps ==
    ASSUME FraudInv, UNCHANGED <<events, signals, suspected, historyVars, screen>>,
           members' \subseteq People, active' \in [People -> Nat],
           \A u \in People : active'[u] > 0 => active[u] > 0
    PROVE  FraudInv'
  <1>1. TypesInv'
    BY DEF FraudInv, TypesInv
  <1>2. FraudLocalsInv'
    <2>1. ASSUME NEW g \in Screeners PROVE FraudLocal(screen[g])'
      <3> PICK s : s = screen[g]
        OBVIOUS
      <3>1. FraudLocal(s)
        BY DEF FraudInv, FraudLocalsInv
      <3>2. FraudLocal(s)'
        BY <3>1, LocalStays DEF FraudGrows
      <3> QED BY <3>2 DEF FraudLocal
    <2> QED BY <2>1 DEF FraudLocalsInv
  <1>3. CasesInv'
    BY CasesKept DEF FraudInv, historyVars
  <1>4. CardsInv'
    <2>1. \A g \in Screeners : Checking(screen[g]) => Checking(screen[g])'
      BY DEF Checking
    <2> QED BY <2>1, CardsKept DEF FraudInv, historyVars
  <1> QED BY <1>1, <1>2, <1>3, <1>4 DEF FraudInv

-----------------------------------------------------------------------------
(* FraudSignals: the invariant is inductive.                               *)

\* Without signals nobody scores.
LEMMA NoSignals == Score({}) = 0
  <1> DEFINE Totals(g) == [s \in SUBSET {} |->
                IF s = {} THEN 0
                ELSE LET x == CHOOSE y \in s : TRUE IN Weight[x.key[1]] + g[s \ {x}]]
             f == CHOOSE g : g = Totals(g)
             z == [s \in {{}} |-> 0]
  <1>1. Score({}) = f[{}]
    BY DEF Score, MapThenSumSet, MapThenFoldSet
  <1>2. z = Totals(z)
    OBVIOUS
  <1>3. f = Totals(f)
    <2> HIDE DEF z, Totals
    <2> QED BY <1>2
  <1> QED BY <1>1, <1>3

LEMMA FraudInitially ==
    ASSUME Init
    PROVE  FraudInv
  <1>1. Idle \in Slot(Idle.key) /\ Idle.pc = "idle"
    BY DEF Idle, Slot, FraudLabels, Todos, Recording, Scoring
  <1>2. screen = [h \in Screeners |-> Idle]
    BY DEF Init
  <1>3. TypesInv
    BY <1>1, <1>2 DEF TypesInv, Init
  <1>4. FraudLocalsInv
    BY <1>1, <1>2 DEF FraudLocalsInv, FraudLocal, Recording, Scoring
  <1>5. CasesInv
    <2>1. ASSUME NEW u \in People PROVE ~(RollingScore(u) >= CaseThreshold)
      <3>1. {s \in signals : s.user = u} = {}
        BY DEF Init
      <3> QED BY <3>1, NoSignals DEF RollingScore, CaseThreshold
    <2>2. \A u \in People : active[u] = 0
      BY DEF Init
    <2> QED BY <2>1, <2>2 DEF CasesInv, CrossingOpensCase
  <1>6. CardsInv
    BY DEF CardsInv, Init
  <1> QED BY <1>3, <1>4, <1>5, <1>6 DEF FraudInv

LEMMA FraudInductive ==
    ASSUME FactsKnown, FraudInv, [Next]_vars
    PROVE  FraudInv'
  <1>1. ASSUME NEW h \in Screeners,
               \/ \E e \in Reports : Receive(h, e)
               \/ LookUp(h) \/ Check(h) \/ Created(h)
               \/ Dedupe(h) \/ CreateSignal(h) \/ ComputeRollingScore(h)
               \/ FindCase(h) \/ OpenCase(h) \/ Fail(h)
        PROVE  FraudInv'
    BY <1>1, ReceiveKeeps, LookUpKeeps, CheckKeeps, CreatedKeeps, DedupeKeeps,
       CreateSignalKeeps, ComputeRollingScoreKeeps, FindCaseKeeps, OpenCaseKeeps, FailKeeps
  <1>2. ASSUME NEW u \in People, CloseCase(u)
        PROVE  FraudInv'
    <2>1. active' \in [People -> Nat] /\ \A v \in People : active'[v] > 0 => active[v] > 0
      BY <1>2 DEF CloseCase, FraudInv, TypesInv
    <2> QED BY <1>2, <2>1, OutsideKeeps DEF CloseCase, rowVars, FraudInv, TypesInv
  <1>3. ASSUME NEW u \in People, AddMember(u)
        PROVE  FraudInv'
    <2>1. members' \subseteq People
      BY <1>3 DEF AddMember, FraudInv, TypesInv
    <2> QED BY <1>3, <2>1, OutsideKeeps DEF AddMember, caseVars, FraudInv, TypesInv
  <1>4. CASE UNCHANGED vars
    BY <1>4, OutsideKeeps DEF vars, rowVars, caseVars, FraudInv, TypesInv
  <1> QED BY <1>1, <1>2, <1>3, <1>4 DEF Next

-----------------------------------------------------------------------------
(* FraudSignals: types.  A key that a request holds begins with its check. *)

KeysInv ==
    \A h \in Screeners :
        screen[h].pc \in Recording => screen[h].key[1] \in DOMAIN Weight

FraudTypesInv ==
    /\ KeysInv
    /\ \A s \in signals : s.user \in People \cup {None} /\ s.key[1] \in DOMAIN Weight
    /\ answer \in [Reports -> {"none", "created", "duplicate"}]
    /\ halted \subseteq People /\ unscreened \subseteq Reports

LEMMA FraudTypeParts == ASSUME FraudInv, FraudTypesInv PROVE TypeOK
  <1>1. ASSUME NEW h \in Screeners
        PROVE  /\ screen[h].pc \in {"idle", "lookup", "check", "dedupe", "create", "score",
                                    "find", "open"}
               /\ screen[h].event \in Reports \cup {None}
               /\ screen[h].member \in People \cup {None}
    BY DEF FraudInv, TypesInv, Slot, FraudLabels, Recording, Scoring
  <1> QED BY <1>1 DEF FraudInv, TypesInv, FraudTypesInv, TypeOK

LEMMA ChecksWeigh == \A t \in Todos : t # <<>> => Head(t) \in DOMAIN Weight
  BY TodoSteps DEF Weight, Todos, WithCard, AllChecks, FourChecks, ThreeChecks, CardFirst, Last

LEMMA KeyNamesCheck ==
    ASSUME NEW check \in DOMAIN Weight, NEW fact PROVE Key(check, fact)[1] = check
  BY DEF Key, Weight

LEMMA KeysKept ==
    ASSUME KeysInv, NEW h \in Screeners,
           \A g \in Screeners \ {h} : screen'[g] = screen[g],
           screen'[h].pc \in Recording => screen'[h].key[1] \in DOMAIN Weight
    PROVE  KeysInv'
  BY DEF KeysInv, Weight

\* A step of h to a label at which it holds no key.
LEMMA KeyDropped ==
    ASSUME KeysInv, TypesInv, NEW h \in Screeners, NEW t,
           screen' = [screen EXCEPT ![h] = t], t.pc \notin Recording
    PROVE  KeysInv'
  <1>1. screen'[h] = t /\ \A g \in Screeners \ {h} : screen'[g] = screen[g]
    BY DEF TypesInv
  <1> QED BY <1>1, KeysKept

LEMMA MovedToCheck ==
    ASSUME KeysInv, TypesInv, NEW h \in Screeners, NextCheck(h) PROVE KeysInv'
  <1>1. PICK s : s = screen[h]
    OBVIOUS
  <1>2. DOMAIN s = {"pc", "event", "member", "todo", "key", "user"}
    BY <1>1 DEF TypesInv, Slot
  <1>3. PICK t : t = [s EXCEPT !.pc = "check", !.todo = Tail(@), !.key = <<>>, !.user = None]
    OBVIOUS
  <1>4. t.pc = "check"
    BY <1>2, <1>3
  <1>5. screen' = [screen EXCEPT ![h] = t]
    BY <1>1, <1>3 DEF NextCheck
  <1> QED BY <1>4, <1>5, KeyDropped DEF Recording

LEMMA MovedByGoto ==
    ASSUME KeysInv, TypesInv, NEW h \in Screeners, NEW pc \in FraudLabels, Goto(h, pc),
           pc \in Recording => screen[h].pc \in Recording
    PROVE  KeysInv'
  <1>1. Moves(h) /\ screen'[h].pc = pc /\ screen'[h].key = screen[h].key
    BY GotoMoves
  <1>2. \A g \in Screeners \ {h} : screen'[g] = screen[g]
    BY <1>1 DEF Moves
  <1> QED BY <1>1, <1>2, KeysKept DEF KeysInv

LEMMA FraudKeysKept ==
    ASSUME FraudInv, KeysInv, [Next]_vars PROVE KeysInv'
  <1> USE DEF FraudInv
  <1>1. CASE UNCHANGED vars
    BY <1>1 DEF vars, KeysInv
  <1>2. ASSUME NEW h \in Screeners, NEW e \in Reports, Receive(h, e) PROVE KeysInv'
    <2>1. PICK s : s = screen[h]
      OBVIOUS
    <2>2. DOMAIN s = {"pc", "event", "member", "todo", "key", "user"}
      BY <2>1 DEF TypesInv, Slot
    <2>3. PICK t : t = [s EXCEPT !.pc = "lookup", !.event = e, !.todo = Checks]
      OBVIOUS
    <2>4. t.pc = "lookup"
      BY <2>2, <2>3
    <2>5. screen' = [screen EXCEPT ![h] = t]
      BY <1>2, <2>1, <2>3 DEF Receive
    <2> QED BY <2>4, <2>5, KeyDropped DEF Recording
  <1>3. ASSUME NEW h \in Screeners, LookUp(h) PROVE KeysInv'
    <2>1. PICK s : s = screen[h]
      OBVIOUS
    <2>2. DOMAIN s = {"pc", "event", "member", "todo", "key", "user"}
      BY <2>1 DEF TypesInv, Slot
    <2>3. PICK m : m = IF Facts[s.event].user \in members THEN Facts[s.event].user ELSE None
      OBVIOUS
    <2>4. PICK t : t = [s EXCEPT !.pc = "check", !.member = m]
      OBVIOUS
    <2>5. t.pc = "check"
      BY <2>2, <2>4
    <2>6. screen' = [screen EXCEPT ![h] = t]
      BY <1>3, <2>1, <2>3, <2>4 DEF LookUp
    <2> QED BY <2>5, <2>6, KeyDropped DEF Recording
  <1>4. ASSUME NEW h \in Screeners, Check(h) PROVE KeysInv'
    <2>1. PICK s : s = screen[h]
      OBVIOUS
    <2>2. s \in Slot(s.key) /\ s.todo # <<>>
      BY <1>4, <2>1 DEF TypesInv, Check
    <2>3. PICK check : check = Head(s.todo)
      OBVIOUS
    <2>4. check \in DOMAIN Weight
      BY <2>2, <2>3, ChecksWeigh DEF Slot
    <2>5. CASE Suspicious(check, Facts[s.event], s.member)
      <3>1. PICK key : key = Key(check, Facts[s.event])
        OBVIOUS
      <3>2. PICK user : user = IF check = "velocity" THEN CodeOwner[Facts[s.event].code]
                                ELSE s.member
        OBVIOUS
      <3>3. PICK t : t = [s EXCEPT !.pc = "dedupe", !.key = key, !.user = user]
        OBVIOUS
      <3>4. screen' = [screen EXCEPT ![h] = t]
        BY <1>4, <2>1, <2>3, <2>5, <3>1, <3>2, <3>3 DEF Check
      <3>5. t.key = key
        BY <2>2, <3>3 DEF Slot
      <3>6. key[1] \in DOMAIN Weight
        BY <2>4, <3>1, KeyNamesCheck
      <3>7. screen'[h] = t /\ \A g \in Screeners \ {h} : screen'[g] = screen[g]
        BY <3>4 DEF TypesInv
      <3> QED BY <3>5, <3>6, <3>7, KeysKept
    <2>6. CASE ~Suspicious(check, Facts[s.event], s.member)
      <3>1. NextCheck(h)
        BY <1>4, <2>1, <2>3, <2>6 DEF Check
      <3> QED BY <3>1, MovedToCheck
    <2> QED BY <2>5, <2>6
  <1>5. ASSUME NEW h \in Screeners, screen' = [screen EXCEPT ![h] = Idle] PROVE KeysInv'
    <2>1. Idle.pc \notin Recording
      BY DEF Idle, Recording
    <2> QED BY <1>5, <2>1, KeyDropped
  <1>6. ASSUME NEW h \in Screeners, Dedupe(h) PROVE KeysInv'
    BY <1>6, MovedToCheck, MovedByGoto DEF Dedupe, At, Recording, FraudLabels
  <1>7. ASSUME NEW h \in Screeners, CreateSignal(h) PROVE KeysInv'
    BY <1>5, <1>7, MovedByGoto DEF CreateSignal, Answer, Recording, Scoring, FraudLabels
  <1>8. ASSUME NEW h \in Screeners, ComputeRollingScore(h) PROVE KeysInv'
    <2>1. NextCheck(h) \/ Goto(h, "find")
      BY <1>8 DEF ComputeRollingScore
    <2> QED BY <2>1, MovedToCheck, MovedByGoto DEF Recording, Scoring, FraudLabels
  <1>9. ASSUME NEW h \in Screeners, FindCase(h) PROVE KeysInv'
    BY <1>9, MovedToCheck, MovedByGoto DEF FindCase, Recording, Scoring, FraudLabels
  <1>10. ASSUME NEW h \in Screeners, OpenCase(h) PROVE KeysInv'
    BY <1>10, MovedToCheck DEF OpenCase
  <1>11. ASSUME NEW h \in Screeners, Created(h) \/ Fail(h) PROVE KeysInv'
    BY <1>5, <1>11 DEF Created, Fail, Answer
  <1>12. ASSUME NEW u \in People, CloseCase(u) \/ AddMember(u) PROVE KeysInv'
    BY <1>12 DEF CloseCase, AddMember, KeysInv
  <1> QED BY <1>1, <1>2, <1>3, <1>4, <1>6, <1>7, <1>8, <1>9, <1>10, <1>11, <1>12 DEF Next

LEMMA FraudTypesInductive ==
    ASSUME FactsKnown, FraudInv, FraudTypesInv, [Next]_vars PROVE FraudTypesInv'
  <1>1. KeysInv'
    BY FraudKeysKept DEF FraudTypesInv
  <1>2. ASSUME NEW h \in Screeners, screen[h].pc # "idle"
        PROVE  screen[h].event \in Reports /\ screen[h].user \in People \cup {None}
    BY <1>2 DEF FraudInv, TypesInv, FraudLocalsInv, FraudLocal, Slot
  <1>3. CASE UNCHANGED <<signals, answer, halted, unscreened>>
    BY <1>1, <1>3 DEF FraudTypesInv
  <1>4. ASSUME NEW h \in Screeners, Created(h) PROVE FraudTypesInv'
    <2>1. screen[h].event \in Reports
      BY <1>2, <1>4 DEF Created, At
    <2> QED BY <1>1, <1>4, <2>1 DEF Created, Answer, FraudTypesInv, rowVars
  <1>5. ASSUME NEW h \in Screeners, CreateSignal(h) PROVE FraudTypesInv'
    <2>1. PICK row : row = [key |-> screen[h].key, user |-> screen[h].user]
      OBVIOUS
    <2>2. /\ screen[h].event \in Reports /\ screen[h].user \in People \cup {None}
          /\ screen[h].key[1] \in DOMAIN Weight
      BY <1>2, <1>5 DEF CreateSignal, At, FraudTypesInv, KeysInv, Recording
    <2>3. row.user \in People \cup {None} /\ row.key[1] \in DOMAIN Weight
      BY <2>1, <2>2
    <2>4. signals' \subseteq signals \cup {row}
      BY <1>5, <2>1 DEF CreateSignal
    <2>5. \A s \in signals' : s.user \in People \cup {None} /\ s.key[1] \in DOMAIN Weight
      BY <2>3, <2>4 DEF FraudTypesInv
    <2>6. /\ answer' \in [Reports -> {"none", "created", "duplicate"}]
          /\ halted' = halted /\ unscreened' = unscreened
      BY <1>5, <2>2 DEF CreateSignal, Answer, FraudTypesInv
    <2>7. DOMAIN Weight' = DOMAIN Weight
      BY DEF Weight
    <2> QED BY <1>1, <2>5, <2>6, <2>7 DEF FraudTypesInv
  <1>6. ASSUME NEW h \in Screeners, Fail(h) PROVE FraudTypesInv'
    <2>1. screen[h].event \in Reports /\ screen[h].user \in People \cup {None}
      BY <1>2, <1>6 DEF Fail, At
    <2> QED BY <1>1, <1>6, <2>1 DEF Fail, FraudTypesInv, rowVars
  <1>7. ASSUME NEW h \in Screeners, NEW e \in Reports, Receive(h, e) PROVE FraudTypesInv'
    BY <1>3, <1>7 DEF Receive, historyVars
  <1>8. ASSUME NEW h \in Screeners, LookUp(h) \/ Check(h) \/ Dedupe(h) PROVE FraudTypesInv'
    BY <1>3, <1>8 DEF LookUp, Check, Dedupe, rowVars, historyVars
  <1>9. ASSUME NEW h \in Screeners, ComputeRollingScore(h) \/ FindCase(h) \/ OpenCase(h)
        PROVE  FraudTypesInv'
    BY <1>3, <1>9 DEF ComputeRollingScore, FindCase, OpenCase, rowVars, historyVars
  <1>10. ASSUME NEW u \in People, CloseCase(u) \/ AddMember(u) PROVE FraudTypesInv'
    BY <1>3, <1>10 DEF CloseCase, AddMember, rowVars, historyVars
  <1>11. CASE UNCHANGED vars
    BY <1>3, <1>11 DEF vars, rowVars, historyVars
  <1> QED BY <1>4, <1>5, <1>6, <1>7, <1>8, <1>9, <1>10, <1>11 DEF Next

LEMMA FraudTypesInitially ==
    ASSUME Init PROVE FraudTypesInv
  <1>1. KeysInv
    BY DEF Init, KeysInv, Idle, Recording
  <1> QED BY <1>1 DEF Init, FraudTypesInv

-----------------------------------------------------------------------------
(* Tenancy: invariant.                                                     *)

TenancyLabels == {"idle", "root", "create_root", "user0", "add_user0", "own_root", "create",
           "find", "source", "add", "own", "key", "write"}
TenancyLocal == [pc : TenancyLabels, job : {"none", "tenant", "user", "product", "parts"},
          tenant : Tenancy!Tenants \cup {None}, member : Tenancy!Members \cup {None},
          under : Tenancy!Members \cup {None}, read : Tenancy!Config]

\* What a request q knows of its tenant, its user and the source.
LocalOK(q) ==
    /\ q.pc # "idle" => q.tenant \in Tenancy!Tenants
    /\ q.pc \notin {"idle", "write"} => q.member \in Tenancy!Members /\ q.job \in {"tenant", "user"}
    /\ q.job = "tenant" => q.member = Tenancy!Owner(q.tenant)
    /\ q.job = "user" =>
          /\ q.pc \in {"find", "source", "add"} /\ q.tenant \in keyed
          /\ \E x \in Externals : q.member = <<q.tenant, x>>
    /\ q.pc \in {"user0", "add_user0", "own_root"} => Root \in tenants
    /\ q.pc = "own_root" => Tenancy!Exists(Tenancy!User0)
    /\ q.pc \in {"find", "source", "add", "own", "key"} => q.tenant \in tenants
    /\ q.pc \in {"source", "add"} => q.under \in Tenancy!Members
    /\ q.pc = "add" => Tenancy!Exists(q.under)
    /\ q.pc \in {"own", "key"} => q.job = "tenant" /\ Tenancy!Exists(q.member)
    /\ q.pc = "key" => q.tenant \in owned

TenancyLocalsInv == \A h \in Handlers : LocalOK(request[h])

\* Of a tenant whose configuration was never written by two requests at once, one
\* request at a time has a copy, and the copy is up to date.
ConfigInv ==
    \A t \in Tenancy!Tenants \ raced :
        /\ config[t].products = offered[t]
        /\ \A h \in Handlers : Tenancy!Configures(h, t) => request[h].read = config[t]
        /\ \A h, k \in Handlers : Tenancy!Configures(h, t) /\ Tenancy!Configures(k, t) => h = k

RowsOK ==
    /\ tenants \subseteq Tenancy!Tenants /\ owned \subseteq tenants /\ keyed \subseteq tenants
    /\ source \in [Tenancy!Members -> Tenancy!Members \cup {None}]
ConfigOK ==
    /\ config \in [Tenancy!Tenants -> Tenancy!Config]
    /\ offered \in [Tenancy!Tenants -> [Refs -> Versions \cup {None}]]
    /\ raced \subseteq Tenancy!Tenants

TypeInv == RowsOK /\ ConfigOK /\ request \in [Handlers -> TenancyLocal]
RootInv == Tenancy!MembersAreRooted /\ keyed \subseteq owned
TenancyInv == TypeInv /\ TenancyLocalsInv /\ RootInv /\ ConfigInv

LEMMA TypeParts == TypeInv => Tenancy!TypeOK
  BY DEF TypeInv, RowsOK, ConfigOK, Tenancy!TypeOK, TenancyLocal, TenancyLabels

LEMMA Owners == Tenancy!User0 \in Tenancy!Members /\ \A t \in Tenancy!Tenants : Tenancy!Owner(t) \in Tenancy!Members
  BY DEF Tenancy!User0, Tenancy!Owner, Tenancy!Members, Tenancy!Tenants

LEMMA IdleIsLocal == Tenancy!Idle \in TenancyLocal /\ Tenancy!Idle.pc = "idle" /\ Tenancy!Idle.job = "none"
  <1>1. Tenancy!NoConfig \in Tenancy!Config
    BY DEF Tenancy!NoConfig, Tenancy!Config
  <1> QED BY <1>1 DEF Tenancy!Idle, TenancyLocal, TenancyLabels

LEMMA TenancyInitially == ASSUME None \notin Tenancy!Members, Tenancy!Init PROVE TenancyInv
  <1>1. Tenancy!NoConfig \in Tenancy!Config /\ Tenancy!NoConfig.products = [r \in Refs |-> None]
    BY DEF Tenancy!NoConfig, Tenancy!Config
  <1>2. \A h \in Handlers : request[h] = Tenancy!Idle
    BY DEF Tenancy!Init
  <1>3. TypeInv
    <2>1. RowsOK
      BY DEF Tenancy!Init, RowsOK
    <2>2. ConfigOK
      BY <1>1 DEF Tenancy!Init, ConfigOK
    <2>3. request \in [Handlers -> TenancyLocal]
      BY IdleIsLocal DEF Tenancy!Init
    <2> QED BY <2>1, <2>2, <2>3 DEF TypeInv
  <1>4. TenancyLocalsInv
    BY <1>2, IdleIsLocal DEF TenancyLocalsInv, LocalOK
  <1>5. RootInv
    <2>1. \A m \in Tenancy!Members : ~Tenancy!Exists(m)
      BY DEF Tenancy!Init, Tenancy!Exists
    <2>2. \A t \in Slugs, x \in Externals \ {"owner"} : <<t, x>> \in Tenancy!Members
      BY DEF Tenancy!Members, Tenancy!Tenants
    <2>3. owned = {} /\ keyed = {}
      BY DEF Tenancy!Init
    <2>4. \A group \in SUBSET Tenancy!Members : group # {} /\ Tenancy!Closed(group) => Tenancy!User0 \in group
      BY <2>1 DEF Tenancy!Closed
    <2> QED BY <2>1, <2>2, <2>3, <2>4 DEF RootInv, Tenancy!MembersAreRooted
  <1>6. ConfigInv
    <2>1. \A t \in Tenancy!Tenants : config[t].products = offered[t]
      BY <1>1 DEF Tenancy!Init
    <2> QED BY <1>2, <2>1, IdleIsLocal DEF ConfigInv, Tenancy!Configures
  <1> QED BY <1>3, <1>4, <1>5, <1>6 DEF TenancyInv

-----------------------------------------------------------------------------
(* Tenancy: steps.                                                         *)

\* Rows are never deleted, nor do tenants lose an owner or a key.
TenancyGrows ==
    /\ tenants \subseteq tenants' /\ owned \subseteq owned' /\ keyed \subseteq keyed'
    /\ \A m \in Tenancy!Members : Tenancy!Exists(m) => Tenancy!Exists(m)'

LEMMA TenancySlotFacts ==
    ASSUME TenancyInv, NEW h \in Handlers
    PROVE  /\ request \in [Handlers -> TenancyLocal] /\ request[h] \in TenancyLocal
           /\ LocalOK(request[h]) /\ RowsOK /\ Tenancy!MembersAreRooted /\ keyed \subseteq owned
  BY DEF TenancyInv, TypeInv, TenancyLocalsInv, RootInv

\* What a request knows stays true.
LEMMA KnownStays ==
    ASSUME NEW q \in TenancyLocal, LocalOK(q), TenancyGrows PROVE LocalOK(q)'
  <1>1. Tenancy!User0 \in Tenancy!Members
    BY Owners
  <1>2. q' = q
    OBVIOUS
  <1> QED BY <1>1, <1>2 DEF LocalOK, TenancyGrows

\* A step of h that leaves the configuration alone.
LEMMA RowStep ==
    ASSUME TenancyInv, NEW h \in Handlers, NEW s \in TenancyLocal, s.pc # "write",
           request' = [request EXCEPT ![h] = s], UNCHANGED Tenancy!configVars,
           RowsOK', TenancyGrows, LocalOK(s)', Tenancy!MembersAreRooted', keyed' \subseteq owned'
    PROVE  TenancyInv'
  <1>1. request \in [Handlers -> TenancyLocal] /\ ConfigOK
    BY DEF TenancyInv, TypeInv
  <1>2. /\ request' \in [Handlers -> TenancyLocal] /\ request'[h] = s
        /\ \A k \in Handlers \ {h} : request'[k] = request[k]
    BY <1>1
  <1>3. TypeInv'
    BY <1>1, <1>2 DEF TypeInv, ConfigOK, Tenancy!configVars
  <1>4. TenancyLocalsInv'
    <2>1. ASSUME NEW k \in Handlers \ {h} PROVE LocalOK(request[k])'
      <3>1. PICK q \in TenancyLocal : q = request[k]
        BY <1>1
      <3>2. LocalOK(q)
        BY <3>1 DEF TenancyInv, TenancyLocalsInv
      <3>3. LocalOK(q)' /\ q = request'[k]
        BY <3>1, <3>2, <1>2, KnownStays
      <3> QED BY <3>3 DEF LocalOK
    <2>2. LocalOK(request[h])'
      BY <1>2 DEF LocalOK
    <2> QED BY <2>1, <2>2 DEF TenancyLocalsInv
  <1>5. ConfigInv'
    <2>1. \A k \in Handlers, t \in Tenancy!Tenants :
             Tenancy!Configures(k, t)' => Tenancy!Configures(k, t) /\ request'[k] = request[k]
      BY <1>2 DEF Tenancy!Configures
    <2> QED BY <2>1 DEF TenancyInv, ConfigInv, Tenancy!configVars
  <1> QED BY <1>3, <1>4, <1>5 DEF TenancyInv, RootInv

\* A step that changes nothing but the slot of h.
LEMMA TenancyLocalStep ==
    ASSUME TenancyInv, NEW h \in Handlers, NEW s \in TenancyLocal, s.pc # "write",
           request' = [request EXCEPT ![h] = s], UNCHANGED <<Tenancy!rowVars, Tenancy!configVars>>,
           LocalOK(s)
    PROVE  TenancyInv'
  <1>1. TenancyGrows /\ RowsOK' /\ keyed' \subseteq owned'
    BY TenancySlotFacts DEF TenancyGrows, Tenancy!Exists, RowsOK, Tenancy!rowVars
  <1>2. LocalOK(s)'
    BY <1>1, KnownStays
  <1>3. Tenancy!MembersAreRooted'
    BY TenancySlotFacts DEF Tenancy!MembersAreRooted, Tenancy!Closed, Tenancy!Exists,
       Tenancy!rowVars
  <1> QED BY <1>1, <1>2, <1>3, RowStep

\* Where Goto leads.
LEMMA GotoSlot ==
    ASSUME NEW q \in TenancyLocal, NEW pc \in TenancyLabels
    PROVE  LET s == [q EXCEPT !.pc = pc]
           IN  /\ s \in TenancyLocal /\ s.pc = pc /\ s.job = q.job /\ s.tenant = q.tenant
               /\ s.member = q.member /\ s.under = q.under
  BY DEF TenancyLocal

LEMMA GotoLocal ==
    ASSUME TenancyInv, NEW h \in Handlers, NEW pc \in TenancyLabels, Tenancy!Goto(h, pc)
    PROVE  \E s \in TenancyLocal :
              /\ request' = [request EXCEPT ![h] = s]
              /\ s.pc = pc /\ s.job = request[h].job /\ s.tenant = request[h].tenant
              /\ s.member = request[h].member /\ s.under = request[h].under
  <1>1. request \in [Handlers -> TenancyLocal] /\ request[h] \in TenancyLocal
    BY TenancySlotFacts
  <1> DEFINE s == [request[h] EXCEPT !.pc = pc]
  <1>2. request' = [request EXCEPT ![h] = s]
    BY <1>1 DEF Tenancy!Goto
  <1> QED BY <1>1, <1>2, GotoSlot

\* Requests end, in time or by throwing.
LEMMA Ends ==
    ASSUME TenancyInv, NEW h \in Handlers, Tenancy!Return(h), UNCHANGED <<Tenancy!rowVars, Tenancy!configVars>>
    PROVE  TenancyInv'
  <1>1. LocalOK(Tenancy!Idle)
    BY IdleIsLocal DEF LocalOK
  <1> QED BY <1>1, IdleIsLocal, TenancyLocalStep DEF Tenancy!Return

\* A Goto that is right for whatever slot it leads to.
LEMMA GotoStep ==
    ASSUME TenancyInv, NEW h \in Handlers, NEW pc \in TenancyLabels \ {"write"}, Tenancy!Goto(h, pc),
           UNCHANGED <<Tenancy!rowVars, Tenancy!configVars>>,
           \A s \in TenancyLocal :
               /\ s.pc = pc /\ s.job = request[h].job /\ s.tenant = request[h].tenant
               /\ s.member = request[h].member /\ s.under = request[h].under
               => LocalOK(s)
    PROVE  TenancyInv'
  <1>1. PICK s \in TenancyLocal :
              /\ request' = [request EXCEPT ![h] = s]
              /\ s.pc = pc /\ s.job = request[h].job /\ s.tenant = request[h].tenant
              /\ s.member = request[h].member /\ s.under = request[h].under
    BY GotoLocal
  <1>2. LocalOK(s)
    BY <1>1
  <1> QED BY <1>1, <1>2, TenancyLocalStep

\* The creation of a tenant, as far as it writes nothing.
LEMMA CreationReads ==
    ASSUME TenancyInv, NEW h \in Handlers,
           \/ \E t \in Slugs, under \in Tenancy!Members : Tenancy!CreateTenant(h, t, under)
           \/ Tenancy!FindRoot(h) \/ Tenancy!FindUser0(h)
    PROVE  TenancyInv'
  <1>w. LocalOK(request[h]) /\ request[h] \in TenancyLocal
    BY TenancySlotFacts
  <1>1. ASSUME NEW t \in Slugs, NEW under \in Tenancy!Members, Tenancy!CreateTenant(h, t, under)
        PROVE  TenancyInv'
    <2>s. PICK s : s = [Tenancy!Idle EXCEPT !.pc = "root", !.job = "tenant", !.tenant = t,
                                    !.member = Tenancy!Owner(t), !.under = under]
      OBVIOUS
    <2>1. t \in Tenancy!Tenants /\ Tenancy!Owner(t) \in Tenancy!Members
      BY Owners DEF Tenancy!Tenants
    <2>2. s \in TenancyLocal /\ s.pc = "root" /\ s.job = "tenant" /\ s.tenant = t
          /\ s.member = Tenancy!Owner(t)
      BY <2>s, <2>1, IdleIsLocal DEF TenancyLocal, TenancyLabels
    <2>3. request' = [request EXCEPT ![h] = s] /\ UNCHANGED <<Tenancy!rowVars, Tenancy!configVars>>
      BY <1>1, <2>s DEF Tenancy!CreateTenant
    <2>4. LocalOK(s)
      BY <2>1, <2>2 DEF LocalOK
    <2> QED BY <2>2, <2>3, <2>4, TenancyLocalStep
  <1>2. CASE Tenancy!FindRoot(h)
    <2> DEFINE pc == IF Root \in tenants THEN "user0" ELSE "create_root"
    <2>1. pc \in TenancyLabels \ {"write"} /\ Tenancy!Goto(h, pc) /\ UNCHANGED <<Tenancy!rowVars, Tenancy!configVars>>
          /\ request[h].pc = "root"
      BY <1>2 DEF Tenancy!FindRoot, TenancyLabels, Tenancy!At
    <2>2. ASSUME NEW s \in TenancyLocal,
                 s.pc = pc /\ s.job = request[h].job /\ s.tenant = request[h].tenant,
                 s.member = request[h].member /\ s.under = request[h].under
          PROVE  LocalOK(s)
      BY <2>1, <2>2, <1>w DEF LocalOK
    <2> QED BY <2>1, <2>2, GotoStep
  <1>3. CASE Tenancy!FindUser0(h)
    <2> DEFINE pc == IF Tenancy!Exists(Tenancy!User0) THEN "own_root" ELSE "add_user0"
    <2>1. pc \in TenancyLabels \ {"write"} /\ Tenancy!Goto(h, pc) /\ UNCHANGED <<Tenancy!rowVars, Tenancy!configVars>>
          /\ request[h].pc = "user0"
      BY <1>3 DEF Tenancy!FindUser0, TenancyLabels, Tenancy!At
    <2>2. ASSUME NEW s \in TenancyLocal,
                 s.pc = pc /\ s.job = request[h].job /\ s.tenant = request[h].tenant,
                 s.member = request[h].member /\ s.under = request[h].under
          PROVE  LocalOK(s)
      BY <2>1, <2>2, <1>w DEF LocalOK
    <2> QED BY <2>1, <2>2, GotoStep
  <1> QED BY <1>1, <1>2, <1>3

\* The search for a user, as far as it writes nothing.
LEMMA UserReads ==
    ASSUME TenancyInv, NEW h \in Handlers,
           \/ \E t \in Slugs, x \in Externals, under \in Tenancy!Members \cup {None} :
                 Tenancy!CreateUser(h, t, x, under)
           \/ Tenancy!FindMember(h) \/ Tenancy!CheckSource(h)
    PROVE  TenancyInv'
  <1>w. LocalOK(request[h]) /\ request[h] \in TenancyLocal /\ keyed \subseteq tenants
    BY TenancySlotFacts DEF RowsOK
  <1>1. ASSUME NEW t \in Slugs, NEW x \in Externals, NEW under \in Tenancy!Members \cup {None},
               Tenancy!CreateUser(h, t, x, under)
        PROVE  TenancyInv'
    <2> DEFINE u == IF under = None /\ t \in owned THEN Tenancy!Owner(t) ELSE under
    <2>1. t \in Tenancy!Tenants /\ <<t, x>> \in Tenancy!Members /\ u \in Tenancy!Members \cup {None} /\ t \in keyed
      BY <1>1, Owners DEF Tenancy!Tenants, Tenancy!Members, Tenancy!CreateUser,
         Tenancy!VerifiedTenant
    <2> HIDE DEF u
    <2>s. PICK s : s = [Tenancy!Idle EXCEPT !.pc = "find", !.job = "user", !.tenant = t,
                                    !.member = <<t, x>>, !.under = u]
      OBVIOUS
    <2>2. s \in TenancyLocal /\ s.pc = "find" /\ s.job = "user" /\ s.tenant = t
          /\ s.member = <<t, x>>
      BY <2>s, <2>1, IdleIsLocal DEF TenancyLocal, TenancyLabels
    <2>3. request' = [request EXCEPT ![h] = s] /\ UNCHANGED <<Tenancy!rowVars, Tenancy!configVars>>
      BY <1>1, <2>s DEF Tenancy!CreateUser, u
    <2>4. LocalOK(s)
      BY <2>1, <2>2, <1>w DEF LocalOK
    <2> QED BY <2>2, <2>3, <2>4, TenancyLocalStep
  <1>2. CASE Tenancy!FindMember(h)
    <2> DEFINE found == Tenancy!Exists(request[h].member)
               pc == IF found THEN "own" ELSE "source"
    <2>1. /\ request[h].pc = "find" /\ (found \/ request[h].under # None)
          /\ UNCHANGED <<Tenancy!rowVars, Tenancy!configVars>>
          /\ IF found /\ request[h].job = "user" THEN Tenancy!Return(h) ELSE Tenancy!Goto(h, pc)
      BY <1>2 DEF Tenancy!FindMember, Tenancy!At
    <2>2. CASE found /\ request[h].job = "user"
      BY <2>1, <2>2, Ends
    <2>3. CASE ~(found /\ request[h].job = "user")
      <3>1. pc \in TenancyLabels \ {"write"} /\ Tenancy!Goto(h, pc)
        BY <2>1, <2>3 DEF TenancyLabels
      <3>2. request[h].under \in Tenancy!Members \cup {None}
        BY <1>w DEF TenancyLocal
      <3>3. ASSUME NEW s \in TenancyLocal,
                   s.pc = pc /\ s.job = request[h].job /\ s.tenant = request[h].tenant,
                   s.member = request[h].member /\ s.under = request[h].under
            PROVE  LocalOK(s)
        BY <2>1, <2>3, <3>2, <3>3, <1>w DEF LocalOK
      <3> QED BY <2>1, <3>1, <3>3, GotoStep
    <2> QED BY <2>2, <2>3
  <1>3. CASE Tenancy!CheckSource(h)
    <2>1. "add" \in TenancyLabels \ {"write"} /\ Tenancy!Goto(h, "add") /\ UNCHANGED <<Tenancy!rowVars, Tenancy!configVars>>
          /\ request[h].pc = "source" /\ Tenancy!Exists(request[h].under)
      BY <1>3 DEF Tenancy!CheckSource, TenancyLabels, Tenancy!At
    <2>2. ASSUME NEW s \in TenancyLocal,
                 s.pc = "add" /\ s.job = request[h].job /\ s.tenant = request[h].tenant,
                 s.member = request[h].member /\ s.under = request[h].under
          PROVE  LocalOK(s)
      BY <2>1, <2>2, <1>w DEF LocalOK, Tenancy!Exists
    <2> QED BY <2>1, <2>2, GotoStep
  <1> QED BY <1>1, <1>2, <1>3

-----------------------------------------------------------------------------
(* Tenancy: rows.                                                          *)

\* A new user below one who exists, or user0 below itself.
LEMMA Join ==
    ASSUME None \notin Tenancy!Members, RowsOK, Tenancy!MembersAreRooted,
           NEW m \in Tenancy!Members, ~Tenancy!Exists(m), NEW u \in Tenancy!Members,
           Tenancy!Exists(u) \/ (m = Tenancy!User0 /\ u = Tenancy!User0),
           source' = [source EXCEPT ![m] = u]
    PROVE  /\ source' \in [Tenancy!Members -> Tenancy!Members \cup {None}]
           /\ \A n \in Tenancy!Members \ {m} : source'[n] = source[n]
           /\ Tenancy!Exists(m)'
           /\ \A n \in Tenancy!Members : Tenancy!Exists(n)' => Tenancy!Exists(source[n])'
           /\ \A group \in SUBSET Tenancy!Members :
                 group # {} /\ Tenancy!Closed(group)' => Tenancy!User0 \in group
  <1>1. /\ source' \in [Tenancy!Members -> Tenancy!Members \cup {None}] /\ source'[m] = u
        /\ \A n \in Tenancy!Members \ {m} : source'[n] = source[n]
    BY DEF RowsOK
  <1>2. Tenancy!Exists(m)' /\ Tenancy!Exists(u)'
    BY <1>1 DEF Tenancy!Exists
  <1>3. ASSUME NEW n \in Tenancy!Members, Tenancy!Exists(n)' PROVE Tenancy!Exists(source[n])'
    <2>1. CASE n = m
      BY <2>1, <1>1, <1>2 DEF Tenancy!Exists
    <2>2. CASE n # m
      <3>1. Tenancy!Exists(n) /\ source[n] \in Tenancy!Members /\ Tenancy!Exists(source[n]) /\ source'[n] = source[n]
        BY <1>1, <1>3, <2>2 DEF Tenancy!Exists, RowsOK, Tenancy!MembersAreRooted
      <3>2. source[n] # m
        BY <3>1
      <3> QED BY <1>1, <3>1, <3>2 DEF Tenancy!Exists
    <2> QED BY <2>1, <2>2
  <1>4. ASSUME NEW group \in SUBSET Tenancy!Members, group # {}, Tenancy!Closed(group)', Tenancy!User0 \notin group
        PROVE  FALSE
    <2>1. \A n \in group : source'[n] # None /\ source'[n] \in group
      BY <1>4 DEF Tenancy!Closed, Tenancy!Exists
    <2>2. CASE m \notin group
      <3>1. Tenancy!Closed(group)
        BY <2>1, <2>2, <1>1 DEF Tenancy!Closed, Tenancy!Exists
      <3> QED BY <3>1, <1>4 DEF Tenancy!MembersAreRooted
    <2>3. CASE m \in group
      <3>1. u \in group /\ u # m
        BY <2>1, <2>3, <1>1, <1>4
      <3>2. ASSUME NEW n \in group \ {m}
            PROVE  Tenancy!Exists(n) /\ source[n] \in group \ {m}
        <4>1. n \in Tenancy!Members /\ source[n] # None /\ source[n] \in group
          BY <2>1, <1>1
        <4>2. Tenancy!Exists(source[n])
          BY <4>1 DEF Tenancy!Exists, Tenancy!MembersAreRooted
        <4> QED BY <4>1, <4>2 DEF Tenancy!Exists
      <3>3. Tenancy!Closed(group \ {m}) /\ group \ {m} # {}
        BY <3>1, <3>2 DEF Tenancy!Closed
      <3>4. Tenancy!User0 \in group \ {m}
        BY <3>3 DEF Tenancy!MembersAreRooted
      <3> QED BY <3>4, <1>4
    <2> QED BY <2>2, <2>3
  <1> QED BY <1>1, <1>2, <1>3, <1>4

LEMMA RootRows ==
    ASSUME None \notin Tenancy!Members, TenancyInv, NEW h \in Handlers,
           Tenancy!CreateRoot(h) \/ Tenancy!AddUser0(h) \/ Tenancy!OwnRoot(h)
    PROVE  TenancyInv'
  <1>w. LocalOK(request[h]) /\ request[h] \in TenancyLocal /\ RowsOK /\ Tenancy!MembersAreRooted
        /\ keyed \subseteq owned /\ Root \in Tenancy!Tenants /\ Tenancy!User0 \in Tenancy!Members
    BY TenancySlotFacts, Owners DEF Tenancy!Tenants
  <1>1. CASE Tenancy!CreateRoot(h)
    <2>1. request[h].pc = "create_root" /\ tenants' = tenants \cup {Root} /\ Tenancy!Goto(h, "user0")
          /\ UNCHANGED <<owned, keyed, source, Tenancy!configVars>>
      BY <1>1 DEF Tenancy!CreateRoot, Tenancy!At
    <2>s. PICK s \in TenancyLocal :
              /\ request' = [request EXCEPT ![h] = s]
              /\ s.pc = "user0" /\ s.job = request[h].job /\ s.tenant = request[h].tenant
              /\ s.member = request[h].member /\ s.under = request[h].under
      BY <2>1, GotoLocal DEF TenancyLabels
    <2>2. LocalOK(s)'
      BY <2>1, <2>s, <1>w DEF LocalOK
    <2>3. TenancyGrows /\ RowsOK' /\ Tenancy!MembersAreRooted'
      BY <2>1, <1>w DEF TenancyGrows, RowsOK, Tenancy!MembersAreRooted, Tenancy!Closed,
         Tenancy!Exists
    <2> QED BY <2>1, <2>s, <2>2, <2>3, <1>w, RowStep
  <1>2. CASE Tenancy!AddUser0(h)
    <2>1. request[h].pc = "add_user0" /\ ~Tenancy!Exists(Tenancy!User0)
          /\ source' = [source EXCEPT ![Tenancy!User0] = Tenancy!User0] /\ Tenancy!Goto(h, "own_root")
          /\ UNCHANGED <<tenants, owned, keyed, Tenancy!configVars>>
      BY <1>2 DEF Tenancy!AddUser0, Tenancy!At
    <2>s. PICK s \in TenancyLocal :
              /\ request' = [request EXCEPT ![h] = s]
              /\ s.pc = "own_root" /\ s.job = request[h].job /\ s.tenant = request[h].tenant
              /\ s.member = request[h].member /\ s.under = request[h].under
      BY <2>1, GotoLocal DEF TenancyLabels
    <2>2. /\ source' \in [Tenancy!Members -> Tenancy!Members \cup {None}]
          /\ \A n \in Tenancy!Members \ {Tenancy!User0} : source'[n] = source[n]
          /\ Tenancy!Exists(Tenancy!User0)'
          /\ \A n \in Tenancy!Members : Tenancy!Exists(n)' => Tenancy!Exists(source[n])'
          /\ \A group \in SUBSET Tenancy!Members : group # {} /\ Tenancy!Closed(group)' =>
                    Tenancy!User0 \in group
      BY <2>1, <1>w, Join
    <2>3. LocalOK(s)'
      BY <2>1, <2>s, <2>2, <1>w DEF LocalOK
    <2>4. TenancyGrows /\ RowsOK'
      BY <2>1, <2>2, <1>w DEF TenancyGrows, RowsOK, Tenancy!Exists
    <2>5. Tenancy!MembersAreRooted'
      <3>1. \A t \in owned' : Tenancy!Exists(Tenancy!Owner(t))'
        BY <2>1, <2>4, <1>w, Owners DEF TenancyGrows, Tenancy!MembersAreRooted, RowsOK,
           Tenancy!Exists
      <3>2. ASSUME NEW t \in Slugs, NEW x \in Externals \ {"owner"}, Tenancy!Exists(<<t, x>>)'
            PROVE  t \in owned'
        <4>1. <<t, x>> \in Tenancy!Members \ {Tenancy!User0}
          BY DEF Tenancy!Members, Tenancy!Tenants, Tenancy!User0, Tenancy!Owner
        <4> QED BY <4>1, <3>2, <2>1, <2>2, <1>w DEF Tenancy!Exists, Tenancy!MembersAreRooted
      <3> QED BY <2>2, <3>1, <3>2 DEF Tenancy!MembersAreRooted
    <2> QED BY <2>1, <2>s, <2>3, <2>4, <2>5, <1>w, RowStep
  <1>3. CASE Tenancy!OwnRoot(h)
    <2>1. request[h].pc = "own_root" /\ owned' = owned \cup {Root} /\ Tenancy!Goto(h, "create")
          /\ UNCHANGED <<tenants, keyed, source, Tenancy!configVars>>
      BY <1>3 DEF Tenancy!OwnRoot, Tenancy!At
    <2>s. PICK s \in TenancyLocal :
              /\ request' = [request EXCEPT ![h] = s]
              /\ s.pc = "create" /\ s.job = request[h].job /\ s.tenant = request[h].tenant
              /\ s.member = request[h].member /\ s.under = request[h].under
      BY <2>1, GotoLocal DEF TenancyLabels
    <2>2. LocalOK(s)'
      BY <2>1, <2>s, <1>w DEF LocalOK
    <2>3. Root \in tenants /\ Tenancy!Exists(Tenancy!User0)
      BY <2>1, <1>w DEF LocalOK
    <2>4. TenancyGrows /\ RowsOK' /\ Tenancy!MembersAreRooted' /\ keyed' \subseteq owned'
      BY <2>1, <2>3, <1>w DEF TenancyGrows, RowsOK, Tenancy!MembersAreRooted, Tenancy!Closed,
         Tenancy!Exists, Tenancy!User0
    <2> QED BY <2>1, <2>s, <2>2, <2>4, RowStep
  <1> QED BY <1>1, <1>2, <1>3

LEMMA TenantRows ==
    ASSUME None \notin Tenancy!Members, TenancyInv, NEW h \in Handlers,
           Tenancy!CreateRow(h) \/ Tenancy!SetOwner(h) \/ Tenancy!IssueApiKey(h)
    PROVE  TenancyInv'
  <1> DEFINE t == request[h].tenant
  <1>w. LocalOK(request[h]) /\ request[h] \in TenancyLocal /\ RowsOK /\ Tenancy!MembersAreRooted
        /\ keyed \subseteq owned
    BY TenancySlotFacts
  <1>1. CASE Tenancy!CreateRow(h)
    <2>1. request[h].pc = "create" /\ tenants' = tenants \cup {t} /\ Tenancy!Goto(h, "find")
          /\ UNCHANGED <<owned, keyed, source, Tenancy!configVars>>
      BY <1>1 DEF Tenancy!CreateRow, Tenancy!At
    <2>2. t \in Tenancy!Tenants
      BY <2>1, <1>w DEF LocalOK
    <2>s. PICK s \in TenancyLocal :
              /\ request' = [request EXCEPT ![h] = s]
              /\ s.pc = "find" /\ s.job = request[h].job /\ s.tenant = t
              /\ s.member = request[h].member /\ s.under = request[h].under
      BY <2>1, GotoLocal DEF TenancyLabels
    <2>3. LocalOK(s)'
      BY <2>1, <2>2, <2>s, <1>w DEF LocalOK
    <2>4. TenancyGrows /\ RowsOK' /\ Tenancy!MembersAreRooted'
      BY <2>1, <2>2, <1>w DEF TenancyGrows, RowsOK, Tenancy!MembersAreRooted, Tenancy!Closed,
         Tenancy!Exists
    <2> QED BY <2>1, <2>s, <2>3, <2>4, <1>w, RowStep
  <1>2. CASE Tenancy!SetOwner(h)
    <2>1. request[h].pc = "own" /\ owned' = owned \cup {t} /\ Tenancy!Goto(h, "key")
          /\ UNCHANGED <<tenants, keyed, source, Tenancy!configVars>>
      BY <1>2 DEF Tenancy!SetOwner, Tenancy!At
    <2>2. t \in tenants /\ Tenancy!Exists(Tenancy!Owner(t)) /\ request[h].job = "tenant"
          /\ t \in Tenancy!Tenants /\ request[h].member \in Tenancy!Members /\ request[h].member = Tenancy!Owner(t)
      BY <2>1, <1>w DEF LocalOK
    <2>s. PICK s \in TenancyLocal :
              /\ request' = [request EXCEPT ![h] = s]
              /\ s.pc = "key" /\ s.job = request[h].job /\ s.tenant = t
              /\ s.member = request[h].member /\ s.under = request[h].under
      BY <2>1, GotoLocal DEF TenancyLabels
    <2>3. LocalOK(s)'
      BY <2>1, <2>2, <2>s DEF LocalOK, Tenancy!Exists
    <2>4. TenancyGrows /\ RowsOK' /\ Tenancy!MembersAreRooted' /\ keyed' \subseteq owned'
      BY <2>1, <2>2, <1>w DEF TenancyGrows, RowsOK, Tenancy!MembersAreRooted, Tenancy!Closed,
         Tenancy!Exists
    <2> QED BY <2>1, <2>s, <2>3, <2>4, RowStep
  <1>3. CASE Tenancy!IssueApiKey(h)
    <2>1. request[h].pc = "key" /\ keyed' = keyed \cup {t}
          /\ request' = [request EXCEPT ![h] = Tenancy!Idle]
          /\ UNCHANGED <<tenants, owned, source, Tenancy!configVars>>
      BY <1>3 DEF Tenancy!IssueApiKey, Tenancy!At, Tenancy!Return
    <2>2. t \in owned /\ t \in tenants
      BY <2>1, <1>w DEF LocalOK
    <2>s. PICK s \in TenancyLocal : s = Tenancy!Idle
      BY IdleIsLocal
    <2>3. LocalOK(s)' /\ s.pc # "write"
      BY <2>s, IdleIsLocal DEF LocalOK
    <2>4. TenancyGrows /\ RowsOK' /\ Tenancy!MembersAreRooted' /\ keyed' \subseteq owned'
      BY <2>1, <2>2, <1>w DEF TenancyGrows, RowsOK, Tenancy!MembersAreRooted, Tenancy!Closed,
         Tenancy!Exists
    <2> QED BY <2>1, <2>s, <2>3, <2>4, RowStep
  <1> QED BY <1>1, <1>2, <1>3

LEMMA MemberRows ==
    ASSUME None \notin Tenancy!Members, TenancyInv, NEW h \in Handlers, Tenancy!AddMember(h)
    PROVE  TenancyInv'
  <1> PICK m, u, t : m = request[h].member /\ u = request[h].under /\ t = request[h].tenant
    OBVIOUS
  <1>w. LocalOK(request[h]) /\ request[h] \in TenancyLocal /\ RowsOK /\ Tenancy!MembersAreRooted
        /\ keyed \subseteq owned
    BY TenancySlotFacts
  <1>1. request[h].pc = "add" /\ ~Tenancy!Exists(m) /\ source' = [source EXCEPT ![m] = u]
        /\ (IF request[h].job = "user" THEN Tenancy!Return(h) ELSE Tenancy!Goto(h, "own"))
        /\ UNCHANGED <<tenants, owned, keyed, Tenancy!configVars>>
    BY DEF Tenancy!AddMember, Tenancy!At
  <1>2. /\ m \in Tenancy!Members /\ u \in Tenancy!Members /\ Tenancy!Exists(u) /\ t \in Tenancy!Tenants /\ t \in tenants
        /\ request[h].job \in {"tenant", "user"}
        /\ request[h].job = "tenant" => m = Tenancy!Owner(t)
        /\ request[h].job = "user" => t \in keyed /\ \E x \in Externals : m = <<t, x>>
    BY <1>1, <1>w DEF LocalOK
  <1>3. /\ source' \in [Tenancy!Members -> Tenancy!Members \cup {None}]
        /\ \A n \in Tenancy!Members \ {m} : source'[n] = source[n]
        /\ Tenancy!Exists(m)'
        /\ \A n \in Tenancy!Members : Tenancy!Exists(n)' => Tenancy!Exists(source[n])'
        /\ \A group \in SUBSET Tenancy!Members : group # {} /\ Tenancy!Closed(group)' =>
                  Tenancy!User0 \in group
    BY <1>1, <1>2, <1>w, Join
  <1>4. TenancyGrows /\ RowsOK'
    BY <1>1, <1>3, <1>w DEF TenancyGrows, RowsOK, Tenancy!Exists
  <1>5. Tenancy!MembersAreRooted'
    <2>1. \A v \in owned' : Tenancy!Exists(Tenancy!Owner(v))'
      BY <1>1, <1>4, <1>w, Owners DEF TenancyGrows, Tenancy!MembersAreRooted, RowsOK, Tenancy!Exists
    <2>2. ASSUME NEW v \in Slugs, NEW x \in Externals \ {"owner"}, Tenancy!Exists(<<v, x>>)'
          PROVE  v \in owned'
      <3>1. <<v, x>> \in Tenancy!Members
        BY DEF Tenancy!Members, Tenancy!Tenants
      <3>2. CASE <<v, x>> = m
        <4>1. request[h].job = "user"
          BY <3>2, <1>2 DEF Tenancy!Owner
        <4> QED BY <4>1, <3>2, <1>1, <1>2, <1>w
      <3>3. CASE <<v, x>> # m
        BY <3>1, <3>3, <2>2, <1>1, <1>3, <1>w DEF Tenancy!Exists, Tenancy!MembersAreRooted
      <3> QED BY <3>2, <3>3
    <2> QED BY <1>3, <2>1, <2>2 DEF Tenancy!MembersAreRooted
  <1>6. CASE request[h].job = "user"
    <2>s. PICK s \in TenancyLocal : s = Tenancy!Idle
      BY IdleIsLocal
    <2>1. LocalOK(s)' /\ s.pc # "write"
      BY <2>s, IdleIsLocal DEF LocalOK
    <2> QED BY <2>s, <2>1, <1>1, <1>4, <1>5, <1>6, <1>w, RowStep DEF Tenancy!Return
  <1>7. CASE request[h].job # "user"
    <2>s. PICK s \in TenancyLocal :
              /\ request' = [request EXCEPT ![h] = s]
              /\ s.pc = "own" /\ s.job = request[h].job /\ s.tenant = t
              /\ s.member = m /\ s.under = u
      BY <1>1, <1>7, GotoLocal DEF TenancyLabels
    <2>1. LocalOK(s)'
      BY <2>s, <1>1, <1>2, <1>3, <1>7 DEF LocalOK, Tenancy!Exists
    <2> QED BY <2>s, <2>1, <1>1, <1>4, <1>5, <1>w, RowStep
  <1> QED BY <1>6, <1>7

-----------------------------------------------------------------------------
(* Tenancy: configuration.                                                 *)

\* A step that leaves the rows alone and takes h in or out of a write.
LEMMA ConfigStep ==
    ASSUME TenancyInv, NEW h \in Handlers, NEW s \in TenancyLocal, LocalOK(s),
           request' = [request EXCEPT ![h] = s], UNCHANGED Tenancy!rowVars, ConfigOK', ConfigInv'
    PROVE  TenancyInv'
  <1>1. request \in [Handlers -> TenancyLocal] /\ RowsOK /\ Tenancy!MembersAreRooted /\ keyed \subseteq owned
    BY TenancySlotFacts
  <1>2. /\ request' \in [Handlers -> TenancyLocal] /\ request'[h] = s
        /\ \A k \in Handlers \ {h} : request'[k] = request[k]
    BY <1>1
  <1>3. TypeInv' /\ RootInv'
    BY <1>1, <1>2 DEF TypeInv, RowsOK, RootInv, Tenancy!MembersAreRooted, Tenancy!Closed,
       Tenancy!Exists, Tenancy!rowVars
  <1>4. TenancyGrows
    BY DEF TenancyGrows, Tenancy!Exists, Tenancy!rowVars
  <1>5. TenancyLocalsInv'
    <2>1. ASSUME NEW k \in Handlers PROVE LocalOK(request[k])'
      <3>1. PICK q \in TenancyLocal : q = IF k = h THEN s ELSE request[k]
        BY <1>1
      <3>2. LocalOK(q)
        BY <3>1, TenancySlotFacts
      <3>3. LocalOK(q)' /\ q = request'[k]
        BY <3>1, <3>2, <1>2, <1>4, KnownStays
      <3> QED BY <3>3 DEF LocalOK
    <2> QED BY <2>1 DEF TenancyLocalsInv
  <1> QED BY <1>3, <1>5 DEF TenancyInv

LEMMA ConfigReads ==
    ASSUME TenancyInv, NEW h \in Handlers, Tenancy!Configure(h)
    PROVE  TenancyInv'
  <1>1. PICK job \in {"product", "parts"}, t \in tenants : Tenancy!ReadConfig(h, job, t)
    BY TenancySlotFacts DEF Tenancy!Configure, RowsOK
  <1>t. /\ request \in [Handlers -> TenancyLocal] /\ ConfigOK /\ t \in Tenancy!Tenants
        /\ config[t] \in Tenancy!Config
    BY TenancySlotFacts DEF TenancyInv, TypeInv, ConfigOK, RowsOK
  <1>s. PICK s : s = [Tenancy!Idle EXCEPT !.pc = "write", !.job = job, !.tenant = t, !.read = config[t]]
    OBVIOUS
  <1>2. s \in TenancyLocal /\ s.pc = "write" /\ s.job = job /\ s.tenant = t /\ s.read = config[t]
    BY <1>s, <1>t, IdleIsLocal DEF TenancyLocal, TenancyLabels
  <1>3. /\ request[h].pc = "idle" /\ request' = [request EXCEPT ![h] = s]
        /\ raced' = IF \E other \in Handlers : Tenancy!Configures(other, t)
                    THEN raced \cup {t} ELSE raced
        /\ UNCHANGED <<Tenancy!rowVars, config, offered>>
    BY <1>1, <1>s DEF Tenancy!ReadConfig, Tenancy!At
  <1>4. LocalOK(s)
    BY <1>2, <1>t DEF LocalOK
  <1>5. ConfigOK'
    BY <1>3, <1>t DEF ConfigOK
  <1>6. ConfigInv'
    <2>1. /\ request'[h] = s
          /\ \A k \in Handlers \ {h} : request'[k] = request[k]
      BY <1>3, <1>t
    <2>2. ASSUME NEW v \in Tenancy!Tenants, NEW k \in Handlers
          PROVE  Tenancy!Configures(k, v)' => IF k = h THEN v = t ELSE Tenancy!Configures(k, v)
      BY <2>1, <1>2 DEF Tenancy!Configures
    <2>3. ASSUME NEW v \in Tenancy!Tenants \ raced'
          PROVE  /\ config'[v].products = offered'[v]
                 /\ \A k \in Handlers : Tenancy!Configures(k, v)' => request'[k].read = config'[v]
                 /\ \A k, l \in Handlers : Tenancy!Configures(k, v)' /\ Tenancy!Configures(l, v)' => k = l
      <3>1. v \in Tenancy!Tenants \ raced
        BY <1>3
      <3>2. v = t => \A k \in Handlers : ~Tenancy!Configures(k, v)
        BY <1>3
      <3> QED BY <3>1, <3>2, <2>1, <2>2, <1>2, <1>3 DEF TenancyInv, ConfigInv
    <2> QED BY <2>3 DEF ConfigInv
  <1> QED BY <1>2, <1>3, <1>4, <1>5, <1>6, ConfigStep

\* The write of a request whose copy, changed, is c.
LEMMA ConfigWrite ==
    ASSUME TenancyInv, NEW h \in Handlers, request[h].pc = "write", Tenancy!Return(h),
           NEW c \in Tenancy!Config, NEW products \in [Refs -> Versions \cup {None}],
           config' = [config EXCEPT ![request[h].tenant] = c],
           offered' = [offered EXCEPT ![request[h].tenant] = products],
           request[h].tenant \notin raced => c.products = products,
           UNCHANGED <<Tenancy!rowVars, raced>>
    PROVE  TenancyInv'
  <1> DEFINE t == request[h].tenant
  <1>t. request \in [Handlers -> TenancyLocal] /\ ConfigOK /\ t \in Tenancy!Tenants
    BY TenancySlotFacts DEF TenancyInv, TypeInv, LocalOK
  <1>1. ConfigOK'
    BY <1>t DEF ConfigOK
  <1>2. LocalOK(Tenancy!Idle)
    BY IdleIsLocal DEF LocalOK
  <1>3. ConfigInv'
    <2>1. /\ request'[h] = Tenancy!Idle
          /\ \A k \in Handlers \ {h} : request'[k] = request[k]
      BY <1>t DEF Tenancy!Return
    <2>2. ASSUME NEW v \in Tenancy!Tenants, NEW k \in Handlers
          PROVE  Tenancy!Configures(k, v)' => k # h /\ Tenancy!Configures(k, v) /\ request'[k] = request[k]
      BY <2>1, IdleIsLocal DEF Tenancy!Configures
    <2>3. Tenancy!Configures(h, t)
      BY DEF Tenancy!Configures
    <2>4. ASSUME NEW v \in Tenancy!Tenants \ raced'
          PROVE  /\ config'[v].products = offered'[v]
                 /\ \A k \in Handlers : Tenancy!Configures(k, v)' => request'[k].read = config'[v]
                 /\ \A k, l \in Handlers : Tenancy!Configures(k, v)' /\ Tenancy!Configures(l, v)' => k = l
      <3>1. CASE v = t
        <4>1. \A k \in Handlers : ~Tenancy!Configures(k, v)'
          BY <3>1, <2>2, <2>3 DEF TenancyInv, ConfigInv
        <4> QED BY <4>1, <3>1, <1>t DEF ConfigOK
      <3>2. CASE v # t
        <4>1. config'[v] = config[v] /\ offered'[v] = offered[v]
          BY <3>2, <1>t DEF ConfigOK
        <4> QED BY <4>1, <2>2 DEF TenancyInv, ConfigInv
      <3> QED BY <3>1, <3>2
    <2> QED BY <2>4 DEF ConfigInv
  <1> QED BY <1>1, <1>2, <1>3, IdleIsLocal, ConfigStep DEF Tenancy!Return

LEMMA ConfigWrites ==
    ASSUME TenancyInv, NEW h \in Handlers,
           \/ \E r \in Refs, v \in Versions : Tenancy!RegisterCheckoutProduct(h, r, v)
           \/ \E p \in Tenancy!Parts, v \in Versions : Tenancy!UpdateWebhookConfig(h, p, v)
    PROVE  TenancyInv'
  <1> DEFINE t == request[h].tenant
             old == request[h].read
  <1>t. /\ request[h] \in TenancyLocal /\ ConfigOK /\ old \in Tenancy!Config
        /\ request[h].pc = "write" => t \in Tenancy!Tenants
    BY TenancySlotFacts DEF TenancyInv, TypeInv, LocalOK, TenancyLocal
  <1>o. request[h].pc = "write" /\ t \notin raced => old.products = offered[t]
    BY <1>t DEF TenancyInv, ConfigInv, Tenancy!Configures
  <1>1. ASSUME NEW r \in Refs, NEW v \in Versions, Tenancy!RegisterCheckoutProduct(h, r, v)
        PROVE  TenancyInv'
    <2>c. PICK c : c = [old EXCEPT !.products[r] = v]
      OBVIOUS
    <2>p. PICK products : products = [offered[t] EXCEPT ![r] = v]
      OBVIOUS
    <2>1. /\ request[h].pc = "write" /\ Tenancy!Return(h) /\ UNCHANGED <<Tenancy!rowVars, raced>>
          /\ config' = [config EXCEPT ![t] = c]
          /\ offered' = [offered EXCEPT ![t][r] = v]
      BY <1>1, <2>c DEF Tenancy!RegisterCheckoutProduct, Tenancy!At
    <2>2. offered' = [offered EXCEPT ![t] = products]
      BY <2>1, <2>p, <1>t DEF ConfigOK
    <2>3. c \in Tenancy!Config /\ c.products = [old.products EXCEPT ![r] = v]
      BY <2>c, <1>t DEF Tenancy!Config
    <2>4. offered[t] \in [Refs -> Versions \cup {None}]
      BY <2>1, <1>t DEF ConfigOK
    <2>5. products \in [Refs -> Versions \cup {None}]
      BY <2>4, <2>p
    <2>6. t \notin raced => c.products = products
      BY <2>1, <2>3, <2>p, <1>o
    <2> QED BY <2>1, <2>2, <2>3, <2>5, <2>6, ConfigWrite
  <1>2. ASSUME NEW p \in Tenancy!Parts, NEW v \in Versions, Tenancy!UpdateWebhookConfig(h, p, v)
        PROVE  TenancyInv'
    <2>c. PICK c : c = [old EXCEPT !.parts[p] = v]
      OBVIOUS
    <2>p. PICK products : products = offered[t]
      OBVIOUS
    <2>1. /\ request[h].pc = "write" /\ Tenancy!Return(h) /\ UNCHANGED <<Tenancy!rowVars, raced>>
          /\ config' = [config EXCEPT ![t] = c] /\ UNCHANGED offered
      BY <1>2, <2>c DEF Tenancy!UpdateWebhookConfig, Tenancy!At
    <2>2. offered' = [offered EXCEPT ![t] = products]
      BY <2>1, <2>p, <1>t DEF ConfigOK
    <2>3. c \in Tenancy!Config /\ c.products = old.products
      BY <2>c, <1>t DEF Tenancy!Config
    <2>4. products \in [Refs -> Versions \cup {None}]
      BY <2>1, <2>p, <1>t DEF ConfigOK
    <2>5. t \notin raced => c.products = products
      BY <2>1, <2>3, <2>p, <1>o
    <2> QED BY <2>1, <2>2, <2>3, <2>4, <2>5, ConfigWrite
  <1> QED BY <1>1, <1>2

-----------------------------------------------------------------------------
(* Tenancy: the invariant is inductive.                                    *)

LEMMA TenancyInductive ==
    ASSUME None \notin Tenancy!Members, TenancyInv, [Tenancy!Next]_Tenancy!vars
    PROVE  TenancyInv'
  <1>1. ASSUME NEW h \in Handlers, Tenancy!Throw(h) PROVE TenancyInv'
    BY <1>1, Ends DEF Tenancy!Throw
  <1>2. CASE UNCHANGED Tenancy!vars
    <2>1. UNCHANGED <<Tenancy!rowVars, Tenancy!configVars, request>>
      BY <1>2 DEF Tenancy!vars
    <2>2. TypeInv'
      BY <2>1 DEF TenancyInv, TypeInv, RowsOK, ConfigOK, Tenancy!rowVars, Tenancy!configVars
    <2>3. TenancyLocalsInv'
      BY <2>1 DEF TenancyInv, TenancyLocalsInv, LocalOK, Tenancy!Exists, Tenancy!rowVars
    <2>4. RootInv' /\ ConfigInv'
      BY <2>1 DEF TenancyInv, RootInv, Tenancy!MembersAreRooted, Tenancy!Closed, Tenancy!Exists,
         ConfigInv, Tenancy!Configures,
                  Tenancy!rowVars, Tenancy!configVars
    <2> QED BY <2>2, <2>3, <2>4 DEF TenancyInv
  <1> QED
    BY <1>1, <1>2, CreationReads, UserReads, RootRows, TenantRows, MemberRows, ConfigReads,
       ConfigWrites DEF Tenancy!Next

-----------------------------------------------------------------------------
(* StripeAdapter: invariant.                                               *)

Fields == {"pc", "event", "invoice", "found", "user", "payload"}

\* Of event e as payload p, if p is to be ingested: its type, its user, and
\* what it compensates.
Tied(e, p) ==
    /\ p.type = Stripe!TypeOf(Content[e]) /\ Stripe!TypeOf(Content[e]) # "none" /\ p.user # None
    /\ Content[e].kind \in Stripe!Compensating /\ Content[e].link = None =>
          /\ p.link \in Stripe!Antecedents(e) \cap DOMAIN stored
          /\ Content[e].user = None => p.user = stored[p.link].user

\* The antecedents of an event that was not early are stored: what could be
\* known of it is known.
Known(e) == e \notin early => Stripe!Antecedents(e) \subseteq DOMAIN stored
Unnamed(e) == e \notin early /\ Stripe!TypeOf(Content[e]) # "none" => ~Stripe!Named(e)

\* What a request s knows at each label.
SlotOK(s) ==
    /\ DOMAIN s = Fields
    /\ s.pc # "idle" => s.event \in StripeEvents /\ Known(s.event)
    /\ s.pc \in {"charge", "invoice", "user"} => Content[s.event].kind \in Stripe!OnCharge
    /\ s.pc = "opened" => Content[s.event].kind = "closed"
    /\ s.pc \in {"invoice", "user"} => s.invoice = Content[s.event].invoice
    /\ s.pc = "user" => s.found = None /\ Unnamed(s.event)
    /\ s.pc = "ingest" /\ s.payload = Stripe!Ignored => Unnamed(s.event)
    /\ s.pc = "ingest" /\ s.payload # Stripe!Ignored => Tied(s.event, s.payload)
    /\ s.pc = "tell" => s.event \in DOMAIN stored \/ Stripe!TypeOf(Content[s.event]) = "none"

HooksInv == hook = [h \in Hooks |-> hook[h]] /\ \A h \in Hooks : SlotOK(hook[h])
StoredInv == \A e \in DOMAIN stored : e \in StripeEvents /\ Tied(e, stored[e])
StripeInv == HooksInv /\ StoredInv /\ Stripe!AnsweredIsDone

\* Rows are added and stay as they are.
StripeGrows ==
    /\ DOMAIN stored \subseteq DOMAIN stored' /\ early \subseteq early'
    /\ \A e \in DOMAIN stored : stored'[e] = stored[e]

-----------------------------------------------------------------------------
(* StripeAdapter: operators.                                               *)

\* When normalisation gives nothing, and what it gives otherwise.
LEMMA PayloadFacts ==
    ASSUME NEW object, NEW user, NEW link
    PROVE  /\ Stripe!Payload(object, user, link) = Stripe!Ignored <=>
                \/ Stripe!TypeOf(object) = "none" \/ user = None
                \/ object.kind \in Stripe!Compensating /\ link = None
           /\ Stripe!Payload(object, user, link) # Stripe!Ignored =>
                /\ Stripe!Payload(object, user, link).type = Stripe!TypeOf(object)
                /\ Stripe!Payload(object, user, link).user = user
                /\ Stripe!Payload(object, user, link).link = link
  <1>1. CASE \/ Stripe!TypeOf(object) = "none" \/ user = None
             \/ object.kind \in Stripe!Compensating /\ link = None
    BY <1>1 DEF Stripe!Payload
  <1>2. CASE ~(\/ Stripe!TypeOf(object) = "none" \/ user = None
               \/ object.kind \in Stripe!Compensating /\ link = None)
    <2> DEFINE p == [type |-> Stripe!TypeOf(object), user |-> user, link |-> link]
    <2>1. Stripe!Payload(object, user, link) = p
      BY <1>2 DEF Stripe!Payload
    <2>2. p.type = Stripe!TypeOf(object) /\ p.user = user /\ p.link = link
      OBVIOUS
    <2>3. p # Stripe!Ignored
      <3>1. Stripe!Ignored.type = "none"
        BY DEF Stripe!Ignored
      <3> QED BY <1>2, <2>2, <3>1
    <2> QED BY <1>2, <2>1, <2>2, <2>3
  <1> QED BY <1>1, <1>2

\* Which types the kinds become.
LEMMA TypeFacts ==
    ASSUME NEW object
    PROVE  /\ Stripe!TypeOf(object) = "invoice_paid" => object.kind = "paid"
           /\ object.kind = "paid" => Stripe!TypeOf(object) = "invoice_paid"
           /\ Stripe!TypeOf(object) = "chargeback_opened" => object.kind = "disputed"
           /\ object.kind = "disputed" => Stripe!TypeOf(object) = "chargeback_opened"
           /\ object.kind \in Stripe!OnCharge => Stripe!TypeOf(object) # "none"
           /\ object.kind = "completed" => Stripe!TypeOf(object) # "none"
           /\ object.kind = "expired" => Stripe!TypeOf(object) = "none"
  BY DEF Stripe!TypeOf, Stripe!OnCharge

\* Which events tell the wallet something.
LEMMA LifecycleFacts ==
    ASSUME NEW object
    PROVE  /\ Stripe!Lifecycle(object) \in {"none", "mark_posted", "release"}
           /\ Stripe!Lifecycle(object) = "mark_posted" =>
                object.kind = "completed" /\ object.redemption # None
           /\ Stripe!Lifecycle(object) = "release" => object.kind = "expired"
  BY DEF Stripe!Lifecycle

LEMMA IdleSlot == SlotOK(Stripe!Idle) /\ Stripe!Idle.pc = "idle"
  BY DEF Stripe!Idle, SlotOK, Fields

-----------------------------------------------------------------------------
(* StripeAdapter: steps.                                                   *)

\* What a request knows, and what a row says, stays so while rows are added.
LEMMA TiedStays ==
    ASSUME NEW e, NEW p, Tied(e, p), StripeGrows PROVE Tied(e, p)'
  BY DEF Tied, StripeGrows

LEMMA SlotStays ==
    ASSUME NEW s, SlotOK(s), StripeGrows PROVE SlotOK(s)'
  <1>1. (s.pc # "idle" => s.event \in StripeEvents /\ Known(s.event))'
    BY DEF SlotOK, Known, StripeGrows
  <1>2. Unnamed(s.event) => Unnamed(s.event)'
    BY DEF Unnamed, StripeGrows
  <1>3. (s.pc = "ingest" /\ s.payload # Stripe!Ignored => Tied(s.event, s.payload))'
    BY TiedStays DEF SlotOK
  <1>4. (s.pc = "tell" => s.event \in DOMAIN stored \/ Stripe!TypeOf(Content[s.event]) = "none")'
    BY DEF SlotOK, StripeGrows
  <1> QED BY <1>1, <1>2, <1>3, <1>4 DEF SlotOK

LEMMA HooksStay ==
    ASSUME HooksInv, NEW h \in Hooks, NEW s, hook' = [hook EXCEPT ![h] = s], StripeGrows,
           SlotOK(s)'
    PROVE  HooksInv'
  <1>1. hook' = [g \in Hooks |-> IF g = h THEN s ELSE hook[g]]
    BY DEF HooksInv
  <1>2. ASSUME NEW g \in Hooks PROVE SlotOK(hook[g])'
    <2>1. CASE g = h
      <3>1. hook'[g] = s
        BY <1>1, <2>1
      <3> QED BY <3>1 DEF SlotOK, Known, Unnamed, Tied
    <2>2. CASE g # h
      <3>t. PICK t : t = hook[g]
        OBVIOUS
      <3>1. SlotOK(t)
        BY <3>t DEF HooksInv
      <3>2. SlotOK(t)'
        BY <3>1, SlotStays
      <3>3. hook'[g] = t
        BY <3>t, <1>1, <2>2
      <3> QED BY <3>2, <3>3 DEF SlotOK, Known, Unnamed, Tied
    <2> QED BY <2>1, <2>2
  <1> QED BY <1>1, <1>2 DEF HooksInv

\* A step that changes one request's locals and writes no row.
LEMMA StripeLocalStep ==
    ASSUME StripeInv, NEW h \in Hooks, NEW s, hook' = [hook EXCEPT ![h] = s],
           stored' = stored, told' = told, answered' = answered, early \subseteq early',
           SlotOK(s)'
    PROVE  StripeInv'
  <1>1. StripeGrows
    BY DEF StripeGrows
  <1>2. HooksInv'
    BY <1>1, HooksStay DEF StripeInv
  <1>3. StoredInv'
    <2>1. ASSUME NEW e \in DOMAIN stored' PROVE e \in StripeEvents /\ Tied(e, stored[e])'
      BY <2>1 DEF StripeInv, StoredInv, Tied
    <2> QED BY <2>1 DEF StoredInv
  <1>4. Stripe!AnsweredIsDone'
    BY DEF StripeInv, Stripe!AnsweredIsDone
  <1> QED BY <1>2, <1>3, <1>4 DEF StripeInv

LEMMA StripeSlotFacts ==
    ASSUME StripeInv, NEW h \in Hooks
    PROVE  SlotOK(hook[h]) /\ hook = [g \in Hooks |-> hook[g]]
  BY DEF StripeInv, HooksInv

LEMMA ReceiveStep ==
    ASSUME StripeInv, NEW h \in Hooks, NEW e \in StripeEvents, Stripe!Receive(h, e)
    PROVE  StripeInv'
  <1>c. PICK pc : pc = CASE Content[e].kind \in Stripe!OnCharge -> "charge"
                       [] Content[e].kind = "closed" -> "opened"
                       [] OTHER -> "ingest"
    OBVIOUS
  <1>p. PICK p : p = Stripe!Payload(Content[e], Content[e].user, Content[e].link)
    OBVIOUS
  <1>1. PICK s : s = [hook[h] EXCEPT !.event = e, !.pc = pc, !.payload = p]
    OBVIOUS
  <1>2. hook' = [hook EXCEPT ![h] = s]
    <2>1. hook' = [hook EXCEPT ![h].event = e, ![h].pc = pc, ![h].payload = p]
      BY <1>c, <1>p DEF Stripe!Receive, Stripe!FromMetadata
    <2> QED BY <2>1, <1>1
  <1>3. DOMAIN s = Fields /\ s.event = e /\ s.payload = p /\ s.pc = pc
    BY <1>1, StripeSlotFacts DEF SlotOK, Fields
  <1>4. /\ Content[e].kind \in Stripe!OnCharge => s.pc = "charge"
        /\ Content[e].kind = "closed" => s.pc = "opened"
        /\ Content[e].kind \notin Stripe!Compensating => s.pc = "ingest"
    BY <1>c, <1>3 DEF Stripe!OnCharge, Stripe!Compensating
  <1>5. early \subseteq early' /\ Known(e)'
    BY DEF Stripe!Receive, Known
  <1>6. CASE Content[e].kind \in Stripe!Compensating
    <2>1. SlotOK(s)'
      BY <1>3, <1>4, <1>5, <1>6 DEF SlotOK, Stripe!OnCharge, Stripe!Compensating
    <2> QED BY <2>1, <1>2, <1>5, StripeLocalStep DEF Stripe!Receive
  <1>7. CASE Content[e].kind \notin Stripe!Compensating
    <2>1. Stripe!Antecedents(e) = {}
      BY <1>7 DEF Stripe!Antecedents, Stripe!Compensating, Stripe!OnCharge
    <2>2. s.payload = Stripe!Ignored => Unnamed(e)'
      <3> DEFINE c == Content[e]
      <3>1. Stripe!Payload(c, c.user, c.link) = Stripe!Ignored <=>
                \/ Stripe!TypeOf(c) = "none" \/ c.user = None
                \/ c.kind \in Stripe!Compensating /\ c.link = None
        BY PayloadFacts
      <3>2. p = Stripe!Ignored => Stripe!TypeOf(c) = "none" \/ c.user = None
        BY <3>1, <1>p, <1>7
      <3> QED BY <1>3, <2>1, <3>2 DEF Unnamed, Stripe!Named
    <2>3. s.payload # Stripe!Ignored => Tied(e, s.payload)'
      <3>1. p # Stripe!Ignored => /\ p.type = Stripe!TypeOf(Content[e]) /\ Stripe!TypeOf(Content[e]) # "none"
                           /\ p.user # None
        BY <1>p, PayloadFacts
      <3> QED BY <1>3, <3>1, <1>7 DEF Tied
    <2>4. SlotOK(s)'
      BY <1>3, <1>4, <1>5, <1>7, <2>2, <2>3 DEF SlotOK
    <2> QED BY <2>4, <1>2, <1>5, StripeLocalStep DEF Stripe!Receive
  <1> QED BY <1>6, <1>7

LEMMA FetchChargeStep ==
    ASSUME StripeInv, NEW h \in Hooks, Stripe!FetchCharge(h) PROVE StripeInv'
  <1>1. PICK s : s = [hook[h] EXCEPT !.pc = "invoice", !.invoice = Stripe!Object(h).invoice]
    OBVIOUS
  <1>2. hook' = [hook EXCEPT ![h] = s]
    BY <1>1 DEF Stripe!FetchCharge
  <1>3. DOMAIN s = Fields /\ s.pc = "invoice" /\ s.event = hook[h].event
        /\ s.invoice = Content[s.event].invoice
    BY <1>1, StripeSlotFacts DEF SlotOK, Fields, Stripe!Object
  <1>4. SlotOK(s)
    BY <1>3, StripeSlotFacts DEF SlotOK, Stripe!FetchCharge, Stripe!At
  <1>5. StripeGrows
    BY DEF StripeGrows, Stripe!FetchCharge
  <1>6. SlotOK(s)'
    BY <1>4, <1>5, SlotStays
  <1> QED BY <1>2, <1>6, StripeLocalStep DEF Stripe!FetchCharge

\* What a refund or dispute e becomes, from a user and a link that are its own
\* or those of an antecedent f.
LEMMA ResolvedFacts ==
    ASSUME StripeInv, NEW e \in StripeEvents, Known(e), Content[e].kind \in Stripe!Compensating,
           NEW f, f = None \/ f \in Stripe!Antecedents(e) \cap DOMAIN stored, NEW user, NEW link,
           Content[e].link = None => link = f,
           Content[e].user = None /\ f # None => user = stored[f].user,
           NEW p, p = Stripe!Resolved(Content[e], user, link)
    PROVE  p # Stripe!Ignored => Tied(e, p)
  <1> SUFFICES ASSUME p # Stripe!Ignored PROVE Tied(e, p)
    OBVIOUS
  <1>1. CASE user = None \/ link = None
    <2>1. p = Stripe!Payload(Content[e], Content[e].user, Content[e].link)
      BY <1>1 DEF Stripe!Resolved, Stripe!FromMetadata
    <2>2. p.type = Stripe!TypeOf(Content[e]) /\ Stripe!TypeOf(Content[e]) # "none"
          /\ p.user = Content[e].user /\ p.user # None /\ Content[e].link # None
      BY <2>1, PayloadFacts
    <2> QED BY <2>2 DEF Tied
  <1>2. CASE user # None /\ link # None
    <2>1. p = Stripe!Payload(Content[e], user, link)
      BY <1>2 DEF Stripe!Resolved
    <2>2. p.type = Stripe!TypeOf(Content[e]) /\ Stripe!TypeOf(Content[e]) # "none"
          /\ p.user = user /\ p.user # None /\ p.link = link
      BY <2>1, PayloadFacts
    <2>3. Content[e].link = None => f # None /\ p.link = f
      BY <2>2, <1>2
    <2> QED BY <2>2, <2>3 DEF Tied
  <1> QED BY <1>1, <1>2

\* It becomes something, if it is not early and can be told whom it is about.
LEMMA ResolvedIgnored ==
    ASSUME NEW e \in StripeEvents, Known(e), Content[e].kind \in Stripe!Compensating,
           NEW f, f = None => Stripe!Antecedents(e) \cap DOMAIN stored = {},
           NEW user, NEW link, f # None => user # None /\ link # None,
           NEW p, p = Stripe!Resolved(Content[e], user, link)
    PROVE  p = Stripe!Ignored => Unnamed(e)
  <1> SUFFICES ASSUME e \notin early, Stripe!TypeOf(Content[e]) # "none", Stripe!Named(e)
               PROVE  p # Stripe!Ignored
    BY DEF Unnamed
  <1>1. CASE user # None /\ link # None
    <2>1. p = Stripe!Payload(Content[e], user, link)
      BY <1>1 DEF Stripe!Resolved
    <2>2. Stripe!Payload(Content[e], user, link) # Stripe!Ignored
      BY <1>1, PayloadFacts
    <2> QED BY <2>1, <2>2
  <1>2. CASE user = None \/ link = None
    <2>1. p = Stripe!Payload(Content[e], Content[e].user, Content[e].link)
      BY <1>2 DEF Stripe!Resolved, Stripe!FromMetadata
    <2>2. Stripe!Antecedents(e) = {}
      BY <1>2 DEF Known
    <2>3. Content[e].user # None /\ Content[e].link # None
      BY <2>2 DEF Stripe!Named
    <2>4. Stripe!Payload(Content[e], Content[e].user, Content[e].link) # Stripe!Ignored
      BY <2>3, PayloadFacts
    <2> QED BY <2>1, <2>4
  <1> QED BY <1>1, <1>2

LEMMA ToIngest ==
    ASSUME StripeInv, NEW h \in Hooks, NEW p, ~Stripe!At(h, "idle"),
           hook' = [hook EXCEPT ![h].pc = "ingest", ![h].payload = p],
           UNCHANGED <<stored, told, answered, early>>,
           p # Stripe!Ignored => Tied(hook[h].event, p), p = Stripe!Ignored => Unnamed(hook[h].event)
    PROVE  StripeInv'
  <1>1. PICK s : s = [hook[h] EXCEPT !.pc = "ingest", !.payload = p]
    OBVIOUS
  <1>2. hook' = [hook EXCEPT ![h] = s]
    BY <1>1
  <1>3. DOMAIN s = Fields /\ s.pc = "ingest" /\ s.payload = p /\ s.event = hook[h].event
    BY <1>1, StripeSlotFacts DEF SlotOK, Fields
  <1>4. SlotOK(s)
    BY <1>3, StripeSlotFacts DEF SlotOK, Stripe!At
  <1>5. StripeGrows
    BY DEF StripeGrows
  <1>6. SlotOK(s)'
    BY <1>4, <1>5, SlotStays
  <1> QED BY <1>2, <1>6, StripeLocalStep

LEMMA FindInvoicePaidStep ==
    ASSUME StripeInv, None \notin StripeEvents, NEW h \in Hooks, Stripe!FindInvoicePaid(h)
    PROVE  StripeInv'
  <1>e. PICK e : e = hook[h].event
    OBVIOUS
  <1>0. /\ Stripe!At(h, "invoice") /\ e \in StripeEvents /\ Known(e)
        /\ Content[e].kind \in Stripe!OnCharge /\ hook[h].invoice = Content[e].invoice
        /\ Stripe!Object(h) = Content[e]
    BY <1>e, StripeSlotFacts DEF Stripe!FindInvoicePaid, Stripe!At, SlotOK, Stripe!Object
  <1> DEFINE Found(f) ==
               LET user == Stripe!Or(Stripe!Object(h).user, Stripe!UserOf(f))
                   link == Stripe!Or(Stripe!Object(h).link, f)
               IN  IF user = None /\ hook[h].invoice # None
                   THEN hook' = [hook EXCEPT ![h].pc = "user", ![h].found = f]
                   ELSE hook' = [hook EXCEPT ![h].pc = "ingest",
                                     ![h].payload = Stripe!Resolved(Stripe!Object(h), user, link)]
             paid == Stripe!PaidEvents(hook[h].invoice)
  <1>f. PICK f : (f \in paid \/ (f = None /\ paid = {})) /\ Found(f)
    <2> HIDE DEF Found, paid
    <2>1. IF paid = {} THEN Found(None) ELSE \E f \in paid : Found(f)
      BY DEF Stripe!FindInvoicePaid, Found, paid
    <2> QED BY <2>1
  <1>1. Stripe!PaidEvents(hook[h].invoice) = Stripe!Antecedents(e) \cap DOMAIN stored
    <2>1. ASSUME NEW x
          PROVE  x \in Stripe!PaidEvents(hook[h].invoice) <=> x \in Stripe!Antecedents(e) \cap DOMAIN stored
      <3>1. x \in DOMAIN stored =>
              x \in StripeEvents /\ (stored[x].type = "invoice_paid" <=> Content[x].kind = "paid")
        BY TypeFacts DEF StripeInv, StoredInv, Tied
      <3> QED BY <1>0, <3>1 DEF Stripe!PaidEvents, Stripe!Antecedents, Stripe!OnCharge
    <2> QED BY <2>1
  <1>2. /\ f = None => Stripe!Antecedents(e) \cap DOMAIN stored = {}
        /\ f # None => f \in Stripe!Antecedents(e) \cap DOMAIN stored
    <2>1. None \notin Stripe!Antecedents(e)
      BY DEF Stripe!Antecedents
    <2> QED BY <1>f, <1>1, <2>1
  <1>3. f # None => Stripe!UserOf(f) = stored[f].user /\ Stripe!UserOf(f) # None
    BY <1>2 DEF Stripe!UserOf, StripeInv, StoredInv, Tied
  <1>g. PICK user : user = Stripe!Or(Content[e].user, Stripe!UserOf(f))
    OBVIOUS
  <1>l. PICK link : link = Stripe!Or(Content[e].link, f)
    OBVIOUS
  <1>4. /\ Content[e].user = None /\ f # None => user = stored[f].user
        /\ Content[e].user # None => user # None
        /\ Content[e].link = None => link = f
        /\ f # None => user # None /\ link # None
    BY <1>3, <1>g, <1>l DEF Stripe!Or
  <1>5. early \subseteq early' /\ stored' = stored /\ told' = told /\ answered' = answered
        /\ StripeGrows
    BY DEF Stripe!FindInvoicePaid, StripeGrows
  <1>6. CASE user = None /\ hook[h].invoice # None
    <2>1. PICK s : s = [hook[h] EXCEPT !.pc = "user", !.found = f]
      OBVIOUS
    <2>2. hook' = [hook EXCEPT ![h] = s]
      BY <1>0, <1>f, <1>g, <1>6, <2>1
    <2>3. DOMAIN s = Fields /\ s.pc = "user" /\ s.found = f /\ s.event = e
          /\ s.invoice = hook[h].invoice
      BY <2>1, <1>e, StripeSlotFacts DEF SlotOK, Fields
    <2>4. f = None /\ Content[e].user = None
      BY <1>4, <1>6
    <2>5. Unnamed(e)
      BY <1>0, <1>2, <2>4 DEF Unnamed, Known, Stripe!Named
    <2>6. SlotOK(s)
      BY <1>0, <2>3, <2>4, <2>5 DEF SlotOK
    <2>7. SlotOK(s)'
      BY <1>5, <2>6, SlotStays
    <2> QED BY <1>5, <2>2, <2>7, StripeLocalStep
  <1>7. CASE ~(user = None /\ hook[h].invoice # None)
    <2>p. PICK p : p = Stripe!Resolved(Content[e], user, link)
      OBVIOUS
    <2>1. hook' = [hook EXCEPT ![h].pc = "ingest", ![h].payload = p]
      BY <1>0, <1>f, <1>g, <1>l, <1>7, <2>p
    <2>2. Content[e].kind \in Stripe!Compensating
      BY <1>0 DEF Stripe!Compensating
    <2>3. p # Stripe!Ignored => Tied(e, p)
      BY <1>0, <1>2, <1>4, <2>p, <2>2, ResolvedFacts
    <2>4. p = Stripe!Ignored => Unnamed(e)
      BY <1>0, <1>2, <1>4, <2>p, <2>2, ResolvedIgnored
    <2>5. early' = early /\ ~Stripe!At(h, "idle")
      BY <1>0 DEF Stripe!FindInvoicePaid, Stripe!At
    <2> QED BY <1>e, <1>5, <2>1, <2>3, <2>4, <2>5, ToIngest
  <1> QED BY <1>6, <1>7

LEMMA FetchInvoiceStep ==
    ASSUME StripeInv, NEW h \in Hooks, Stripe!FetchInvoice(h) PROVE StripeInv'
  <1>e. PICK e : e = hook[h].event
    OBVIOUS
  <1>0. /\ Stripe!At(h, "user") /\ e \in StripeEvents /\ Known(e) /\ Unnamed(e)
        /\ Content[e].kind \in Stripe!OnCharge /\ hook[h].found = None
        /\ Stripe!Object(h) = Content[e]
    BY <1>e, StripeSlotFacts DEF Stripe!FetchInvoice, Stripe!At, SlotOK, Stripe!Object
  <1>g. PICK user : user = InvoiceUser[hook[h].invoice]
    OBVIOUS
  <1>l. PICK link : link = Stripe!Or(Content[e].link, None)
    OBVIOUS
  <1>p. PICK p : p = Stripe!Resolved(Content[e], user, link)
    OBVIOUS
  <1>1. hook' = [hook EXCEPT ![h].pc = "ingest", ![h].payload = p]
    BY <1>0, <1>g, <1>l, <1>p DEF Stripe!FetchInvoice
  <1>2. Content[e].link = None => link = None
    BY <1>l DEF Stripe!Or
  <1>3. Content[e].kind \in Stripe!Compensating
    BY <1>0 DEF Stripe!Compensating
  <1>4. p # Stripe!Ignored => Tied(e, p)
    BY <1>0, <1>2, <1>3, <1>p, ResolvedFacts
  <1>5. ~Stripe!At(h, "idle") /\ UNCHANGED <<stored, told, answered, early>>
    BY <1>0 DEF Stripe!At, Stripe!FetchInvoice
  <1> QED BY <1>0, <1>1, <1>4, <1>5, <1>e, ToIngest

LEMMA FindOpenedStep ==
    ASSUME StripeInv, None \notin StripeEvents, NEW h \in Hooks, Stripe!FindOpened(h)
    PROVE  StripeInv'
  <1>e. PICK e : e = hook[h].event
    OBVIOUS
  <1>0. /\ Stripe!At(h, "opened") /\ e \in StripeEvents /\ Known(e)
        /\ Content[e].kind = "closed" /\ Stripe!Object(h) = Content[e]
    BY <1>e, StripeSlotFacts DEF Stripe!FindOpened, Stripe!At, SlotOK, Stripe!Object
  <1> DEFINE opened == {x \in DOMAIN stored : /\ stored[x].type = "chargeback_opened"
                                              /\ Content[x].dispute = Stripe!Object(h).dispute}
  <1>f. PICK f :
          /\ f \in IF opened = {} THEN {None} ELSE opened
          /\ hook' = [hook EXCEPT ![h].pc = "ingest",
                                  ![h].payload = Stripe!Resolved(Stripe!Object(h), Stripe!UserOf(f), f)]
    BY DEF Stripe!FindOpened
  <1>1. opened = Stripe!Antecedents(e) \cap DOMAIN stored
    <2>1. ASSUME NEW x PROVE x \in opened <=> x \in Stripe!Antecedents(e) \cap DOMAIN stored
      <3>1. x \in DOMAIN stored =>
              /\ x \in StripeEvents
              /\ stored[x].type = "chargeback_opened" <=> Content[x].kind = "disputed"
        BY TypeFacts DEF StripeInv, StoredInv, Tied
      <3> QED BY <1>0, <3>1 DEF Stripe!Antecedents, Stripe!OnCharge
    <2> QED BY <2>1
  <1>2. /\ f = None => Stripe!Antecedents(e) \cap DOMAIN stored = {}
        /\ f # None => f \in Stripe!Antecedents(e) \cap DOMAIN stored
    <2>1. None \notin Stripe!Antecedents(e)
      BY DEF Stripe!Antecedents
    <2> QED BY <1>f, <1>1, <2>1
  <1>g. PICK user : user = Stripe!UserOf(f)
    OBVIOUS
  <1>3. f # None => user = stored[f].user /\ user # None
    BY <1>2, <1>g DEF Stripe!UserOf, StripeInv, StoredInv, Tied
  <1>p. PICK p : p = Stripe!Resolved(Content[e], user, f)
    OBVIOUS
  <1>4. hook' = [hook EXCEPT ![h].pc = "ingest", ![h].payload = p]
    BY <1>0, <1>f, <1>g, <1>p
  <1>5. Content[e].kind \in Stripe!Compensating
    BY <1>0 DEF Stripe!Compensating
  <1>6. p # Stripe!Ignored => Tied(e, p)
    BY <1>0, <1>2, <1>3, <1>5, <1>p, ResolvedFacts
  <1>7. p = Stripe!Ignored => Unnamed(e)
    BY <1>0, <1>2, <1>3, <1>5, <1>p, ResolvedIgnored
  <1>8. ~Stripe!At(h, "idle") /\ UNCHANGED <<stored, told, answered, early>>
    BY <1>0 DEF Stripe!At, Stripe!FindOpened
  <1> QED BY <1>4, <1>6, <1>7, <1>8, <1>e, ToIngest

\* The request goes to the wallet next, or it is answered and idle.
LEMMA IngestStep ==
    ASSUME StripeInv, NEW h \in Hooks, Stripe!Ingest(h) PROVE StripeInv'
  <1>e. PICK e : e = hook[h].event
    OBVIOUS
  <1>p. PICK p : p = hook[h].payload
    OBVIOUS
  <1>0. e \in StripeEvents /\ Known(e) /\ Tied(e, p) /\ Stripe!Object(h) = Content[e]
    BY <1>e, <1>p, StripeSlotFacts DEF Stripe!Ingest, Stripe!At, SlotOK, Stripe!Object
  <1>1. /\ DOMAIN stored' = DOMAIN stored \cup {e}
        /\ \A x \in DOMAIN stored : stored'[x] = stored[x]
        /\ e \notin DOMAIN stored => stored'[e] = p
        /\ told' = told /\ early' = early
    BY <1>e, <1>p DEF Stripe!Ingest, Stripe!Store
  <1>2. StripeGrows
    BY <1>1 DEF StripeGrows
  <1>3. StoredInv'
    <2>1. ASSUME NEW x \in DOMAIN stored' PROVE x \in StripeEvents /\ Tied(x, stored[x])'
      <3>1. CASE x \in DOMAIN stored
        <4>t. PICK t : t = stored[x]
          OBVIOUS
        <4>1. x \in StripeEvents /\ Tied(x, t)
          BY <3>1, <4>t DEF StripeInv, StoredInv
        <4>2. Tied(x, t)' /\ stored'[x] = t
          BY <4>1, <4>t, <3>1, <1>1, <1>2, TiedStays
        <4> QED BY <4>1, <4>2 DEF Tied
      <3>2. CASE x \notin DOMAIN stored
        <4>1. x = e /\ stored'[x] = p
          BY <2>1, <3>2, <1>1
        <4>2. Tied(e, p)'
          BY <1>0, <1>2, TiedStays
        <4> QED BY <1>0, <4>1, <4>2 DEF Tied
      <3> QED BY <3>1, <3>2
    <2> QED BY <2>1 DEF StoredInv
  <1>4. CASE Stripe!Lifecycle(Stripe!Object(h)) = "mark_posted"
    <2>1. PICK s : s = [hook[h] EXCEPT !.pc = "tell"]
      OBVIOUS
    <2>2. hook' = [hook EXCEPT ![h] = s] /\ answered' = answered
      BY <1>4, <2>1 DEF Stripe!Ingest
    <2>3. DOMAIN s = Fields /\ s.pc = "tell" /\ s.event = e
      BY <2>1, <1>e, StripeSlotFacts DEF SlotOK, Fields
    <2>4. SlotOK(s)'
      BY <1>0, <1>1, <2>3 DEF SlotOK, Known
    <2>5. HooksInv'
      BY <1>2, <2>2, <2>4, HooksStay DEF StripeInv
    <2>6. Stripe!AnsweredIsDone'
      BY <1>1, <2>2 DEF StripeInv, Stripe!AnsweredIsDone
    <2> QED BY <1>3, <2>5, <2>6 DEF StripeInv
  <1>5. CASE Stripe!Lifecycle(Stripe!Object(h)) # "mark_posted"
    <2>1. hook' = [hook EXCEPT ![h] = Stripe!Idle] /\ answered' = answered \cup {e}
      BY <1>5, <1>e DEF Stripe!Ingest, Stripe!Answer
    <2>2. SlotOK(Stripe!Idle)'
      BY IdleSlot, <1>2, SlotStays
    <2>3. HooksInv'
      BY <1>2, <2>1, <2>2, HooksStay DEF StripeInv
    <2>4. Stripe!Lifecycle(Content[e]) = "none"
      BY <1>0, <1>5, LifecycleFacts, TypeFacts DEF Tied
    <2>5. Stripe!AnsweredIsDone'
      BY <1>1, <2>1, <2>4 DEF StripeInv, Stripe!AnsweredIsDone
    <2> QED BY <1>3, <2>3, <2>5 DEF StripeInv
  <1> QED BY <1>4, <1>5

LEMMA IgnoreStep ==
    ASSUME StripeInv, SessionsNameUsers, NEW h \in Hooks, Stripe!Ignore(h) PROVE StripeInv'
  <1>e. PICK e : e = hook[h].event
    OBVIOUS
  <1>0. e \in StripeEvents /\ Known(e) /\ Unnamed(e) /\ Stripe!Object(h) = Content[e]
    BY <1>e, StripeSlotFacts DEF Stripe!Ignore, Stripe!At, SlotOK, Stripe!Object
  <1>1. stored' = stored /\ told' = told /\ early' = early /\ StripeGrows
    BY DEF Stripe!Ignore, StripeGrows
  <1>2. StoredInv'
    BY <1>1 DEF StripeInv, StoredInv, Tied
  <1>3. CASE Stripe!Lifecycle(Stripe!Object(h)) = "release"
    <2>1. PICK s : s = [hook[h] EXCEPT !.pc = "tell"]
      OBVIOUS
    <2>2. hook' = [hook EXCEPT ![h] = s] /\ answered' = answered
      BY <1>3, <2>1 DEF Stripe!Ignore
    <2>3. DOMAIN s = Fields /\ s.pc = "tell" /\ s.event = e
      BY <2>1, <1>e, StripeSlotFacts DEF SlotOK, Fields
    <2>4. Stripe!TypeOf(Content[e]) = "none"
      BY <1>0, <1>3, LifecycleFacts, TypeFacts
    <2>5. SlotOK(s)'
      BY <1>0, <1>1, <2>3, <2>4 DEF SlotOK, Known
    <2>6. HooksInv'
      BY <1>1, <2>2, <2>5, HooksStay DEF StripeInv
    <2>7. Stripe!AnsweredIsDone'
      BY <1>1, <2>2 DEF StripeInv, Stripe!AnsweredIsDone
    <2> QED BY <1>2, <2>6, <2>7 DEF StripeInv
  <1>4. CASE Stripe!Lifecycle(Stripe!Object(h)) # "release"
    <2>1. hook' = [hook EXCEPT ![h] = Stripe!Idle] /\ answered' = answered \cup {e}
      BY <1>4, <1>e DEF Stripe!Ignore, Stripe!Answer
    <2>2. SlotOK(Stripe!Idle)'
      BY IdleSlot, <1>1, SlotStays
    <2>3. HooksInv'
      BY <1>1, <2>1, <2>2, HooksStay DEF StripeInv
    <2>4. e \notin early => Stripe!Lifecycle(Content[e]) = "none"
      <3>1. SUFFICES ASSUME e \notin early, Stripe!Lifecycle(Content[e]) = "mark_posted" PROVE FALSE
        BY <1>0, <1>4, LifecycleFacts
      <3>2. Content[e].kind = "completed" /\ Content[e].user # None
        BY <1>0, <3>1, LifecycleFacts DEF SessionsNameUsers
      <3>3. Stripe!TypeOf(Content[e]) # "none" /\ Stripe!Named(e)
        BY <3>2, TypeFacts DEF Stripe!Named, Stripe!Compensating, Stripe!OnCharge
      <3> QED BY <1>0, <3>1, <3>3 DEF Unnamed
    <2>5. Stripe!AnsweredIsDone'
      BY <1>0, <1>1, <2>1, <2>4 DEF StripeInv, Stripe!AnsweredIsDone, Unnamed
    <2> QED BY <1>2, <2>3, <2>5 DEF StripeInv
  <1> QED BY <1>3, <1>4

LEMMA TellWalletStep ==
    ASSUME StripeInv, NEW h \in Hooks, Stripe!TellWallet(h) PROVE StripeInv'
  <1>e. PICK e : e = hook[h].event
    OBVIOUS
  <1>0. e \in DOMAIN stored \/ Stripe!TypeOf(Content[e]) = "none"
    BY <1>e, StripeSlotFacts DEF Stripe!TellWallet, Stripe!At, SlotOK
  <1>1. /\ hook' = [hook EXCEPT ![h] = Stripe!Idle] /\ answered' = answered \cup {e}
        /\ told' = told \cup {<<Content[e].redemption, Stripe!Lifecycle(Content[e])>>}
        /\ stored' = stored /\ early' = early
    BY <1>e DEF Stripe!TellWallet, Stripe!Answer, Stripe!Object
  <1>2. StripeGrows
    BY <1>1 DEF StripeGrows
  <1>3. SlotOK(Stripe!Idle)'
    BY IdleSlot, <1>2, SlotStays
  <1>4. HooksInv'
    BY <1>1, <1>2, <1>3, HooksStay DEF StripeInv
  <1>5. StoredInv'
    BY <1>1 DEF StripeInv, StoredInv, Tied
  <1>6. Stripe!AnsweredIsDone'
    BY <1>0, <1>1 DEF StripeInv, Stripe!AnsweredIsDone
  <1> QED BY <1>4, <1>5, <1>6 DEF StripeInv

LEMMA FailStep ==
    ASSUME StripeInv, NEW h \in Hooks, Stripe!Fail(h) PROVE StripeInv'
  <1>1. StripeGrows
    BY DEF Stripe!Fail, StripeGrows
  <1>2. SlotOK(Stripe!Idle)'
    BY IdleSlot, <1>1, SlotStays
  <1> QED BY <1>2, StripeLocalStep DEF Stripe!Fail, Stripe!Idle

LEMMA Stuttering ==
    ASSUME StripeInv, UNCHANGED Stripe!vars PROVE StripeInv'
  <1>1. HooksInv'
    BY DEF Stripe!vars, StripeInv, HooksInv, SlotOK, Known, Unnamed, Tied
  <1>2. StoredInv'
    BY DEF Stripe!vars, StripeInv, StoredInv, Tied
  <1>3. Stripe!AnsweredIsDone'
    BY DEF Stripe!vars, StripeInv, Stripe!AnsweredIsDone
  <1> QED BY <1>1, <1>2, <1>3 DEF StripeInv

LEMMA StripeInitially == Stripe!Init => StripeInv
  <1> SUFFICES ASSUME Stripe!Init PROVE StripeInv
    OBVIOUS
  <1>1. HooksInv
    BY IdleSlot DEF Stripe!Init, HooksInv
  <1>2. StoredInv /\ Stripe!AnsweredIsDone
    BY DEF Stripe!Init, StoredInv, Stripe!AnsweredIsDone
  <1> QED BY <1>1, <1>2 DEF StripeInv

LEMMA StripeInductive ==
    ASSUME None \notin StripeEvents, SessionsNameUsers, StripeInv, [Stripe!Next]_Stripe!vars
    PROVE  StripeInv'
  <1>1. CASE UNCHANGED Stripe!vars
    BY <1>1, Stuttering
  <1>2. ASSUME NEW h \in Hooks, NEW e \in StripeEvents, Stripe!Receive(h, e) PROVE StripeInv'
    BY <1>2, ReceiveStep
  <1>3. ASSUME NEW h \in Hooks, Stripe!FetchCharge(h) PROVE StripeInv'
    BY <1>3, FetchChargeStep
  <1>4. ASSUME NEW h \in Hooks, Stripe!FindInvoicePaid(h) PROVE StripeInv'
    BY <1>4, FindInvoicePaidStep
  <1>5. ASSUME NEW h \in Hooks, Stripe!FetchInvoice(h) PROVE StripeInv'
    BY <1>5, FetchInvoiceStep
  <1>6. ASSUME NEW h \in Hooks, Stripe!FindOpened(h) PROVE StripeInv'
    BY <1>6, FindOpenedStep
  <1>7. ASSUME NEW h \in Hooks, Stripe!Ingest(h) PROVE StripeInv'
    BY <1>7, IngestStep
  <1>8. ASSUME NEW h \in Hooks, Stripe!Ignore(h) PROVE StripeInv'
    BY <1>8, IgnoreStep
  <1>9. ASSUME NEW h \in Hooks, Stripe!TellWallet(h) PROVE StripeInv'
    BY <1>9, TellWalletStep
  <1>10. ASSUME NEW h \in Hooks, Stripe!Fail(h) PROVE StripeInv'
    BY <1>10, FailStep
  <1> QED BY <1>1, <1>2, <1>3, <1>4, <1>5, <1>6, <1>7, <1>8, <1>9, <1>10 DEF Stripe!Next

-----------------------------------------------------------------------------
(* StripeAdapter: types.                                                   *)

\* A request about to store a payload holds one that names an event or what the
\* merchant wrote.
HookTyped(s) ==
    /\ s.pc \in {"idle", "charge", "invoice", "user", "opened", "ingest", "tell"}
    /\ s.event \in StripeEvents \cup {None}
    /\ s.pc = "ingest" => s.payload.link \in Stripe!Links

StripeTypesInv ==
    /\ \A h \in Hooks : HookTyped(hook[h])
    /\ \A e \in DOMAIN stored : stored[e].link \in Stripe!Links
    /\ answered \subseteq StripeEvents /\ early \subseteq StripeEvents

\* Rows are of the types that TypeOf gives.
LEMMA StripeTypeParts == ASSUME StripeInv, StripeTypesInv PROVE Stripe!TypeOK
  <1>1. ASSUME NEW e \in DOMAIN stored
        PROVE  /\ e \in StripeEvents /\ stored[e].user # None
               /\ stored[e].type \in Stripe!EventTypes
    <2>1. PICK object : object = Content[e]
      OBVIOUS
    <2>2. /\ e \in StripeEvents /\ stored[e].user # None
          /\ stored[e].type = Stripe!TypeOf(object) /\ Stripe!TypeOf(object) # "none"
      BY <1>1, <2>1 DEF StripeInv, StoredInv, Tied
    <2>3. Stripe!TypeOf(object) # "none" => Stripe!TypeOf(object) \in Stripe!EventTypes
      BY DEF Stripe!TypeOf, Stripe!EventTypes
    <2> QED BY <2>2, <2>3
  <1> QED BY <1>1 DEF StripeTypesInv, HookTyped, Stripe!TypeOK

LEMMA PayloadLinks ==
    ASSUME NEW e \in StripeEvents, NEW user, NEW link \in Stripe!Links
    PROVE  /\ Stripe!FromMetadata(Content[e]).link \in Stripe!Links
           /\ Stripe!Resolved(Content[e], user, link).link \in Stripe!Links
  <1>1. ASSUME NEW object, NEW u, NEW l \in Stripe!Links
        PROVE  Stripe!Payload(object, u, l).link \in Stripe!Links
    <2>1. Stripe!Ignored.link \in Stripe!Links
      BY DEF Stripe!Ignored, Stripe!Links
    <2> QED BY <1>1, <2>1, PayloadFacts
  <1>2. Content[e].link \in Stripe!Links
    BY DEF Stripe!Links
  <1> QED BY <1>1, <1>2 DEF Stripe!FromMetadata, Stripe!Resolved

\* A step of one request that stores and answers nothing.
LEMMA HookTypedStep ==
    ASSUME StripeInv, StripeTypesInv, NEW h \in Hooks, NEW s, hook' = [hook EXCEPT ![h] = s],
           HookTyped(s), UNCHANGED <<stored, answered>>, early' \subseteq StripeEvents
    PROVE  StripeTypesInv'
  <1>1. ASSUME NEW g \in Hooks PROVE HookTyped(hook[g])'
    <2>1. hook'[g] = s \/ hook'[g] = hook[g]
      BY DEF StripeInv, HooksInv
    <2> QED BY <2>1 DEF StripeTypesInv, HookTyped, Stripe!Links
  <1> QED BY <1>1 DEF StripeTypesInv, Stripe!Links

LEMMA ToIngestTyped ==
    ASSUME StripeInv, StripeTypesInv, NEW h \in Hooks, NEW p, p.link \in Stripe!Links,
           hook' = [hook EXCEPT ![h].pc = "ingest", ![h].payload = p],
           UNCHANGED <<stored, told, answered, early>>
    PROVE  StripeTypesInv'
  <1>1. PICK s : s = [hook[h] EXCEPT !.pc = "ingest", !.payload = p]
    OBVIOUS
  <1>2. hook' = [hook EXCEPT ![h] = s]
    BY <1>1
  <1>3. s.pc = "ingest" /\ s.payload = p /\ s.event = hook[h].event
    BY <1>1, StripeSlotFacts DEF SlotOK, Fields
  <1>4. HookTyped(s)
    BY <1>3 DEF HookTyped, StripeTypesInv
  <1> QED BY <1>2, <1>4, HookTypedStep DEF StripeTypesInv

LEMMA IdleTyped == HookTyped(Stripe!Idle)
  BY DEF HookTyped, Stripe!Idle

LEMMA ReceiveTyped ==
    ASSUME StripeInv, StripeTypesInv, NEW h \in Hooks, NEW e \in StripeEvents,
           Stripe!Receive(h, e)
    PROVE  StripeTypesInv'
  <1>1. PICK pc : pc = CASE Content[e].kind \in Stripe!OnCharge -> "charge"
                       [] Content[e].kind = "closed" -> "opened"
                       [] OTHER -> "ingest"
    OBVIOUS
  <1>2. PICK p : p = Stripe!FromMetadata(Content[e])
    OBVIOUS
  <1>3. PICK s : s = [hook[h] EXCEPT !.event = e, !.pc = pc, !.payload = p]
    OBVIOUS
  <1>4. hook' = [hook EXCEPT ![h] = s]
    <2>1. hook' = [hook EXCEPT ![h].event = e, ![h].pc = pc, ![h].payload = p]
      BY <1>1, <1>2 DEF Stripe!Receive
    <2> QED BY <1>3, <2>1
  <1>5. s.event = e /\ s.payload = p /\ s.pc = pc
    BY <1>3, StripeSlotFacts DEF SlotOK, Fields
  <1>6. None \in Stripe!Links
    BY DEF Stripe!Links
  <1>7. p.link \in Stripe!Links
    BY <1>2, <1>6, PayloadLinks
  <1>8. HookTyped(s)
    BY <1>1, <1>5, <1>7 DEF HookTyped
  <1>9. early' \subseteq StripeEvents /\ UNCHANGED <<stored, answered>>
    BY DEF Stripe!Receive, StripeTypesInv
  <1> QED BY <1>4, <1>8, <1>9, HookTypedStep

LEMMA FindInvoicePaidTyped ==
    ASSUME StripeInv, StripeTypesInv, NEW h \in Hooks, Stripe!FindInvoicePaid(h)
    PROVE  StripeTypesInv'
  <1>1. PICK e : e = hook[h].event
    OBVIOUS
  <1>2. e \in StripeEvents /\ Stripe!Object(h) = Content[e]
    BY <1>1, StripeSlotFacts DEF Stripe!FindInvoicePaid, Stripe!At, SlotOK, Stripe!Object
  <1> DEFINE Found(f) ==
               LET user == Stripe!Or(Stripe!Object(h).user, Stripe!UserOf(f))
                   link == Stripe!Or(Stripe!Object(h).link, f)
               IN  IF user = None /\ hook[h].invoice # None
                   THEN hook' = [hook EXCEPT ![h].pc = "user", ![h].found = f]
                   ELSE hook' = [hook EXCEPT ![h].pc = "ingest",
                                     ![h].payload = Stripe!Resolved(Stripe!Object(h), user, link)]
             paid == Stripe!PaidEvents(hook[h].invoice)
  <1>3. PICK f : (f \in paid \/ f = None) /\ Found(f)
    <2> HIDE DEF Found, paid
    <2>1. IF paid = {} THEN Found(None) ELSE \E f \in paid : Found(f)
      BY DEF Stripe!FindInvoicePaid, Found, paid
    <2> QED BY <2>1
  <1>4. f \in Stripe!Links
    BY <1>3 DEF Stripe!PaidEvents, StripeInv, StoredInv, Stripe!Links
  <1>5. PICK user : user = Stripe!Or(Stripe!Object(h).user, Stripe!UserOf(f))
    OBVIOUS
  <1>6. PICK link : link = Stripe!Or(Stripe!Object(h).link, f)
    OBVIOUS
  <1>7. link \in Stripe!Links
    BY <1>2, <1>4, <1>6 DEF Stripe!Or, Stripe!Links
  <1>8. UNCHANGED <<stored, told, answered, early>>
    BY DEF Stripe!FindInvoicePaid
  <1>9. CASE user = None /\ hook[h].invoice # None
    <2>1. PICK s : s = [hook[h] EXCEPT !.pc = "user", !.found = f]
      OBVIOUS
    <2>2. hook' = [hook EXCEPT ![h] = s]
      BY <1>3, <1>5, <1>9, <2>1
    <2>3. s.pc = "user" /\ s.event = e
      BY <1>1, <2>1, StripeSlotFacts DEF SlotOK, Fields
    <2>4. HookTyped(s)
      BY <1>2, <2>3 DEF HookTyped
    <2> QED BY <1>8, <2>2, <2>4, HookTypedStep DEF StripeTypesInv
  <1>10. CASE ~(user = None /\ hook[h].invoice # None)
    <2>1. PICK p : p = Stripe!Resolved(Content[e], user, link)
      OBVIOUS
    <2>2. hook' = [hook EXCEPT ![h].pc = "ingest", ![h].payload = p]
      BY <1>2, <1>3, <1>5, <1>6, <1>10, <2>1
    <2>3. p.link \in Stripe!Links
      BY <1>2, <1>7, <2>1, PayloadLinks
    <2> QED BY <1>8, <2>2, <2>3, ToIngestTyped
  <1> QED BY <1>9, <1>10

LEMMA ReadsTyped ==
    ASSUME StripeInv, StripeTypesInv, NEW h \in Hooks,
           Stripe!FetchCharge(h) \/ Stripe!FetchInvoice(h) \/ Stripe!FindOpened(h)
    PROVE  StripeTypesInv'
  <1>1. PICK e : e = hook[h].event
    OBVIOUS
  <1>2. e \in StripeEvents /\ Stripe!Object(h) = Content[e]
    BY <1>1, StripeSlotFacts DEF Stripe!FetchCharge, Stripe!FetchInvoice, Stripe!FindOpened,
       Stripe!At, SlotOK, Stripe!Object
  <1>3. UNCHANGED <<stored, told, answered, early>>
    BY DEF Stripe!FetchCharge, Stripe!FetchInvoice, Stripe!FindOpened
  <1>4. CASE Stripe!FetchCharge(h)
    <2>1. PICK s : s = [hook[h] EXCEPT !.pc = "invoice", !.invoice = Stripe!Object(h).invoice]
      OBVIOUS
    <2>2. hook' = [hook EXCEPT ![h] = s]
      BY <1>4, <2>1 DEF Stripe!FetchCharge
    <2>3. s.pc = "invoice" /\ s.event = e
      BY <1>1, <2>1, StripeSlotFacts DEF SlotOK, Fields
    <2>4. HookTyped(s)
      BY <1>2, <2>3 DEF HookTyped
    <2> QED BY <1>3, <2>2, <2>4, HookTypedStep DEF StripeTypesInv
  <1>5. CASE Stripe!FetchInvoice(h)
    <2>1. PICK link : link = Stripe!Or(Content[e].link, hook[h].found)
      OBVIOUS
    <2>2. hook[h].found = None
      BY <1>5, StripeSlotFacts DEF Stripe!FetchInvoice, Stripe!At, SlotOK
    <2>3. link \in Stripe!Links
      BY <1>2, <2>1, <2>2 DEF Stripe!Or, Stripe!Links
    <2>4. PICK p : p = Stripe!Resolved(Content[e], InvoiceUser[hook[h].invoice], link)
      OBVIOUS
    <2>5. p.link \in Stripe!Links
      BY <1>2, <2>3, <2>4, PayloadLinks
    <2>6. hook' = [hook EXCEPT ![h].pc = "ingest", ![h].payload = p]
      BY <1>2, <1>5, <2>1, <2>4 DEF Stripe!FetchInvoice
    <2> QED BY <1>3, <2>5, <2>6, ToIngestTyped
  <1>6. CASE Stripe!FindOpened(h)
    <2> DEFINE opened == {x \in DOMAIN stored : /\ stored[x].type = "chargeback_opened"
                                                /\ Content[x].dispute = Stripe!Object(h).dispute}
    <2>1. PICK f :
            /\ f \in IF opened = {} THEN {None} ELSE opened
            /\ hook' = [hook EXCEPT ![h].pc = "ingest",
                          ![h].payload = Stripe!Resolved(Stripe!Object(h), Stripe!UserOf(f), f)]
      BY <1>6 DEF Stripe!FindOpened
    <2>2. f \in Stripe!Links
      BY <2>1 DEF StripeInv, StoredInv, Stripe!Links
    <2>3. PICK p : p = Stripe!Resolved(Content[e], Stripe!UserOf(f), f)
      OBVIOUS
    <2>4. p.link \in Stripe!Links
      BY <1>2, <2>2, <2>3, PayloadLinks
    <2>5. hook' = [hook EXCEPT ![h].pc = "ingest", ![h].payload = p]
      BY <1>2, <2>1, <2>3
    <2> QED BY <1>3, <2>4, <2>5, ToIngestTyped
  <1> QED BY <1>4, <1>5, <1>6

\* A request that ends, or goes on to the wallet, and may have stored its payload.
LEMMA EndTyped ==
    ASSUME StripeInv, StripeTypesInv, NEW h \in Hooks, hook[h].event \in StripeEvents,
           \/ Stripe!Answer(h)
           \/ hook' = [hook EXCEPT ![h].pc = "tell"] /\ UNCHANGED answered,
           \/ stored' = stored
           \/ Stripe!At(h, "ingest") /\ Stripe!Store(hook[h].event, hook[h].payload),
           early' = early
    PROVE  StripeTypesInv'
  <1>1. PICK s : s = IF Stripe!Answer(h) THEN Stripe!Idle ELSE [hook[h] EXCEPT !.pc = "tell"]
    OBVIOUS
  <1>2. hook' = [hook EXCEPT ![h] = s]
    BY <1>1 DEF Stripe!Answer
  <1>3. HookTyped(s)
    <2>1. CASE Stripe!Answer(h)
      BY <1>1, <2>1, IdleTyped
    <2>2. CASE ~Stripe!Answer(h)
      <3>1. s.pc = "tell" /\ s.event = hook[h].event
        BY <1>1, <2>2, StripeSlotFacts DEF SlotOK, Fields
      <3> QED BY <3>1 DEF HookTyped
    <2> QED BY <2>1, <2>2
  <1>4. ASSUME NEW g \in Hooks PROVE HookTyped(hook[g])'
    <2>1. hook'[g] = s \/ hook'[g] = hook[g]
      BY <1>2 DEF StripeInv, HooksInv
    <2> QED BY <1>3, <2>1 DEF StripeTypesInv, HookTyped, Stripe!Links
  <1>5. ASSUME NEW e \in DOMAIN stored' PROVE stored'[e].link \in Stripe!Links
    <2>1. CASE stored' = stored
      BY <1>5, <2>1 DEF StripeTypesInv
    <2>2. CASE Stripe!At(h, "ingest") /\ Stripe!Store(hook[h].event, hook[h].payload)
      <3>1. hook[h].payload.link \in Stripe!Links
        BY <2>2 DEF Stripe!At, StripeTypesInv, HookTyped
      <3>2. (stored'[e] = stored[e] /\ e \in DOMAIN stored) \/ stored'[e] = hook[h].payload
        BY <1>5, <2>2 DEF Stripe!Store
      <3> QED BY <3>1, <3>2 DEF StripeTypesInv
    <2> QED BY <2>1, <2>2
  <1>6. answered' \subseteq StripeEvents
    BY DEF Stripe!Answer, StripeTypesInv
  <1> QED BY <1>4, <1>5, <1>6 DEF StripeTypesInv, Stripe!Links

LEMMA StripeTypesInductive ==
    ASSUME StripeInv, StripeTypesInv, [Stripe!Next]_Stripe!vars PROVE StripeTypesInv'
  <1>1. CASE UNCHANGED Stripe!vars
    BY <1>1 DEF Stripe!vars, StripeTypesInv, HookTyped, Stripe!Links
  <1>2. ASSUME NEW h \in Hooks, Stripe!Fail(h) PROVE StripeTypesInv'
    BY <1>2, IdleTyped, HookTypedStep DEF Stripe!Fail, StripeTypesInv
  <1>3. ASSUME NEW h \in Hooks, Stripe!Ingest(h) PROVE StripeTypesInv'
    <2>1. hook[h].event \in StripeEvents
      BY <1>3, StripeSlotFacts DEF Stripe!Ingest, Stripe!At, SlotOK
    <2> QED BY <1>3, <2>1, EndTyped DEF Stripe!Ingest
  <1>4. ASSUME NEW h \in Hooks, Stripe!Ignore(h) PROVE StripeTypesInv'
    <2>1. hook[h].event \in StripeEvents
      BY <1>4, StripeSlotFacts DEF Stripe!Ignore, Stripe!At, SlotOK
    <2> QED BY <1>4, <2>1, EndTyped DEF Stripe!Ignore
  <1>5. ASSUME NEW h \in Hooks, Stripe!TellWallet(h) PROVE StripeTypesInv'
    <2>1. hook[h].event \in StripeEvents
      BY <1>5, StripeSlotFacts DEF Stripe!TellWallet, Stripe!At, SlotOK
    <2> QED BY <1>5, <2>1, EndTyped DEF Stripe!TellWallet
  <1> QED BY <1>1, <1>2, <1>3, <1>4, <1>5, ReceiveTyped, FindInvoicePaidTyped, ReadsTyped
      DEF Stripe!Next

LEMMA StripeTypesInitially == Stripe!Init => StripeTypesInv
  BY IdleTyped DEF Stripe!Init, StripeTypesInv

-----------------------------------------------------------------------------
(* Referrals: assumptions.                                                 *)

GraphAssumption == None \notin Users /\ MaxEdges \in Nat

-----------------------------------------------------------------------------
(* Referrals: invariant and steps.                                         *)

\* The distances from a user that an ancestry, or what was read for one, holds.
UpTo(n) == [Users -> Graph!NoDepth..n]
GraphLocal == [pc : {"idle", "edge", "write", "read", "commit"},
               user : Users \cup {None}, to : Users \cup {None}, old : 0..MaxEdges,
               rows : UpTo(Graph!MaxDepth + 1)]

\* What a call q of applyCode knows.
GraphCallOK(q) ==
    /\ q.pc # "idle" => q.user \in Users /\ q.to \in Users /\ q.user # q.to
    /\ q.pc = "commit" => q.rows \in UpTo(edges + 1) /\ q.rows[q.user] = 0
\* At a commit, what was read is what is above the referrer, unless the user was
\* overtaken.
FreshOK(q) ==
    q.pc = "commit" /\ q.user \notin overtaken =>
        \A v \in Graph!Ancestors(q.to) \ {q.user} : q.rows[v] = ancestry[q.to][v] + 1

GraphTypes ==
    /\ edges \in 0..MaxEdges /\ locked \subseteq Users /\ overtaken \subseteq Users
    /\ referrer \in [Users -> Users \cup {None}]
    /\ edgeId \in [Users -> 0..edges]
    /\ ancestry \in [Users -> UpTo(edges)]
    /\ \A u \in Users : referrer[u] # u /\ ancestry[u][u] <= 0
    /\ at \in [Callers -> GraphLocal]
GraphInv == GraphTypes /\ \A c \in Callers : GraphCallOK(at[c])
FreshInv == Graph!AncestryInherited /\ \A c \in Callers : FreshOK(at[c])

LEMMA GraphTypeParts == ASSUME MaxEdges \in Nat, GraphInv PROVE Graph!TypeOK
  BY DEF GraphInv, GraphTypes, Graph!TypeOK, GraphLocal, UpTo, Graph!MaxDepth, Graph!NoDepth

LEMMA NoRowsAreRows ==
    ASSUME MaxEdges \in Nat, NEW n \in Nat PROVE Graph!NoRows \in UpTo(n)
  BY DEF Graph!NoRows, UpTo, Graph!NoDepth

LEMMA GraphInitially == ASSUME GraphAssumption, Graph!Init PROVE GraphInv /\ FreshInv
  <1>1. Graph!Idle \in GraphLocal /\ Graph!Idle.pc = "idle"
    BY NoRowsAreRows DEF Graph!Idle, GraphLocal, GraphAssumption, Graph!MaxDepth
  <1>2. GraphTypes
    BY <1>1, NoRowsAreRows DEF Graph!Init, GraphTypes, GraphAssumption, Graph!NoRows, Graph!NoDepth
  <1>3. \A c \in Callers : GraphCallOK(at[c]) /\ FreshOK(at[c])
    BY <1>1 DEF Graph!Init, GraphCallOK, FreshOK
  <1>4. Graph!AncestryInherited
    BY DEF Graph!Init, Graph!AncestryInherited
  <1> QED BY <1>2, <1>3, <1>4 DEF GraphInv, FreshInv

\* A step that only moves the call c, to s.
LEMMA CallStep ==
    ASSUME GraphAssumption, GraphInv, NEW c \in Callers, NEW s \in GraphLocal,
           at' = [at EXCEPT ![c] = s], UNCHANGED <<Graph!edgeVars, ancestry>>, GraphCallOK(s)
    PROVE  GraphInv' /\ (FreshInv /\ FreshOK(s) => FreshInv')
  <1>1. /\ GraphTypes /\ \A d \in Callers : GraphCallOK(at[d])
        /\ at' \in [Callers -> GraphLocal] /\ at'[c] = s
        /\ \A d \in Callers \ {c} : at'[d] = at[d]
        /\ edges' = edges /\ locked' = locked /\ referrer' = referrer
        /\ edgeId' = edgeId /\ ancestry' = ancestry /\ overtaken' = overtaken
    BY DEF GraphInv, GraphTypes, Graph!edgeVars
  <1>2. GraphTypes'
    BY <1>1 DEF GraphTypes, UpTo
  <1>3. \A d \in Callers : GraphCallOK(at[d])'
    BY <1>1 DEF GraphCallOK, UpTo
  <1>4. ASSUME FreshInv, FreshOK(s) PROVE FreshInv'
    <2>1. \A d \in Callers : FreshOK(at[d])'
      BY <1>1, <1>4 DEF FreshInv, FreshOK, Graph!Ancestors
    <2>2. Graph!AncestryInherited'
      BY <1>1, <1>4 DEF FreshInv, Graph!AncestryInherited, Graph!Ancestors
    <2> QED BY <2>1, <2>2 DEF FreshInv
  <1> QED BY <1>2, <1>3, <1>4 DEF GraphInv

LEMMA IdleIsACall ==
    ASSUME GraphAssumption PROVE Graph!Idle \in GraphLocal /\ Graph!Idle.pc = "idle"
  BY NoRowsAreRows DEF Graph!Idle, GraphLocal, GraphAssumption, Graph!MaxDepth

LEMMA CallFacts ==
    ASSUME GraphAssumption, GraphInv, NEW c \in Callers
    PROVE  at \in [Callers -> GraphLocal] /\ at[c] \in GraphLocal /\ GraphCallOK(at[c])
  BY DEF GraphInv, GraphTypes

LEMMA ApplyCodeKeeps ==
    ASSUME GraphAssumption, GraphInv, NEW c \in Callers, Graph!ApplyCode(c)
    PROVE  GraphInv' /\ (FreshInv => FreshInv')
  <1>1. PICK u, r \in Users :
            /\ u # r
            /\ at' = [at EXCEPT ![c] = [Graph!Idle EXCEPT !.pc = "edge", !.user = u, !.to = r]]
            /\ UNCHANGED <<Graph!edgeVars, ancestry>>
    BY DEF Graph!ApplyCode
  <1>2. PICK s : s = [Graph!Idle EXCEPT !.pc = "edge", !.user = u, !.to = r]
    OBVIOUS
  <1>3. s.pc = "edge" /\ s.user = u /\ s.to = r /\ s \in GraphLocal
    BY <1>2, IdleIsACall DEF Graph!Idle, GraphLocal
  <1>4. GraphCallOK(s) /\ FreshOK(s)
    BY <1>1, <1>3 DEF GraphCallOK, FreshOK
  <1>5. at' = [at EXCEPT ![c] = s]
    BY <1>1, <1>2
  <1> QED BY <1>1, <1>3, <1>4, <1>5, CallStep

LEMMA Returns ==
    ASSUME GraphAssumption, GraphInv, NEW c \in Callers,
           at' = [at EXCEPT ![c] = Graph!Idle], UNCHANGED <<Graph!edgeVars, ancestry>>
    PROVE  GraphInv' /\ (FreshInv => FreshInv')
  <1>1. PICK s : s = Graph!Idle
    OBVIOUS
  <1>2. s \in GraphLocal /\ s.pc = "idle" /\ at' = [at EXCEPT ![c] = s]
    BY <1>1, IdleIsACall
  <1>3. GraphCallOK(s) /\ FreshOK(s)
    BY <1>2 DEF GraphCallOK, FreshOK
  <1> QED BY <1>2, <1>3, CallStep

LEMMA FindEdgeKeeps ==
    ASSUME GraphAssumption, GraphInv, NEW c \in Callers, Graph!FindEdge(c)
    PROVE  GraphInv' /\ (FreshInv => FreshInv')
  <1>1. at[c].pc = "edge" /\ UNCHANGED <<Graph!edgeVars, ancestry>>
    BY DEF Graph!FindEdge
  <1>2. CASE at' = [at EXCEPT ![c] = Graph!Idle]
    BY <1>1, <1>2, Returns
  <1>3. CASE at' = [at EXCEPT ![c].pc = "write", ![c].old = edgeId[at[c].user]]
    <2>1. PICK s : s = [at[c] EXCEPT !.pc = "write", !.old = edgeId[at[c].user]]
      OBVIOUS
    <2>2. /\ at[c] \in GraphLocal /\ GraphCallOK(at[c]) /\ edges \in 0..MaxEdges
          /\ edgeId \in [Users -> 0..edges] /\ at[c].user \in Users
      BY <1>1, CallFacts DEF GraphCallOK, GraphInv, GraphTypes
    <2>3. edgeId[at[c].user] \in 0..MaxEdges
      BY <2>2 DEF GraphAssumption
    <2>4. s.pc = "write" /\ s.user = at[c].user /\ s.to = at[c].to /\ s \in GraphLocal
      BY <2>1, <2>2, <2>3 DEF GraphLocal
    <2>5. GraphCallOK(s) /\ FreshOK(s)
      BY <1>1, <2>2, <2>4 DEF GraphCallOK, FreshOK
    <2>6. at' = [at EXCEPT ![c] = s]
      BY <1>3, <2>1, CallFacts
    <2> QED BY <1>1, <2>4, <2>5, <2>6, CallStep
  <1> QED BY <1>2, <1>3 DEF Graph!FindEdge

LEMMA WriteEdgeKeeps ==
    ASSUME GraphAssumption, GraphInv, NEW c \in Callers, Graph!WriteEdge(c)
    PROVE  GraphInv' /\ (FreshInv => FreshInv')
  <1>1. at[c].pc = "write" /\ UNCHANGED <<Graph!edgeVars, ancestry>>
    BY DEF Graph!WriteEdge
  <1>2. CASE at' = [at EXCEPT ![c] = Graph!Idle]
    BY <1>1, <1>2, Returns
  <1>3. CASE at' = [at EXCEPT ![c].pc = "read"]
    <2>1. PICK s : s = [at[c] EXCEPT !.pc = "read"]
      OBVIOUS
    <2>2. at[c] \in GraphLocal /\ GraphCallOK(at[c])
      BY CallFacts
    <2>3. s.pc = "read" /\ s.user = at[c].user /\ s.to = at[c].to /\ s \in GraphLocal
      BY <2>1, <2>2 DEF GraphLocal
    <2>4. GraphCallOK(s) /\ FreshOK(s)
      BY <1>1, <2>2, <2>3 DEF GraphCallOK, FreshOK
    <2>5. at' = [at EXCEPT ![c] = s]
      BY <1>3, <2>1, CallFacts
    <2> QED BY <1>1, <2>3, <2>4, <2>5, CallStep
  <1> QED BY <1>2, <1>3 DEF Graph!WriteEdge

\* What is read is one deeper than what is above the referrer.
LEMMA ReadAncestorsKeeps ==
    ASSUME GraphAssumption, GraphInv, NEW c \in Callers, Graph!ReadAncestors(c)
    PROVE  GraphInv' /\ (FreshInv => FreshInv')
  <1>1. PICK u, r : u = at[c].user /\ r = at[c].to
    OBVIOUS
  <1>2. PICK rows : rows = [v \in Users |->
                  CASE v = u -> 0
                    [] v = r -> 1
                    [] v \in Graph!Ancestors(r) \ {u, r} -> ancestry[r][v] + 1
                    [] OTHER -> Graph!NoDepth]
    OBVIOUS
  <1>3. /\ at[c].pc = "read" /\ UNCHANGED <<Graph!edgeVars, ancestry>>
        /\ at' = [at EXCEPT ![c].pc = "commit", ![c].rows = rows]
    BY <1>1, <1>2 DEF Graph!ReadAncestors
  <1>4. PICK s : s = [at[c] EXCEPT !.pc = "commit", !.rows = rows]
    OBVIOUS
  <1>5. /\ at[c] \in GraphLocal /\ GraphCallOK(at[c]) /\ u \in Users /\ r \in Users /\ u # r
        /\ edges \in 0..MaxEdges /\ ancestry \in [Users -> UpTo(edges)]
        /\ ancestry[r][r] <= 0
    BY <1>1, <1>3, CallFacts DEF GraphCallOK, GraphInv, GraphTypes
  <1>6. rows \in UpTo(edges + 1) /\ rows \in UpTo(Graph!MaxDepth + 1)
    <2>1. \A v \in Users : ancestry[r][v] \in Graph!NoDepth..edges
      BY <1>5 DEF UpTo
    <2> QED BY <1>2, <1>5, <2>1 DEF UpTo, Graph!NoDepth, Graph!MaxDepth, GraphAssumption
  <1>7. rows[u] = 0 /\ \A v \in Graph!Ancestors(r) \ {u} : rows[v] = ancestry[r][v] + 1
    <2>1. r \notin Graph!Ancestors(r)
      <3>1. ancestry[r][r] \in Graph!NoDepth..edges
        BY <1>5 DEF UpTo
      <3> QED BY <1>5, <3>1 DEF Graph!Ancestors, Graph!NoDepth
    <2> QED BY <1>2, <1>5, <2>1 DEF Graph!Ancestors
  <1>8. /\ s.pc = "commit" /\ s.user = u /\ s.to = r /\ s.rows = rows /\ s \in GraphLocal
    BY <1>1, <1>4, <1>5, <1>6 DEF GraphLocal
  <1>9. GraphCallOK(s) /\ FreshOK(s)
    BY <1>5, <1>6, <1>7, <1>8 DEF GraphCallOK, FreshOK
  <1>10. at' = [at EXCEPT ![c] = s]
    BY <1>3, <1>4, CallFacts
  <1> QED BY <1>3, <1>8, <1>9, <1>10, CallStep

\* The new edge is the latest: who is below its user has an older one.
LEMMA CommitEdgeKeeps ==
    ASSUME GraphAssumption, GraphInv, NEW c \in Callers, Graph!CommitEdge(c)
    PROVE  GraphInv' /\ (FreshInv => FreshInv')
  <1> DEFINE behind == {d \in Callers : at[d].pc = "commit" /\ at[d].to = at[c].user}
  <1>1. PICK u, r, rows : u = at[c].user /\ r = at[c].to /\ rows = at[c].rows
    OBVIOUS
  <1>2. /\ at[c].pc = "commit" /\ edges < MaxEdges /\ edges' = edges + 1
        /\ referrer' = [referrer EXCEPT ![u] = r]
        /\ edgeId' = [edgeId EXCEPT ![u] = edges + 1]
        /\ locked' = locked \ {u}
        /\ ancestry' = [ancestry EXCEPT ![u] = rows]
        /\ overtaken' = overtaken \cup {at[d].user : d \in behind}
        /\ at' = [at EXCEPT ![c] = Graph!Idle]
    BY <1>1 DEF Graph!CommitEdge
  <1>3. /\ at[c] \in GraphLocal /\ u \in Users /\ r \in Users /\ u # r
        /\ rows \in UpTo(edges + 1) /\ rows[u] = 0
    BY <1>1, <1>2, CallFacts DEF GraphCallOK
  <1>4. GraphTypes /\ \A d \in Callers : GraphCallOK(at[d])
    BY DEF GraphInv
  <1>5. /\ at' \in [Callers -> GraphLocal] /\ at'[c].pc = "idle"
        /\ \A d \in Callers \ {c} : at'[d] = at[d]
    BY <1>2, <1>4, IdleIsACall DEF GraphTypes
  <1>6. GraphTypes'
    <2>1. \A v \in Users : ancestry[v] \in UpTo(edges + 1) /\ edgeId[v] \in 0..(edges + 1)
      BY <1>4 DEF GraphTypes, UpTo, Graph!NoDepth
    <2>2. ancestry' \in [Users -> UpTo(edges + 1)] /\ edgeId' \in [Users -> 0..(edges + 1)]
      BY <1>2, <1>3, <1>4, <2>1 DEF GraphTypes
    <2>3. \A v \in Users : referrer'[v] # v /\ ancestry'[v][v] <= 0
      BY <1>2, <1>3, <1>4 DEF GraphTypes
    <2>4. overtaken' \subseteq Users
      BY <1>2, <1>4 DEF GraphTypes, GraphCallOK
    <2> QED BY <1>2, <1>3, <1>4, <1>5, <2>2, <2>3, <2>4 DEF GraphTypes, GraphAssumption
  <1>7. \A d \in Callers : GraphCallOK(at[d])'
    <2>1. \A n \in UpTo(edges + 1) : n \in UpTo(edges + 1 + 1)
      BY <1>4 DEF UpTo, Graph!NoDepth, GraphTypes
    <2> QED BY <1>2, <1>4, <1>5, <2>1 DEF GraphCallOK
  <1>8. ASSUME FreshInv PROVE FreshInv'
    <2>1. u \notin overtaken =>
              \A v \in Users \ {u} : ancestry[r][v] > 0 => rows[v] = ancestry[r][v] + 1
      BY <1>1, <1>2, <1>8 DEF FreshInv, FreshOK, Graph!Ancestors
    <2>2. \A v \in Users \ {u} : /\ ancestry'[v] = ancestry[v] /\ referrer'[v] = referrer[v]
                                 /\ edgeId'[v] = edgeId[v] /\ edgeId[v] \in 0..edges
      BY <1>2, <1>4 DEF GraphTypes
    <2>3. ancestry'[u] = rows /\ referrer'[u] = r /\ edgeId'[u] = edges + 1
      BY <1>2, <1>3, <1>4 DEF GraphTypes
    <2>4. overtaken \subseteq overtaken'
      BY <1>2
    <2>5. ASSUME NEW w \in Users, w \notin overtaken', NEW q \in Users, q = referrer'[w],
                 edgeId'[q] # 0, edgeId'[q] < edgeId'[w], NEW v \in Users \ {w}, ancestry'[q][v] > 0
          PROVE  ancestry'[w][v] = ancestry'[q][v] + 1
      <3>1. CASE w = u
        BY <1>3, <2>1, <2>2, <2>3, <2>4, <2>5, <3>1
      <3>2. CASE w # u
        <4>1. q # u
          BY <1>4, <2>2, <2>3, <2>5, <3>2 DEF GraphTypes
        <4>2. /\ q = referrer[w] /\ q # None /\ edgeId[q] # 0 /\ edgeId[q] < edgeId[w]
              /\ ancestry[q][v] > 0
          BY <2>2, <2>5, <3>2, <4>1 DEF GraphAssumption
        <4>3. ancestry[w][v] = ancestry[q][v] + 1
          BY <1>8, <2>4, <2>5, <4>2 DEF FreshInv, Graph!AncestryInherited, Graph!Ancestors
        <4> QED BY <2>2, <3>2, <4>1, <4>3
      <3> QED BY <3>1, <3>2
    <2>6. Graph!AncestryInherited'
      <3>1. \A w \in Users : referrer'[w] # None => referrer'[w] \in Users
        BY <1>6 DEF GraphTypes
      <3> QED BY <2>5, <3>1 DEF Graph!AncestryInherited, Graph!Ancestors
    <2>7. ASSUME NEW d \in Callers, at'[d].pc = "commit", at'[d].user \notin overtaken'
          PROVE  FreshOK(at[d])'
      <3>1. PICK q : q = at[d].to
        OBVIOUS
      <3>2. d # c /\ at'[d] = at[d]
        BY <1>5, <2>7
      <3>3. q # u
        BY <1>1, <1>2, <2>7, <3>1, <3>2
      <3>4. q \in Users /\ FreshOK(at[d])
        BY <1>4, <1>8, <2>7, <3>1, <3>2 DEF GraphCallOK, FreshInv
      <3>5. ancestry'[q] = ancestry[q]
        BY <2>2, <3>3, <3>4
      <3>6. \A v \in Users \ {at[d].user} :
                ancestry[q][v] > 0 => at[d].rows[v] = ancestry[q][v] + 1
        BY <2>4, <2>7, <3>1, <3>2, <3>4 DEF FreshOK, Graph!Ancestors
      <3> QED BY <3>1, <3>2, <3>5, <3>6 DEF FreshOK, Graph!Ancestors
    <2>8. \A d \in Callers : FreshOK(at[d])'
      BY <2>7 DEF FreshOK
    <2> QED BY <2>6, <2>8 DEF FreshInv
  <1> QED BY <1>6, <1>7, <1>8 DEF GraphInv

LEMMA LockEdgeKeeps ==
    ASSUME GraphAssumption, GraphInv, NEW u \in Users, Graph!LockEdge(u)
    PROVE  GraphInv' /\ (FreshInv => FreshInv')
  <1>1. /\ locked' = locked \cup {u} /\ referrer' = referrer /\ edgeId' = edgeId
        /\ edges' = edges /\ ancestry' = ancestry /\ at' = at /\ overtaken' = overtaken
    BY DEF Graph!LockEdge
  <1>2. GraphInv'
    BY <1>1 DEF GraphInv, GraphTypes, GraphCallOK
  <1>3. FreshInv => FreshInv'
    BY <1>1 DEF FreshInv, Graph!AncestryInherited, FreshOK, Graph!Ancestors
  <1> QED BY <1>2, <1>3

LEMMA GraphInductive ==
    ASSUME GraphAssumption, GraphInv, [Graph!Next]_Graph!vars
    PROVE  GraphInv' /\ (FreshInv => FreshInv')
  <1>1. CASE UNCHANGED Graph!vars
    BY <1>1 DEF Graph!vars, Graph!edgeVars, GraphInv, GraphTypes, GraphCallOK, FreshInv,
       Graph!AncestryInherited,
       FreshOK, Graph!Ancestors
  <1>2. ASSUME NEW c \in Callers, Graph!ApplyCode(c) PROVE GraphInv' /\ (FreshInv => FreshInv')
    BY <1>2, ApplyCodeKeeps
  <1>3. ASSUME NEW c \in Callers, Graph!FindEdge(c) PROVE GraphInv' /\ (FreshInv => FreshInv')
    BY <1>3, FindEdgeKeeps
  <1>4. ASSUME NEW c \in Callers, Graph!WriteEdge(c) PROVE GraphInv' /\ (FreshInv => FreshInv')
    BY <1>4, WriteEdgeKeeps
  <1>5. ASSUME NEW c \in Callers, Graph!ReadAncestors(c) PROVE GraphInv' /\ (FreshInv => FreshInv')
    BY <1>5, ReadAncestorsKeeps
  <1>6. ASSUME NEW c \in Callers, Graph!CommitEdge(c)
        PROVE  GraphInv' /\ (FreshInv => FreshInv')
    BY <1>6, CommitEdgeKeeps
  <1>7. ASSUME NEW u \in Users, Graph!LockEdge(u) PROVE GraphInv' /\ (FreshInv => FreshInv')
    BY <1>7, LockEdgeKeeps
  <1> QED BY <1>1, <1>2, <1>3, <1>4, <1>5, <1>6, <1>7 DEF Graph!Next

-----------------------------------------------------------------------------
(* AdminConsole: invariant.                                                *)

CallType ==
    [op : {"idle", "login", "list", "detail", "context", "submit", "create"},
     page : Page!Pages, row : Rows \cup {None}, held : Rows \cup {None}, open : BOOLEAN]

SelectionTypes ==
    /\ list \in [Page!Pages -> Seq(Rows)] /\ \A p \in Page!Pages : list[p] \in Answers[p] \cup {<<>>}
    /\ sel \in [Page!Pages -> Rows \cup {None}]
    /\ \A p \in Page!Pages \ {"webhooks"} : sel[p] \in Page!Ids(list[p]) \cup {None}
DetailTypes ==
    /\ detail \in [Page!Pages -> Rows \cup {None}]
    /\ pane \in [Page!Pages -> BOOLEAN]
SessionTypes ==
    /\ tour \in Tours /\ {token, auth, loading, patient} \subseteq BOOLEAN
    /\ view \in (tour \cap Page!Pages) \cup {"home"}
PageCallOK(c) ==
    /\ c.op \in {"detail", "context", "submit", "create"} => c.row # None
    /\ c.op = "context" => c.page = "users"
    /\ c.op = "create" => c.page # "users"
    /\ c.op = "login" => c.page = "tenants"
CallTypes == call \in [Slots -> CallType] /\ \A s \in Slots : PageCallOK(call[s])
PageTypes == SessionTypes /\ SelectionTypes /\ DetailTypes /\ CallTypes

\* A call of the page of the users: it sets loading.
OfUsers(c) == c.op # "idle" /\ c.page = "users"

\* The user whose detail a call loads, or who is submitted, is the one selected;
\* a load that may replace the detail holds loading or finds no detail.
Knows(c) ==
    OfUsers(c) =>
        /\ c.op \in {"detail", "context", "submit"} =>
              c.row = Page!Selected("users") /\ pane["users"] /\ list["users"] # <<>>
        /\ c.op = "list" /\ c.open => pane["users"]
        /\ c.op \in {"list", "context"} => loading \/ detail["users"] = None

\* Two calls that set loading are out only after a login.
LoadPair(c, d) ==
    /\ OfUsers(c) /\ c.op \in {"list", "context"}
    /\ d.op = "list" /\ d.page = "tenants"
    /\ detail["users"] = None
Paired(s, t) == LoadPair(call[s], call[t]) \/ LoadPair(call[t], call[s])

Shown ==
    detail["users"] # None =>
        detail["users"] = Page!Selected("users") /\ pane["users"] /\ list["users"] # <<>>

PatientInv ==
    /\ \A s \in Slots : Knows(call[s])
    /\ \A s, t \in Slots : s # t /\ Page!Flagged(call[s]) /\ Page!Flagged(call[t]) => Paired(s, t)
    /\ (\A s \in Slots : call[s].op # "context") => Shown
    /\ ~auth => detail["users"] = None /\ \A s \in Slots : ~OfUsers(call[s])
    /\ (\E s \in Slots : call[s].op = "login") => detail["users"] = None
PageInv == PageTypes /\ (patient => PatientInv)

-----------------------------------------------------------------------------
(* Types.                                                                  *)

LEMMA PageNames ==
    /\ Page!Pages = {"users", "tenants", "fraud", "promoters", "settlements", "webhooks"}
    /\ Page!Updated = {"fraud", "promoters", "settlements", "webhooks"}
  BY DEF Page!Pages, Page!Updated

LEMMA NoCallIsACall ==
    /\ Page!NoCall \in CallType /\ PageCallOK(Page!NoCall)
    /\ Page!NoCall.op = "idle" /\ ~Page!Flagged(Page!NoCall) /\ ~OfUsers(Page!NoCall)
  BY DEF Page!NoCall, CallType, PageCallOK, Page!Flagged, OfUsers, Page!Pages

LEMMA RequestFields ==
    ASSUME PageTypes, NEW op, NEW p, NEW row
    PROVE  /\ Page!Request(op, p, row).op = op /\ Page!Request(op, p, row).page = p
           /\ Page!Request(op, p, row).row = row /\ Page!Request(op, p, row).open = pane[p]
           /\ Page!Request(op, p, row).held = sel[p]
           /\ op \in {"login", "list", "detail", "context", "submit", "create"} /\ p \in Page!Pages
                 /\ row \in Rows \cup {None} => Page!Request(op, p, row) \in CallType
  BY DEF Page!Request, CallType, PageTypes, SelectionTypes, DetailTypes

LEMMA EmptyIsListed == <<>> \in Seq(Rows) /\ Page!Ids(<<>>) = {} /\ Page!First(<<>>) = None
  BY DEF Page!Ids, Page!First

\* The first of some rows is among them.
LEMMA FirstIsListed ==
    ASSUME NEW rows \in Seq(Rows)
    PROVE  Page!First(rows) \in Page!Ids(rows) \cup {None} /\ Page!Ids(rows) \subseteq Rows
           /\ (rows # <<>> => Page!First(rows) \in Page!Ids(rows))
           /\ (Page!Ids(rows) # {} => rows # <<>>)
  <1>1. CASE rows = <<>>
    BY <1>1, EmptyIsListed
  <1>2. CASE rows # <<>>
    <2>1. 1 \in DOMAIN rows
      BY <1>2
    <2> QED BY <1>2, <2>1 DEF Page!First, Page!Ids
  <1> QED BY <1>1, <1>2

LEMMA SelectedIsListed ==
    ASSUME PagesListRows, PageTypes, NEW p \in Page!Pages
    PROVE  /\ Page!Selected(p) \in Page!Ids(list[p]) \cup {None} /\ Page!Selected(p) \in Rows \cup {None}
           /\ list[p] \in Seq(Rows) /\ Page!Ids(list[p]) \subseteq Rows
           /\ sel[p] \in Rows \cup {None} /\ detail[p] \in Rows \cup {None}
  <1>1. list[p] \in Seq(Rows) /\ sel[p] \in Rows \cup {None} /\ detail[p] \in Rows \cup {None}
    BY DEF PageTypes, SelectionTypes, DetailTypes
  <1> QED BY <1>1, FirstIsListed DEF Page!Selected

LEMMA PageInitially == ASSUME PagesListRows, Page!Init PROVE PageInv
  <1>1. SessionTypes
    BY DEF Page!Init, SessionTypes
  <1>2. SelectionTypes /\ DetailTypes
    BY EmptyIsListed DEF Page!Init, SelectionTypes, DetailTypes
  <1>3. \A s \in Slots : call[s] = Page!NoCall
    BY DEF Page!Init
  <1>4. CallTypes
    BY <1>3, NoCallIsACall DEF Page!Init, CallTypes
  <1>5. detail["users"] = None
    BY DEF Page!Init, Page!Pages
  <1>6. PatientInv
    BY <1>3, <1>5, NoCallIsACall DEF PatientInv, Shown, Knows
  <1> QED BY <1>1, <1>2, <1>4, <1>6 DEF PageInv, PageTypes

LEMMA PageTypeParts == ASSUME PagesListRows, PageInv PROVE Page!TypeOK
  <1>1. \A p \in Page!Pages : Page!Ids(list[p]) \subseteq Rows
    BY SelectedIsListed DEF PageInv
  <1> QED BY <1>1 DEF PageInv, PageTypes, SessionTypes, SelectionTypes, DetailTypes, CallTypes,
             Page!TypeOK,
       PageCallOK, CallType

\* What the property needs of the invariant.
LEMMA PatientShowsUser == ASSUME PageInv PROVE Page!AdjustsShownUser
  <1>1. SUFFICES ASSUME patient, Page!MaySubmit("users")
                 PROVE  detail["users"] = Page!Target("users")
    BY DEF Page!AdjustsShownUser
  <1>2. ~loading /\ detail["users"] # None
    BY <1>1 DEF Page!MaySubmit, Page!PaneShown
  <1>3. \A s \in Slots : call[s].op # "context"
    BY <1>1, <1>2 DEF PageInv, PatientInv, Knows, OfUsers, PageTypes, CallTypes, PageCallOK
  <1>4. Shown
    BY <1>1, <1>3 DEF PageInv, PatientInv
  <1> QED BY <1>2, <1>4 DEF Shown, Page!Target

LEMMA CallTo ==
    ASSUME PageTypes, NEW s \in Slots, NEW d \in CallType, PageCallOK(d),
           call' = [call EXCEPT ![s] = d]
    PROVE  /\ CallTypes' /\ call'[s] = d
           /\ \A t \in Slots \ {s} : call'[t] = call[t]
  <1>1. /\ call' \in [Slots -> CallType] /\ call'[s] = d
        /\ \A t \in Slots \ {s} : call'[t] = call[t]
    BY DEF PageTypes, CallTypes
  <1>2. \A t \in Slots : PageCallOK(call'[t])
    BY <1>1 DEF PageTypes, CallTypes
  <1> QED BY <1>1, <1>2 DEF CallTypes, PageCallOK

LEMMA CallsStay == ASSUME PageTypes, call' = call PROVE CallTypes'
  BY DEF PageTypes, CallTypes, PageCallOK

LEMMA BeginTypes ==
    ASSUME PageTypes, NEW s \in Slots, NEW p \in Page!Pages, NEW row \in Rows \cup {None},
           NEW op \in {"login", "list", "detail", "submit", "create"},
           op \in {"detail", "submit", "create"} => row # None,
           op = "create" => p # "users", op = "login" => p = "tenants",
           Page!Begin(s, op, p, row)
    PROVE  CallTypes' /\ loading' \in BOOLEAN
  <1>1. PICK d : d = Page!Request(op, p, row)
    OBVIOUS
  <1>2. d \in CallType /\ d.op = op /\ d.page = p /\ d.row = row
    BY <1>1, RequestFields
  <1>3. PageCallOK(d)
    BY <1>2 DEF PageCallOK
  <1> QED BY <1>1, <1>2, <1>3, CallTo DEF Page!Begin, PageTypes, SessionTypes

\* A call that goes on as op, about a row.
LEMMA ContinueTypes ==
    ASSUME PageTypes, NEW s \in Slots, NEW row \in Rows \cup {None},
           NEW op \in {"list", "detail", "context"},
           op \in {"detail", "context"} => row # None,
           op = "context" => call[s].page = "users",
           Page!Continue(s, op, row)
    PROVE  /\ CallTypes' /\ call' = [call EXCEPT ![s] = call'[s]]
           /\ call'[s].op = op /\ call'[s].row = row /\ call'[s].page = call[s].page
           /\ call'[s].open = call[s].open
  <1>1. PICK d : d = [call[s] EXCEPT !.op = op, !.row = row]
    OBVIOUS
  <1>2. call \in [Slots -> CallType] /\ call[s] \in CallType
    BY DEF PageTypes, CallTypes
  <1>3. /\ d \in CallType /\ d.op = op /\ d.row = row /\ d.page = call[s].page
        /\ d.open = call[s].open
    BY <1>1, <1>2 DEF CallType
  <1>4. PageCallOK(d)
    BY <1>3 DEF PageCallOK
  <1>5. call' = [call EXCEPT ![s] = d]
    BY <1>1, <1>2 DEF Page!Continue
  <1> QED BY <1>3, <1>4, <1>5, CallTo

LEMMA FinishTypes ==
    ASSUME PageTypes, NEW s \in Slots, Page!Finish(s)
    PROVE  CallTypes' /\ loading' \in BOOLEAN /\ call'[s] = Page!NoCall
  BY NoCallIsACall, CallTo DEF Page!Finish, PageTypes, SessionTypes

LEMMA ShowTypes ==
    ASSUME PagesListRows, PageTypes, NEW p \in Page!Pages, NEW rows \in Answers[p] \cup {<<>>},
           NEW chosen, chosen \in Page!Ids(rows) \cup {None} \/ (p = "webhooks" /\ chosen \in Rows),
           Page!Show(p, rows, chosen)
    PROVE  SelectionTypes'
  <1>1. rows \in Seq(Rows)
    BY EmptyIsListed DEF PagesListRows
  <1>2. Page!Ids(rows) \subseteq Rows
    BY <1>1, FirstIsListed
  <1> QED BY <1>1, <1>2 DEF Page!Show, PageTypes, SelectionTypes

LEMMA SignOutTypes ==
    ASSUME PagesListRows, PageTypes, Page!SignOut
    PROVE  /\ SelectionTypes' /\ DetailTypes' /\ token' = FALSE /\ auth' = FALSE
           /\ list'["users"] = <<>> /\ sel'["users"] = None /\ detail'["users"] = None
  <1>1. {"users", "tenants"} \subseteq Page!Pages
    BY PageNames
  <1> QED BY <1>1, EmptyIsListed DEF Page!SignOut, Page!Cleared, PageTypes, SelectionTypes,
             DetailTypes

LEMMA ClickTypes == ASSUME PageTypes, Page!Click PROVE patient' \in BOOLEAN
  BY DEF Page!Click, PageTypes, SessionTypes

LEMMA SessionStays ==
    ASSUME PageTypes, UNCHANGED <<tour, token, auth, view>>, loading' \in BOOLEAN, patient' \in BOOLEAN
    PROVE  SessionTypes'
  BY DEF PageTypes, SessionTypes

LEMMA DataStays == ASSUME PageTypes, UNCHANGED Page!data PROVE SelectionTypes' /\ DetailTypes'
  BY DEF PageTypes, SelectionTypes, DetailTypes, Page!data

\* What an answer does that lists rows of page p, of which chosen is selected.
RowsAnswer(s, p, rows, chosen, empty, again) ==
    /\ again => p = "webhooks" /\ call[s].row # None
    /\ Page!Listing(s, p)
    /\ Page!Show(p, rows, IF again THEN call[s].row ELSE chosen)
    /\ detail' = IF empty THEN [detail EXCEPT ![p] = None] ELSE detail
    /\ pane' = IF empty THEN [pane EXCEPT ![p] = FALSE] ELSE pane
    /\ IF again THEN Page!Continue(s, "detail", call[s].row) /\ UNCHANGED loading
       ELSE Page!Finish(s)
    /\ UNCHANGED <<tour, Page!session, view, patient>>

LEMMA RowsListedCases ==
    ASSUME NEW s \in Slots, Page!RowsListed(s)
    PROVE  \E p \in Page!Updated, empty \in BOOLEAN, again \in BOOLEAN : \E rows, chosen :
               /\ rows \in Answers[p] /\ chosen \in Page!Kept(s, p, rows)
               /\ RowsAnswer(s, p, rows, chosen, empty, again)
  <1>1. PICK p \in Page!Updated : \E rows \in Answers[p] : \E chosen \in Page!Kept(s, p, rows) :
            LET empty == rows = <<>> /\ p \in {"fraud", "webhooks"}
                again == /\ p = "webhooks"
                         /\ call[s].row # None
                         /\ call[s].open
                         /\ call[s].held = call[s].row
            IN  RowsAnswer(s, p, rows, chosen, empty, again)
    BY DEF Page!RowsListed, RowsAnswer
  <1>2. PICK rows, chosen, empty, again :
            /\ empty \in BOOLEAN /\ again \in BOOLEAN
            /\ rows \in Answers[p] /\ chosen \in Page!Kept(s, p, rows)
            /\ RowsAnswer(s, p, rows, chosen, empty, again)
    BY <1>1
  <1> QED BY <1>2

LEMMA PageTypesStep == ASSUME PagesListRows, PageTypes, Page!Next PROVE PageTypes'
  <1> USE DEF PageTypes
  <1>0. None \in Rows \cup {None} /\ loading \in BOOLEAN /\ patient \in BOOLEAN
    BY DEF SessionTypes
  <1>1. CASE Page!Logout
    BY <1>0, <1>1, SignOutTypes, CallsStay, ClickTypes DEF Page!Logout, SessionTypes
  <1>2. CASE Page!ClosePane
    <2>1. view \in Page!Pages
      BY <1>2 DEF Page!ClosePane, SessionTypes
    <2>2. Page!First(list[view]) \in Rows \cup {None}
      BY <2>1, SelectedIsListed, FirstIsListed
    <2>3. DetailTypes'
      BY <1>2, <2>1, <2>2 DEF Page!ClosePane, DetailTypes
    <2>4. SelectionTypes'
      BY <1>2, <2>1 DEF Page!ClosePane, SelectionTypes
    <2> QED BY <1>0, <1>2, <2>3, <2>4, CallsStay, ClickTypes, SessionStays DEF Page!ClosePane,
               Page!session
  <1>3. ASSUME NEW s \in Slots, Page!Login(s) PROVE PageTypes'
    BY <1>3, BeginTypes, ClickTypes, SessionStays, DataStays, PageNames DEF Page!Login, Page!session
  <1>4. ASSUME NEW s \in Slots, Page!Refresh(s) PROVE PageTypes'
    <2>1. SessionTypes'
      BY <1>4 DEF Page!Refresh, SessionTypes
    <2>2. SelectionTypes' /\ DetailTypes'
      BY <1>4, EmptyIsListed DEF Page!Refresh, SelectionTypes, DetailTypes
    <2>3. PICK d : d = [Page!NoCall EXCEPT !.op = "list", !.page = "tenants"]
      OBVIOUS
    <2>4. d \in CallType /\ PageCallOK(d)
      BY <2>3, NoCallIsACall, PageNames DEF Page!NoCall, CallType, PageCallOK
    <2>5. CallTypes'
      BY <1>4, <2>3, <2>4, NoCallIsACall DEF Page!Refresh, CallTypes, PageCallOK
    <2> QED BY <2>1, <2>2, <2>5
  <1>5. ASSUME NEW s \in Slots, Page!LoadAgain(s) PROVE PageTypes'
    <2>1. view \in Page!Pages
      BY <1>5 DEF Page!LoadAgain, SessionTypes
    <2> QED BY <1>5, <2>1, BeginTypes, ClickTypes, SessionStays, DataStays DEF Page!LoadAgain,
               Page!session
  <1>6. ASSUME NEW s \in Slots, Page!Submit(s) PROVE PageTypes'
    <2>1. view \in Page!Pages /\ Page!Target(view) # None
      BY <1>6 DEF Page!Submit, Page!MaySubmit, SessionTypes
    <2>2. Page!Target(view) \in Rows \cup {None}
      BY <2>1, SelectedIsListed DEF Page!Target
    <2> QED BY <1>6, <2>1, <2>2, BeginTypes, ClickTypes, SessionStays, DataStays
      DEF Page!Submit, Page!session
  <1>7. ASSUME NEW s \in Slots, Page!Create(s) PROVE PageTypes'
    <2>1. PICK row \in Rows : Page!Begin(s, "create", view, row)
      BY <1>7 DEF Page!Create
    <2>2. view \in Page!Pages /\ view # "users" /\ row # None
      BY <1>7, <2>1, PageNames DEF Page!Create, PagesListRows
    <2> QED BY <1>7, <2>1, <2>2, BeginTypes, ClickTypes, SessionStays, DataStays
      DEF Page!Create, Page!session
  <1>8. ASSUME NEW s \in Slots, NEW p \in Page!Pages, Page!Visit(s, p) PROVE PageTypes'
    <2>1. CallTypes' /\ loading' \in BOOLEAN
      BY <1>0, <1>8, BeginTypes, CallsStay DEF Page!Visit
    <2>2. SessionTypes'
      BY <1>8, <2>1, ClickTypes DEF Page!Visit, SessionTypes, Page!session
    <2> QED BY <1>8, <2>1, <2>2, DataStays DEF Page!Visit
  <1>9. ASSUME NEW s \in Slots, NEW row \in Rows, Page!OpenRow(s, row) PROVE PageTypes'
    <2>1. view \in Page!Pages /\ row # None
      BY <1>9 DEF Page!OpenRow, SessionTypes, PagesListRows
    <2>2. CallTypes' /\ loading' \in BOOLEAN
      BY <1>0, <1>9, <2>1, BeginTypes, CallsStay DEF Page!OpenRow
    <2>3. SelectionTypes'
      BY <1>9, <2>1 DEF Page!OpenRow, SelectionTypes
    <2>4. DetailTypes'
      BY <1>9, <2>1 DEF Page!OpenRow, DetailTypes
    <2> QED BY <1>9, <2>2, <2>3, <2>4, ClickTypes, SessionStays DEF Page!OpenRow, Page!session
  <1>10. ASSUME NEW s \in Slots, Page!LoggedIn(s) PROVE PageTypes'
    <2>1. PICK t \in Slots :
              /\ t # s
              /\ call' = Page!Reload([call EXCEPT ![s] = Page!Request("list", "tenants", None)], t, view)
      BY <1>10 DEF Page!LoggedIn
    <2>2. PICK d, e : d = Page!Request("list", "tenants", None) /\ e = Page!Request("list", view, None)
      OBVIOUS
    <2>3. d \in CallType /\ PageCallOK(d) /\ (view # "home" => e \in CallType /\ PageCallOK(e))
      BY <1>0, <2>2, RequestFields, PageNames DEF PageCallOK, SessionTypes
    <2>4. call' = [call EXCEPT ![s] = d] \/ (view # "home" /\ call' = [call EXCEPT ![s] = d, ![t] = e])
      BY <2>1, <2>2 DEF Page!Reload
    <2>5. CallTypes'
      BY <2>3, <2>4 DEF CallTypes, PageCallOK
    <2> QED BY <1>10, <2>5, DataStays DEF Page!LoggedIn, SessionTypes
  <1>11. ASSUME NEW s \in Slots, Page!LoginRefused(s) PROVE PageTypes'
    BY <1>11, FinishTypes, DataStays DEF Page!LoginRefused, SessionTypes
  <1>12. ASSUME NEW s \in Slots, Page!UsersListed(s) PROVE PageTypes'
    <2>1. PICK rows, chosen :
              /\ rows \in Answers["users"]
              /\ chosen = IF call[s].held \in Page!Ids(rows) THEN call[s].held ELSE Page!First(rows)
              /\ Page!Listing(s, "users") /\ Page!Show("users", rows, chosen)
              /\ IF call[s].open /\ chosen # None
                 THEN Page!Continue(s, "context", chosen) /\ UNCHANGED <<detail, loading>>
                 ELSE Page!Finish(s) /\ detail' = [detail EXCEPT !["users"] = None]
      BY <1>12 DEF Page!UsersListed
    <2>2. "users" \in Page!Pages /\ rows \in Seq(Rows)
      BY <2>1, PageNames DEF PagesListRows
    <2>3. chosen \in Page!Ids(rows) \cup {None} /\ chosen \in Rows \cup {None}
      BY <2>1, <2>2, FirstIsListed
    <2>4. SelectionTypes'
      BY <2>1, <2>2, <2>3, ShowTypes
    <2>5. CallTypes' /\ loading' \in BOOLEAN
      BY <1>0, <2>1, <2>3, ContinueTypes, FinishTypes DEF Page!Listing
    <2>6. DetailTypes'
      BY <1>12, <2>1, <2>2 DEF DetailTypes, Page!UsersListed
    <2> QED BY <1>0, <1>12, <2>4, <2>5, <2>6, SessionStays DEF Page!UsersListed, Page!session
  <1>13. ASSUME NEW s \in Slots, Page!UsersFailed(s) PROVE PageTypes'
    <2>1. SelectionTypes' /\ DetailTypes'
      BY <1>13, ShowTypes, PageNames DEF Page!UsersFailed, DetailTypes
    <2> QED BY <1>0, <1>13, <2>1, FinishTypes, SessionStays DEF Page!UsersFailed, Page!session
  <1>14. ASSUME NEW s \in Slots, Page!RowsListed(s) PROVE PageTypes'
    <2>0. PICK p \in Page!Updated, empty \in BOOLEAN, again \in BOOLEAN : \E rows, chosen :
              /\ rows \in Answers[p] /\ chosen \in Page!Kept(s, p, rows)
              /\ RowsAnswer(s, p, rows, chosen, empty, again)
      BY <1>14, RowsListedCases
    <2>1. PICK rows, chosen :
              /\ rows \in Answers[p] /\ chosen \in Page!Kept(s, p, rows)
              /\ RowsAnswer(s, p, rows, chosen, empty, again)
      BY <2>0
    <2>2. p \in Page!Pages /\ rows \in Seq(Rows) /\ call[s].row \in Rows \cup {None}
      BY <2>1, PageNames DEF PagesListRows, CallTypes, CallType
    <2>3. chosen \in Page!Ids(rows) \cup {None}
      BY <2>1, <2>2, FirstIsListed DEF Page!Kept
    <2>4. SelectionTypes'
      BY <2>1, <2>2, <2>3, ShowTypes DEF RowsAnswer
    <2>5. CallTypes' /\ loading' \in BOOLEAN
      BY <1>0, <2>1, <2>2, ContinueTypes, FinishTypes DEF RowsAnswer
    <2>6. DetailTypes'
      BY <2>1, <2>2 DEF DetailTypes, RowsAnswer
    <2> QED BY <1>0, <1>14, <2>4, <2>5, <2>6, SessionStays DEF Page!RowsListed, Page!session
  <1>15. ASSUME NEW s \in Slots, Page!RowsFailed(s) PROVE PageTypes'
    <2>1. PICK p \in Page!Updated :
              \/ Page!Show(p, <<>>, None)
              \/ UNCHANGED <<list, sel>>
      BY <1>15 DEF Page!RowsFailed
    <2>2. SelectionTypes'
      BY <2>1, ShowTypes, PageNames DEF SelectionTypes
    <2>3. DetailTypes'
      BY <1>15 DEF Page!RowsFailed, DetailTypes
    <2> QED BY <1>0, <1>15, <2>2, <2>3, FinishTypes, SessionStays DEF Page!RowsFailed, Page!session
  <1>16. ASSUME NEW s \in Slots, Page!TenantsListed(s) PROVE PageTypes'
    <2>1. PICK rows, chosen, d :
              /\ rows \in Answers["tenants"]
              /\ chosen = IF sel["tenants"] \in Page!Ids(rows) THEN sel["tenants"] ELSE None
              /\ Page!Show("tenants", rows, chosen)
              /\ detail' = IF rows = <<>> THEN detail
                           ELSE [detail EXCEPT !["tenants"] =
                                    IF chosen = None THEN Page!First(rows) ELSE chosen]
              /\ d \in {Page!Request("list", view, None), Page!NoCall}
              /\ d # Page!NoCall => view \in Page!Updated
              /\ call' = [call EXCEPT ![s] = d]
      BY <1>16 DEF Page!TenantsListed
    <2>2. "tenants" \in Page!Pages /\ rows \in Seq(Rows) /\ chosen \in Page!Ids(rows) \cup {None}
      BY <2>1, PageNames DEF PagesListRows
    <2>3. SelectionTypes'
      BY <2>1, <2>2, ShowTypes
    <2>4. DetailTypes'
      BY <1>16, <2>1, <2>2, FirstIsListed DEF DetailTypes, Page!TenantsListed
    <2>5. d \in CallType /\ PageCallOK(d)
      BY <1>0, <2>1, NoCallIsACall, RequestFields, PageNames DEF PageCallOK
    <2>6. CallTypes'
      BY <2>1, <2>5, CallTo
    <2> QED BY <1>16, <2>3, <2>4, <2>6 DEF Page!TenantsListed, SessionTypes
  <1>17. ASSUME NEW s \in Slots, Page!TenantsFailed(s) PROVE PageTypes'
    <2>1. CallTypes' /\ loading' \in BOOLEAN
      BY <1>17, FinishTypes DEF Page!TenantsFailed
    <2>2. CASE Page!SignOut /\ patient' \in BOOLEAN
      BY <1>17, <2>1, <2>2, SignOutTypes DEF Page!TenantsFailed, SessionTypes
    <2>3. CASE Page!Show("tenants", <<>>, None) /\ UNCHANGED <<Page!session, detail, pane, patient>>
      <3>1. SelectionTypes' /\ DetailTypes'
        BY <2>3, ShowTypes, PageNames DEF DetailTypes
      <3> QED BY <1>17, <2>1, <2>3, <3>1 DEF Page!TenantsFailed, SessionTypes, Page!session
    <2> QED BY <1>0, <1>17, <2>2, <2>3 DEF Page!TenantsFailed
  <1>18. ASSUME NEW s \in Slots, Page!DetailAnswered(s) PROVE PageTypes'
    <2>1. call[s].row \in Rows \cup {None} /\ call[s].page \in Page!Pages
      BY DEF CallTypes, CallType
    <2>2. DetailTypes'
      BY <1>18, <2>1 DEF Page!DetailAnswered, DetailTypes
    <2>3. SelectionTypes'
      BY <1>18 DEF Page!DetailAnswered, SelectionTypes
    <2> QED BY <1>0, <1>18, <2>2, <2>3, FinishTypes, SessionStays DEF Page!DetailAnswered,
               Page!session
  <1>19. ASSUME NEW s \in Slots, Page!DetailFailed(s) PROVE PageTypes'
    BY <1>0, <1>19, FinishTypes, SessionStays, DataStays DEF Page!DetailFailed, Page!session
  <1>20. ASSUME NEW s \in Slots, Page!Submitted(s) PROVE PageTypes'
    <2>1. /\ call[s].row \in Rows \cup {None} /\ call[s].page \in Page!Pages /\ call[s].row # None
      BY <1>20 DEF CallTypes, CallType, PageCallOK, Page!Submitted, Page!Submits
    <2>2. CallTypes'
      BY <1>20, <2>1, ContinueTypes DEF Page!Submitted
    <2>3. DetailTypes'
      BY <1>20, <2>1, PageNames DEF Page!Submitted, DetailTypes
    <2>4. SelectionTypes'
      BY <1>20, FirstIsListed, PageNames DEF Page!Submitted, Page!Added, SelectionTypes
    <2> QED BY <1>0, <1>20, <2>2, <2>3, <2>4, SessionStays DEF Page!Submitted, Page!session
  <1>21. ASSUME NEW s \in Slots, Page!SubmitFailed(s) PROVE PageTypes'
    BY <1>0, <1>21, FinishTypes, SessionStays, DataStays DEF Page!SubmitFailed, Page!session
  <1> QED
    BY <1>1, <1>2, <1>3, <1>4, <1>5, <1>6, <1>7, <1>8, <1>9, <1>10, <1>11, <1>12, <1>13, <1>14,
       <1>15, <1>16, <1>17, <1>18, <1>19, <1>20, <1>21 DEF Page!Next, Page!Answered

-----------------------------------------------------------------------------
(* The page of the users.                                                  *)

UsersStay ==
    /\ list'["users"] = list["users"] /\ sel'["users"] = sel["users"]
    /\ detail'["users"] = detail["users"] /\ pane'["users"] = pane["users"]

LEMMA UsersCallsAreFlagged ==
    ASSUME NEW c
    PROVE  /\ OfUsers(c) => Page!Flagged(c)
           /\ c.op \in {"login", "detail", "context", "submit", "create"} => Page!Flagged(c)
           /\ c.op = "list" /\ c.page \in {"users", "tenants"} => Page!Flagged(c)
           /\ c.op = "list" /\ c.row = None /\ c.page \in Page!Updated => ~Page!Flagged(c)
  BY PageNames DEF OfUsers, Page!Flagged

LEMMA SelectedStays == UsersStay => Page!Selected("users")' = Page!Selected("users") /\ (Shown => Shown')
  BY DEF UsersStay, Page!Selected, Shown

LEMMA KnowsStays ==
    ASSUME UsersStay, NEW c, Knows(c), loading' = loading \/ detail["users"] = None
    PROVE  Knows(c)'
  <1>1. Page!Selected("users")' = Page!Selected("users")
    BY SelectedStays
  <1> QED BY <1>1 DEF Knows, UsersStay

\* A login is out alone, and with no user shown.
LEMMA LoginIsAlone ==
    ASSUME PageTypes, PatientInv, NEW s \in Slots, call[s].op = "login"
    PROVE  /\ detail["users"] = None
           /\ \A t \in Slots \ {s} : ~Page!Flagged(call[t]) /\ ~OfUsers(call[t])
           /\ \A t \in Slots : call[t].op # "context"
  <1>1. Page!Flagged(call[s]) /\ ~OfUsers(call[s])
    BY UsersCallsAreFlagged DEF PageTypes, CallTypes, PageCallOK, OfUsers
  <1>2. \A t \in Slots \ {s} : ~Page!Flagged(call[t])
    <2>1. \A t \in Slots \ {s} : ~Paired(s, t)
      BY <1>1 DEF Paired, LoadPair
    <2> QED BY <1>1, <2>1 DEF PatientInv
  <1>3. \A t \in Slots \ {s} : ~OfUsers(call[t]) /\ call[t].op # "context"
    BY <1>2, UsersCallsAreFlagged
  <1> QED BY <1>2, <1>3 DEF PatientInv

\* An answer to a call of another page.
LEMMA OtherCall ==
    ASSUME PageTypes, PatientInv, NEW s \in Slots, NEW d,
           call' \in [Slots -> CallType], call' = [call EXCEPT ![s] = d],
           ~OfUsers(call[s]), ~OfUsers(d), d.op \notin {"login", "context"},
           Page!Flagged(d) => Page!Flagged(call[s]) /\ (call[s].op = "list" => call[s].page # "tenants"),
           loading' = loading \/ Page!Flagged(call[s]),
           auth' = auth \/ auth' = TRUE \/ call[s].op = "login",
           UsersStay
    PROVE  PatientInv'
  <1>1. call'[s] = d /\ \A t \in Slots \ {s} : call'[t] = call[t]
    BY DEF PageTypes, CallTypes
  <1>2. \A t \in Slots : Knows(call[t])'
    <2>1. ASSUME NEW t \in Slots, OfUsers(call'[t]) PROVE Knows(call[t])'
      <3>1. t # s /\ call'[t] = call[t] /\ OfUsers(call[t]) /\ Page!Flagged(call[t])
        BY <1>1, <2>1, UsersCallsAreFlagged
      <3>2. loading' = loading \/ detail["users"] = None
        BY <3>1 DEF PatientInv, Paired, LoadPair
      <3>3. PICK c : c = call[t]
        OBVIOUS
      <3>4. Knows(c)
        BY <3>3 DEF PatientInv
      <3>5. Knows(c)'
        BY <3>2, <3>4, KnowsStays
      <3> QED BY <3>1, <3>3, <3>5 DEF Knows, OfUsers
    <2> QED BY <2>1 DEF Knows, OfUsers
  <1>3. ASSUME NEW t \in Slots, NEW u \in Slots, t # u, Page!Flagged(call'[t]), Page!Flagged(call'[u])
        PROVE  Paired(t, u)'
    <2>1. Page!Flagged(call[t]) /\ Page!Flagged(call[u])
      BY <1>1, <1>3
    <2>2. Paired(t, u)
      BY <1>3, <2>1 DEF PatientInv
    <2>3. t # s /\ u # s
      BY <1>1, <1>3, <2>2 DEF Paired, LoadPair
    <2> QED BY <1>1, <2>2, <2>3 DEF Paired, LoadPair, UsersStay, OfUsers
  <1>4. (\A t \in Slots : call'[t].op # "context") => Shown'
    <2>1. ASSUME \A t \in Slots : call'[t].op # "context"
          PROVE  \A t \in Slots : call[t].op # "context"
      BY <1>1, <2>1 DEF PageTypes, CallTypes, PageCallOK, OfUsers
    <2> QED BY <2>1, SelectedStays DEF PatientInv
  <1>5. CASE call[s].op = "login"
    <2>1. detail'["users"] = None /\ \A t \in Slots : ~OfUsers(call'[t])
      BY <1>1, <1>5, LoginIsAlone DEF UsersStay
    <2> QED BY <1>2, <1>3, <1>4, <2>1 DEF PatientInv, Page!Flagged, OfUsers
  <1>6. CASE call[s].op # "login"
    <2>1. ~auth' => detail'["users"] = None /\ \A t \in Slots : ~OfUsers(call'[t])
      BY <1>1, <1>6 DEF PatientInv, UsersStay
    <2>2. (\E t \in Slots : call'[t].op = "login") => detail'["users"] = None
      BY <1>1 DEF PatientInv, UsersStay
    <2> QED BY <1>2, <1>3, <1>4, <2>1, <2>2 DEF PatientInv, Page!Flagged, OfUsers
  <1> QED BY <1>5, <1>6

LEMMA FinishFlag ==
    ASSUME PageTypes, NEW s \in Slots, Page!Finish(s)
    PROVE  /\ call' = [call EXCEPT ![s] = Page!NoCall]
           /\ loading' = loading \/ Page!Flagged(call[s])
  BY DEF Page!Finish, PageTypes, SessionTypes

\* No call that sets loading is out.
Quiet == \A s \in Slots : ~Page!Flagged(call[s])

LEMMA QuietState ==
    ASSUME PageTypes, PatientInv, Quiet
    PROVE  /\ Shown /\ (~auth => detail["users"] = None)
           /\ \A s \in Slots : ~OfUsers(call[s]) /\ call[s].op \notin {"login", "context"}
  <1>1. \A s \in Slots : ~OfUsers(call[s]) /\ call[s].op \notin {"login", "context"}
    BY UsersCallsAreFlagged DEF Quiet
  <1> QED BY <1>1 DEF PatientInv

LEMMA ClickOnly ==
    ASSUME PageTypes, PatientInv, Quiet, call' = call,
           Shown', ~auth' => detail'["users"] = None
    PROVE  PatientInv'
  <1>1. \A s \in Slots : ~OfUsers(call'[s]) /\ call'[s].op \notin {"login", "context"} /\ ~Page!Flagged(call'[s])
    BY QuietState DEF Quiet
  <1> QED BY <1>1 DEF PatientInv, Knows, OfUsers, Page!Flagged

LEMMA ClickCall ==
    ASSUME PageTypes, PatientInv, Quiet, NEW s \in Slots, NEW d,
           call' \in [Slots -> CallType], call' = [call EXCEPT ![s] = d],
           Knows(d)', Shown', d.op # "context",
           ~auth' => detail'["users"] = None /\ ~OfUsers(d),
           d.op = "login" => detail'["users"] = None
    PROVE  PatientInv'
  <1>1. call'[s] = d /\ \A t \in Slots \ {s} : call'[t] = call[t]
    BY DEF PageTypes, CallTypes
  <1>2. \A t \in Slots \ {s} :
            ~OfUsers(call'[t]) /\ call'[t].op \notin {"login", "context"} /\ ~Page!Flagged(call'[t])
    BY <1>1, QuietState DEF Quiet
  <1>3. \A t \in Slots : Knows(call[t])'
    <2>1. Knows(call[s])'
      BY <1>1 DEF Knows, OfUsers
    <2> QED BY <1>2, <2>1 DEF Knows, OfUsers
  <1>4. \A t, u \in Slots : t # u /\ Page!Flagged(call'[t]) /\ Page!Flagged(call'[u]) => Paired(t, u)'
    BY <1>2
  <1>5. ~auth' => detail'["users"] = None /\ \A t \in Slots : ~OfUsers(call'[t])
    BY <1>1, <1>2
  <1>6. (\E t \in Slots : call'[t].op = "login") => detail'["users"] = None
    BY <1>1, <1>2
  <1> QED BY <1>3, <1>4, <1>5, <1>6 DEF PatientInv, Page!Flagged, OfUsers

\* Besides a call of the page of the users, only a load of the tenants sets loading.
LEMMA UsersCallIsAlone ==
    ASSUME PageTypes, PatientInv, NEW s \in Slots, OfUsers(call[s])
    PROVE  /\ auth
           /\ \A t \in Slots \ {s} :
                 /\ ~OfUsers(call[t]) /\ call[t].op \notin {"login", "context"}
                 /\ Page!Flagged(call[t]) => LoadPair(call[s], call[t])
           /\ \A t, u \in Slots \ {s} : t # u => ~Page!Flagged(call[t]) \/ ~Page!Flagged(call[u])
           /\ call[s].op # "context" => Shown
  <1>1. auth
    BY DEF PatientInv
  <1>2. Page!Flagged(call[s])
    BY UsersCallsAreFlagged
  <1>3. ASSUME NEW t \in Slots, t # s, Page!Flagged(call[t]) PROVE LoadPair(call[s], call[t])
    <2>1. Paired(s, t)
      BY <1>2, <1>3 DEF PatientInv
    <2> QED BY <2>1 DEF Paired, LoadPair, OfUsers
  <1>4. \A t \in Slots \ {s} : ~OfUsers(call[t]) /\ call[t].op \notin {"login", "context"}
    BY <1>3, UsersCallsAreFlagged DEF LoadPair, OfUsers
  <1>5. ASSUME NEW t \in Slots \ {s}, NEW u \in Slots \ {s}, t # u, Page!Flagged(call[t]), Page!Flagged(call[u])
        PROVE  FALSE
    <2>1. Paired(t, u)
      BY <1>5 DEF PatientInv
    <2> QED BY <1>4, <2>1 DEF Paired, LoadPair
  <1>6. call[s].op # "context" => Shown
    BY <1>4 DEF PatientInv
  <1> QED BY <1>1, <1>3, <1>4, <1>5, <1>6

LEMMA UsersCall ==
    ASSUME PageTypes, PatientInv, NEW s \in Slots, NEW d, OfUsers(call[s]),
           call' \in [Slots -> CallType], call' = [call EXCEPT ![s] = d],
           d = Page!NoCall \/ OfUsers(d), d.op # "login", Knows(d)', d.op # "context" => Shown',
           OfUsers(d) /\ call[s].op \in {"list", "context"} =>
              d.op \in {"list", "context"} /\ detail'["users"] = detail["users"],
           auth' = auth
    PROVE  PatientInv'
  <1>1. call'[s] = d /\ \A t \in Slots \ {s} : call'[t] = call[t]
    BY DEF PageTypes, CallTypes
  <1>2. auth'
    BY UsersCallIsAlone
  <1>3. \A t \in Slots \ {s} : ~OfUsers(call'[t]) /\ call'[t].op \notin {"login", "context"}
    BY <1>1, UsersCallIsAlone
  <1>4. \A t \in Slots : Knows(call[t])'
    <2>1. Knows(call[s])'
      BY <1>1 DEF Knows, OfUsers
    <2> QED BY <1>3, <2>1 DEF Knows, OfUsers
  <1>5. ASSUME NEW t \in Slots, t # s, Page!Flagged(call'[t]), Page!Flagged(d)
        PROVE  LoadPair(d, call[t])'
    <2>1. LoadPair(call[s], call[t]) /\ OfUsers(d)
      BY <1>1, <1>5, UsersCallIsAlone, NoCallIsACall
    <2> QED BY <1>1, <1>5, <2>1 DEF LoadPair, OfUsers
  <1>6. ASSUME NEW t \in Slots, NEW u \in Slots, t # u, Page!Flagged(call'[t]), Page!Flagged(call'[u])
        PROVE  Paired(t, u)'
    <2>1. t = s \/ u = s
      BY <1>1, <1>6, UsersCallIsAlone
    <2>2. CASE t = s
      BY <1>1, <1>5, <1>6, <2>2 DEF Paired, LoadPair, OfUsers
    <2>3. CASE u = s
      BY <1>1, <1>5, <1>6, <2>3 DEF Paired, LoadPair, OfUsers
    <2> QED BY <2>1, <2>2, <2>3
  <1>7. (\A t \in Slots : call'[t].op # "context") => Shown'
    BY <1>1
  <1>8. ~\E t \in Slots : call'[t].op = "login"
    BY <1>1, <1>3
  <1> QED BY <1>2, <1>4, <1>6, <1>7, <1>8 DEF PatientInv, Page!Flagged, OfUsers

\* The user selected after one was chosen among the users listed.
LEMMA ChosenIsSelected ==
    ASSUME PageTypes, NEW rows, NEW chosen, Page!Show("users", rows, chosen)
    PROVE  /\ list'["users"] = rows
           /\ chosen \in Page!Ids(rows) => Page!Selected("users")' = chosen
  <1>1. list'["users"] = rows /\ sel'["users"] = chosen
    BY PageNames DEF Page!Show, PageTypes, SelectionTypes
  <1> QED BY <1>1 DEF Page!Selected

Typed ==
    /\ list \in [Page!Pages -> Seq(Rows)] /\ sel \in [Page!Pages -> Rows \cup {None}]
    /\ detail \in [Page!Pages -> Rows \cup {None}] /\ pane \in [Page!Pages -> BOOLEAN]
    /\ "users" \in Page!Pages

LEMMA PagesAreTyped == PageTypes => Typed
  BY PageNames DEF PageTypes, SelectionTypes, DetailTypes, Typed

\* A click that begins a call, or none, and leaves the page of the users alone
\* begins only what it knows.
LEMMA KnowsRequest ==
    ASSUME PageTypes, NEW op \in {"list", "submit"}, NEW p \in Page!Pages, NEW row, NEW d,
           d = Page!Request(op, p, row), Shown,
           op = "submit" /\ p = "users" =>
              row = Page!Selected("users") /\ pane["users"] /\ list["users"] # <<>>,
           loading' = (loading \/ Page!Flagged(d)), UsersStay
    PROVE  Knows(d)' /\ Shown' /\ d.op = op /\ d.page = p
  <1>1. d.op = op /\ d.page = p /\ d.row = row /\ d.open = pane[p]
    BY RequestFields
  <1>2. OfUsers(d) => loading'
    BY UsersCallsAreFlagged
  <1>3. Knows(d)'
    BY <1>1, <1>2, SelectedStays DEF Knows, UsersStay, OfUsers
  <1> QED BY <1>1, <1>3, SelectedStays

\* The clicks.
LEMMA ClickStep ==
    ASSUME PagesListRows, PageTypes, PageTypes', PatientInv, Quiet,
           \/ Page!Logout \/ Page!ClosePane
           \/ \E s \in Slots :
                 \/ Page!Login(s) \/ Page!LoadAgain(s) \/ Page!Submit(s) \/ Page!Create(s)
                 \/ \E p \in Page!Pages : Page!Visit(s, p)
                 \/ \E row \in Rows : Page!OpenRow(s, row)
    PROVE  PatientInv'
  <1>1. call' \in [Slots -> CallType] /\ "users" \in Page!Pages
    BY PageNames DEF PageTypes, CallTypes
  <1>2. Shown /\ (~auth => detail["users"] = None)
    BY QuietState
  <1>3. UsersStay => Shown'
    BY <1>2, SelectedStays
  <1>4. CASE Page!Logout
    BY <1>4, ClickOnly, SignOutTypes DEF Page!Logout, Shown
  <1>5. CASE Page!ClosePane
    <2>1. view \in Page!Pages /\ auth
      BY <1>5 DEF Page!ClosePane, Page!PaneShown, PageTypes, SessionTypes
    <2>2. CASE view = "users"
      <3>1. detail'["users"] = None
        BY <1>1, <1>5, <2>2 DEF Page!ClosePane, PageTypes, DetailTypes
      <3> QED BY <1>5, <3>1, ClickOnly DEF Shown, Page!ClosePane
    <2>3. CASE view # "users"
      <3>1. Typed
        BY PagesAreTyped
      <3>2. detail'["users"] = detail["users"]
        BY <1>5, <2>1, <2>3, <3>1 DEF Page!ClosePane, Typed
      <3>3. UsersStay
        BY <1>5, <2>1, <2>3, <3>1, <3>2 DEF Page!ClosePane, Typed, UsersStay
      <3>4. auth' = auth /\ call' = call
        BY <1>5 DEF Page!ClosePane, Page!session
      <3> QED BY <1>3, <2>1, <3>3, <3>4, ClickOnly
    <2> QED BY <2>2, <2>3
  <1>6. ASSUME NEW s \in Slots, Page!Login(s) PROVE PatientInv'
    <2>1. PICK d : d = Page!Request("login", "tenants", None)
      OBVIOUS
    <2>2. d.op = "login" /\ d.page = "tenants"
      BY <2>1, RequestFields
    <2>3. UsersStay /\ call' = [call EXCEPT ![s] = d]
      BY <1>6, <2>1 DEF Page!Login, Page!Begin, Page!data, UsersStay
    <2>4. detail'["users"] = None
      BY <1>2, <1>6, <2>3 DEF Page!Login, UsersStay
    <2> QED BY <1>1, <1>3, <2>2, <2>3, <2>4, ClickCall DEF Knows, OfUsers
  <1>7. ASSUME NEW s \in Slots, Page!LoadAgain(s) PROVE PatientInv'
    <2>1. PICK d : d = Page!Request("list", view, None)
      OBVIOUS
    <2>2. UsersStay /\ call' = [call EXCEPT ![s] = d] /\ loading' = (loading \/ Page!Flagged(d))
      BY <1>7, <2>1 DEF Page!LoadAgain, Page!Begin, Page!data, UsersStay
    <2>3. view \in Page!Pages /\ auth'
      BY <1>7 DEF Page!LoadAgain, PageTypes, SessionTypes, Page!session
    <2>4. Knows(d)' /\ Shown' /\ d.op = "list"
      BY <1>2, <2>1, <2>2, <2>3, KnowsRequest
    <2> QED BY <1>1, <2>2, <2>3, <2>4, ClickCall
  <1>8. ASSUME NEW s \in Slots, Page!Submit(s) PROVE PatientInv'
    <2>1. PICK d : d = Page!Request("submit", view, Page!Target(view))
      OBVIOUS
    <2>2. UsersStay /\ call' = [call EXCEPT ![s] = d] /\ loading' = (loading \/ Page!Flagged(d))
      BY <1>8, <2>1 DEF Page!Submit, Page!Begin, Page!data, UsersStay
    <2>3. view \in Page!Pages
      BY <1>8 DEF Page!Submit, PageTypes, SessionTypes
    <2>4. auth' /\ (view = "users" => pane["users"] /\ list["users"] # <<>>)
      BY <1>8 DEF Page!Submit, Page!MaySubmit, Page!PaneShown, Page!session
    <2>5. view = "users" => Page!Target(view) = Page!Selected("users")
      BY DEF Page!Target
    <2>6. Knows(d)' /\ Shown' /\ d.op = "submit"
      BY <1>2, <2>1, <2>2, <2>3, <2>4, <2>5, KnowsRequest
    <2> QED BY <1>1, <2>2, <2>4, <2>6, ClickCall
  <1>9. ASSUME NEW s \in Slots, Page!Create(s) PROVE PatientInv'
    <2>1. PICK row, d : row \in Rows /\ Page!Begin(s, "create", view, row) /\ d = Page!Request("create", view, row)
      BY <1>9 DEF Page!Create
    <2>2. d.op = "create" /\ d.page = view /\ view # "users"
      BY <1>9, <2>1, RequestFields, PageNames DEF Page!Create
    <2>3. UNCHANGED Page!data /\ UNCHANGED Page!session /\ auth
      BY <1>9 DEF Page!Create
    <2>4. UsersStay /\ call' = [call EXCEPT ![s] = d] /\ auth'
      BY <2>1, <2>3 DEF Page!Begin, Page!data, Page!session, UsersStay
    <2> QED BY <1>1, <1>3, <2>2, <2>4, ClickCall DEF Knows, OfUsers
  <1>10. ASSUME NEW s \in Slots, NEW p \in Page!Pages, Page!Visit(s, p) PROVE PatientInv'
    <2>1. UsersStay /\ auth'
      BY <1>10 DEF Page!Visit, Page!data, Page!session, UsersStay
    <2>2. CASE UNCHANGED <<call, loading>>
      BY <1>3, <2>1, <2>2, ClickOnly
    <2>3. CASE Page!Begin(s, "list", p, None)
      <3>1. PICK d : d = Page!Request("list", p, None)
        OBVIOUS
      <3>2. call' = [call EXCEPT ![s] = d] /\ loading' = (loading \/ Page!Flagged(d))
        BY <2>3, <3>1 DEF Page!Begin
      <3>3. Knows(d)' /\ Shown' /\ d.op = "list"
        BY <1>2, <2>1, <3>1, <3>2, KnowsRequest
      <3> QED BY <1>1, <2>1, <3>2, <3>3, ClickCall
    <2> QED BY <1>10, <2>2, <2>3 DEF Page!Visit
  <1>11. ASSUME NEW s \in Slots, NEW row \in Rows, Page!OpenRow(s, row) PROVE PatientInv'
    <2>1. auth /\ auth' /\ view \in Page!Pages
      BY <1>11 DEF Page!OpenRow, Page!session, PageTypes, SessionTypes
    <2>2. CASE view = "users"
      <3>1. PICK d : d = Page!Request("detail", "users", row)
        OBVIOUS
      <3>2. d.op = "detail" /\ d.page = "users" /\ d.row = row
        BY <3>1, RequestFields
      <3>3. call' = [call EXCEPT ![s] = d]
        BY <1>11, <2>2, <3>1 DEF Page!OpenRow, Page!Begin
      <3>4. row \in Page!Ids(list["users"]) /\ list["users"] # <<>> /\ list' = list
        BY <1>1, <1>11, <2>2, FirstIsListed DEF Page!OpenRow, PageTypes, SelectionTypes
      <3>5. detail["users"] = None
        BY <1>2, <1>11, <2>1, <2>2, <3>4 DEF Page!OpenRow, Page!PaneShown, Shown
      <3>6. sel'["users"] = row /\ pane'["users"] /\ detail'["users"] = None
        BY <1>1, <1>11, <2>2, <3>5 DEF Page!OpenRow, PageTypes, SelectionTypes, DetailTypes
      <3>7. Page!Selected("users")' = row
        BY <3>4, <3>6 DEF Page!Selected
      <3>8. Knows(d)' /\ Shown'
        BY <3>2, <3>4, <3>6, <3>7 DEF Knows, Shown
      <3> QED BY <1>1, <2>1, <3>2, <3>3, <3>8, ClickCall
    <2>3. CASE view # "users"
      <3>1. UsersStay
        <4>1. Typed
          BY PagesAreTyped
        <4>2. detail'["users"] = detail["users"] /\ pane'["users"] = pane["users"]
          BY <1>11, <2>1, <2>3, <4>1 DEF Page!OpenRow, Typed
        <4> QED BY <1>11, <2>1, <2>3, <4>1, <4>2 DEF Page!OpenRow, Typed, UsersStay
      <3>2. CASE UNCHANGED <<call, loading>>
        BY <1>3, <2>1, <3>1, <3>2, ClickOnly
      <3>3. CASE Page!Begin(s, "detail", view, row)
        <4>1. PICK d : d = Page!Request("detail", view, row)
          OBVIOUS
        <4>2. d.op = "detail" /\ d.page = view /\ call' = [call EXCEPT ![s] = d]
          BY <3>3, <4>1, RequestFields DEF Page!Begin
        <4> QED BY <1>1, <1>3, <2>1, <2>3, <3>1, <4>2, ClickCall DEF Knows, OfUsers
      <3> QED BY <1>11, <3>2, <3>3 DEF Page!OpenRow
    <2> QED BY <2>2, <2>3
  <1> QED BY <1>4, <1>5, <1>6, <1>7, <1>8, <1>9, <1>10, <1>11

LEMMA RefreshStep ==
    ASSUME PagesListRows, PageTypes', NEW s \in Slots, Page!Refresh(s)
    PROVE  PatientInv'
  <1>1. PICK d : d = [Page!NoCall EXCEPT !.op = "list", !.page = "tenants"]
    OBVIOUS
  <1>2. d.op = "list" /\ d.page = "tenants"
    BY <1>1 DEF Page!NoCall
  <1>3. call'[s] = d /\ \A t \in Slots \ {s} : call'[t] = Page!NoCall
    BY <1>1 DEF Page!Refresh
  <1>4. \A t \in Slots : ~OfUsers(call'[t]) /\ call'[t].op \notin {"login", "context"}
    BY <1>2, <1>3, NoCallIsACall DEF OfUsers
  <1>5. \A t \in Slots \ {s} : ~Page!Flagged(call'[t])
    BY <1>3, NoCallIsACall
  <1>6. auth' /\ detail'["users"] = None
    BY PageNames DEF Page!Refresh
  <1> QED BY <1>4, <1>5, <1>6 DEF PatientInv, Knows, Shown, OfUsers, Page!Flagged

LEMMA LoggedInStep ==
    ASSUME PagesListRows, PageTypes, PageTypes', PatientInv, NEW s \in Slots, Page!LoggedIn(s)
    PROVE  PatientInv'
  <1>1. PICK t \in Slots :
            /\ t # s /\ Page!Idle(t)
            /\ call' = Page!Reload([call EXCEPT ![s] = Page!Request("list", "tenants", None)], t, view)
    BY DEF Page!LoggedIn
  <1>2. PICK d, e : d = Page!Request("list", "tenants", None) /\ e = Page!Request("list", view, None)
    OBVIOUS
  <1>3. d.op = "list" /\ d.page = "tenants" /\ e.op = "list" /\ e.page = view
    BY <1>2, RequestFields
  <1>4. e.row = None /\ e.open = pane[view]
    BY <1>2, RequestFields
  <1>5. UsersStay /\ auth' /\ loading'
    BY DEF Page!LoggedIn, Page!data, UsersStay
  <1>6. /\ detail["users"] = None /\ detail'["users"] = None
        /\ \A u \in Slots \ {s} : ~Page!Flagged(call[u]) /\ ~OfUsers(call[u])
        /\ \A u \in Slots : call[u].op # "context"
    BY <1>5, LoginIsAlone DEF Page!LoggedIn, UsersStay
  <1>7. /\ call'[s] = d
        /\ \A u \in Slots \ {s, t} : call'[u] = call[u]
        /\ call'[t] = call[t] \/ (view # "home" /\ call'[t] = e)
    BY <1>1, <1>2 DEF Page!Reload, PageTypes, CallTypes
  <1>8. \A u \in Slots \ {s, t} : ~Page!Flagged(call'[u]) /\ ~OfUsers(call'[u]) /\ call'[u].op # "context"
    BY <1>6, <1>7
  <1>9. /\ ~OfUsers(call'[s]) /\ call'[s].op \notin {"login", "context"}
        /\ call'[t].op \notin {"login", "context"}
    BY <1>1, <1>3, <1>6, <1>7 DEF OfUsers, Page!Idle
  <1>10. \A u \in Slots : Knows(call[u])'
    <2>1. Knows(e)'
      BY <1>3, <1>4, <1>5 DEF Knows, UsersStay, OfUsers
    <2>2. Knows(call[t])'
      BY <1>6, <1>7, <1>1, <2>1 DEF Knows, OfUsers
    <2> QED BY <1>8, <1>9, <2>2 DEF Knows, OfUsers
  <1>11. Page!Flagged(call'[t]) => LoadPair(call[t], call[s])'
    <2>1. ASSUME Page!Flagged(call'[t]) PROVE call'[t] = e /\ view = "users"
      <3>1. call'[t] = e /\ view # "home"
        BY <1>1, <1>6, <1>7, <2>1
      <3>2. view \in Page!Pages /\ view # "tenants"
        <4>1. view = "tenants" => call'[t] = call[t]
          BY <1>1, <1>7 DEF Page!Reload, PageTypes, CallTypes
        <4> QED BY <1>1, <1>6, <2>1, <3>1, <4>1 DEF PageTypes, SessionTypes
      <3> QED BY <1>3, <1>4, <2>1, <3>1, <3>2, UsersCallsAreFlagged, PageNames
    <2> QED BY <1>3, <1>6, <1>7, <2>1 DEF LoadPair, OfUsers
  <1>12. \A u, v \in Slots : u # v /\ Page!Flagged(call'[u]) /\ Page!Flagged(call'[v]) => Paired(u, v)'
    <2>1. ASSUME NEW u \in Slots, NEW v \in Slots, u # v, Page!Flagged(call'[u]), Page!Flagged(call'[v])
          PROVE  (u = s /\ v = t) \/ (u = t /\ v = s)
      BY <1>8, <2>1
    <2> QED BY <1>11, <2>1 DEF Paired
  <1>13. \A u \in Slots : call'[u].op # "login"
    <2>1. \A u \in Slots \ {s, t} : call'[u].op # "login"
      BY <1>6, <1>7, UsersCallsAreFlagged
    <2> QED BY <1>9, <2>1
  <1> QED BY <1>5, <1>6, <1>10, <1>12, <1>13 DEF PatientInv, Shown, Page!Flagged, OfUsers

LEMMA AnswerStep ==
    ASSUME PagesListRows, PageTypes, PageTypes', PatientInv, patient', NEW s \in Slots,
           Page!Answered(s)
    PROVE  PatientInv'
  <1>1. call' \in [Slots -> CallType] /\ Typed /\ call \in [Slots -> CallType]
    BY PagesAreTyped DEF PageTypes, CallTypes
  <1>2. PageCallOK(call[s]) /\ call[s] \in CallType
    BY DEF PageTypes, CallTypes
  <1>3. CASE Page!LoginRefused(s)
    <2>1. /\ call[s].op = "login" /\ ~OfUsers(call[s]) /\ UsersStay
          /\ call' = [call EXCEPT ![s] = Page!NoCall] /\ (loading' = loading \/ Page!Flagged(call[s]))
      BY <1>2, <1>3, FinishFlag DEF Page!LoginRefused, UsersStay, Page!data, OfUsers, PageCallOK
    <2> QED BY <1>1, <2>1, OtherCall, NoCallIsACall
  <1>4. CASE Page!UsersListed(s)
    <2>1. PICK rows, chosen :
              /\ rows \in Answers["users"]
              /\ chosen = IF call[s].held \in Page!Ids(rows) THEN call[s].held ELSE Page!First(rows)
              /\ Page!Listing(s, "users") /\ Page!Show("users", rows, chosen)
              /\ IF call[s].open /\ chosen # None
                 THEN Page!Continue(s, "context", chosen) /\ UNCHANGED <<detail, loading>>
                 ELSE Page!Finish(s) /\ detail' = [detail EXCEPT !["users"] = None]
      BY <1>4 DEF Page!UsersListed
    <2>2. rows \in Seq(Rows)
      BY <1>1, <2>1 DEF PagesListRows, Typed
    <2>3. /\ OfUsers(call[s]) /\ call[s].op = "list" /\ auth' = auth /\ pane' = pane
          /\ call[s].page = "users"
      BY <1>4, <2>1 DEF Page!Listing, OfUsers, Page!UsersListed, Page!session
    <2>4. CASE call[s].open /\ chosen # None
      <3>1. PICK d : d = call'[s]
        OBVIOUS
      <3>2. chosen \in Page!Ids(rows) /\ rows # <<>> /\ chosen \in Rows \cup {None}
        BY <2>1, <2>2, <2>4, FirstIsListed
      <3>3. /\ call' = [call EXCEPT ![s] = d] /\ d.op = "context" /\ d.row = chosen
            /\ d.page = "users" /\ detail' = detail /\ loading' = loading
        BY <2>1, <2>3, <2>4, <3>1, <3>2, ContinueTypes
      <3>4. Page!Selected("users")' = chosen /\ list'["users"] = rows
        BY <2>1, <3>2, ChosenIsSelected
      <3>5. pane["users"] /\ (loading \/ detail["users"] = None)
        BY <2>3, <2>4 DEF PatientInv, Knows
      <3>6. Knows(d)'
        BY <2>3, <3>2, <3>3, <3>4, <3>5 DEF Knows
      <3> QED BY <1>1, <2>3, <3>3, <3>6, UsersCall DEF OfUsers
    <2>5. CASE ~(call[s].open /\ chosen # None)
      <3>1. detail'["users"] = None /\ call' = [call EXCEPT ![s] = Page!NoCall]
        BY <1>1, <2>1, <2>5 DEF Page!Finish, Typed
      <3> QED BY <1>1, <2>3, <3>1, UsersCall, NoCallIsACall DEF Knows, Shown
    <2> QED BY <2>4, <2>5
  <1>5. CASE Page!UsersFailed(s)
    <2>1. OfUsers(call[s]) /\ auth' = auth /\ call' = [call EXCEPT ![s] = Page!NoCall]
      BY <1>2, <1>5 DEF Page!UsersFailed, Page!Listing, OfUsers, PageCallOK, Page!session,
         Page!Finish
    <2>2. detail'["users"] = None
      BY <1>1, <1>5 DEF Page!UsersFailed, Typed
    <2> QED BY <1>1, <2>1, <2>2, UsersCall, NoCallIsACall DEF Knows, Shown
  <1>6. CASE Page!RowsListed(s)
    <2>1. PICK p \in Page!Updated, empty \in BOOLEAN, again \in BOOLEAN : \E rows, chosen :
              /\ rows \in Answers[p] /\ chosen \in Page!Kept(s, p, rows)
              /\ RowsAnswer(s, p, rows, chosen, empty, again)
      BY <1>6, RowsListedCases
    <2>2. PICK rows, chosen : RowsAnswer(s, p, rows, chosen, empty, again)
      BY <2>1
    <2>3. p \in Page!Pages /\ p # "users" /\ p # "tenants" /\ call[s].op = "list" /\ call[s].page = p
      BY <2>2, PageNames DEF RowsAnswer, Page!Listing
    <2>4. UsersStay
      BY <1>1, <2>2, <2>3 DEF UsersStay, Typed, RowsAnswer, Page!Show
    <2>5. CASE again
      <3>1. PICK d : d = call'[s]
        OBVIOUS
      <3>2. call[s].row # None /\ call[s].row \in Rows \cup {None}
        BY <1>2, <2>2, <2>5 DEF RowsAnswer, CallType
      <3>3. call' = [call EXCEPT ![s] = d] /\ d.op = "detail" /\ d.page = p /\ loading' = loading
        BY <2>2, <2>3, <2>5, <3>1, <3>2, ContinueTypes DEF RowsAnswer
      <3>4. Page!Flagged(call[s])
        BY <2>3, <3>2 DEF Page!Flagged
      <3> QED BY <1>1, <1>6, <2>3, <2>4, <3>3, <3>4, OtherCall DEF OfUsers, Page!RowsListed,
                 Page!session
    <2>6. CASE ~again
      <3>1. Page!Finish(s)
        BY <2>2, <2>6 DEF RowsAnswer
      <3>2. auth' = auth /\ call' = [call EXCEPT ![s] = Page!NoCall]
             /\ (loading' = loading \/ Page!Flagged(call[s]))
        BY <1>1, <1>6, <3>1 DEF Page!RowsListed, Page!session, Page!Finish, PageTypes, SessionTypes
      <3> QED BY <1>1, <2>3, <2>4, <3>2, OtherCall, NoCallIsACall DEF OfUsers
    <2> QED BY <2>5, <2>6
  <1>7. CASE Page!RowsFailed(s)
    <2>1. PICK p \in Page!Updated :
              /\ call[s].op = "list" /\ call[s].page = p
              /\ Page!Show(p, <<>>, None) \/ UNCHANGED <<list, sel>>
      BY <1>7 DEF Page!RowsFailed, Page!Listing
    <2>2. p \in Page!Pages /\ p # "users" /\ p # "tenants"
      BY PageNames
    <2>3. UsersStay
      BY <1>1, <1>7, <2>1, <2>2 DEF UsersStay, Typed, Page!RowsFailed, Page!Show
    <2>4. /\ auth' = auth /\ call' = [call EXCEPT ![s] = Page!NoCall]
          /\ (loading' = loading \/ Page!Flagged(call[s]))
      BY <1>7 DEF Page!RowsFailed, Page!session, Page!Finish, PageTypes, SessionTypes
    <2> QED BY <1>1, <2>1, <2>2, <2>3, <2>4, OtherCall, NoCallIsACall DEF OfUsers
  <1>8. CASE Page!TenantsListed(s)
    <2>1. PICK rows, chosen, d :
              /\ Page!Show("tenants", rows, chosen)
              /\ \/ detail' = detail
                 \/ detail' = [detail EXCEPT !["tenants"] =
                                  IF chosen = None THEN Page!First(rows) ELSE chosen]
              /\ d \in {Page!Request("list", view, None), Page!NoCall}
              /\ d # Page!NoCall => view \in Page!Updated
              /\ call' = [call EXCEPT ![s] = d]
              /\ Page!Listing(s, "tenants") /\ auth' = TRUE /\ pane' = pane
      BY <1>8 DEF Page!TenantsListed
    <2>2. ~Page!Flagged(d) /\ ~OfUsers(d) /\ d.op \notin {"login", "context"}
      BY <2>1, RequestFields, UsersCallsAreFlagged, NoCallIsACall, PageNames DEF OfUsers
    <2>3. detail'["users"] = detail["users"]
      BY <1>1, <2>1 DEF Typed
    <2>4. UsersStay
      BY <1>1, <2>1, <2>3, PageNames DEF UsersStay, Typed, Page!Show
    <2>5. Page!Flagged(call[s]) /\ ~OfUsers(call[s])
      BY <2>1, UsersCallsAreFlagged DEF Page!Listing, OfUsers
    <2> QED BY <1>1, <2>1, <2>2, <2>4, <2>5, OtherCall
  <1>9. CASE Page!TenantsFailed(s)
    <2>1. /\ call' = [call EXCEPT ![s] = Page!NoCall] /\ ~OfUsers(call[s])
          /\ Page!Flagged(call[s]) /\ call'[s] = Page!NoCall
      BY <1>1, <1>9, UsersCallsAreFlagged DEF Page!TenantsFailed, Page!Listing, OfUsers, Page!Finish
    <2>2. CASE /\ Page!SignOut
               /\ patient' = (patient /\ \A t \in Slots \ {s} : ~Page!Flagged(call[t]))
      <3>1. \A t \in Slots : ~Page!Flagged(call'[t])
        BY <1>1, <2>1, <2>2, NoCallIsACall
      <3>2. \A t \in Slots : ~OfUsers(call'[t]) /\ call'[t].op \notin {"login", "context"}
        BY <3>1, UsersCallsAreFlagged
      <3>3. detail'["users"] = None
        BY <2>2, SignOutTypes
      <3> QED BY <3>1, <3>2, <3>3 DEF PatientInv, Knows, Shown, OfUsers, Page!Flagged
    <2>3. CASE Page!Show("tenants", <<>>, None) /\ UNCHANGED <<Page!session, detail, pane, patient>>
      <3>1. UsersStay
        BY <1>1, <2>3, PageNames DEF UsersStay, Typed, Page!Show
      <3>2. auth' = auth
        BY <2>3 DEF Page!session
      <3> QED BY <1>1, <2>1, <3>1, <3>2, OtherCall, NoCallIsACall
    <2> QED BY <1>9, <2>2, <2>3 DEF Page!TenantsFailed
  <1>10. CASE Page!DetailAnswered(s)
    <2>1. /\ call[s].op \in {"detail", "context"} /\ auth' = auth
          /\ call' = [call EXCEPT ![s] = Page!NoCall] /\ list' = list /\ sel' = sel
          /\ (loading' = loading \/ Page!Flagged(call[s]))
          /\ call[s].page \in Page!Pages
      BY <1>2, <1>10, FinishFlag DEF Page!DetailAnswered, Page!session, CallType
    <2>2. CASE call[s].page = "users"
      <3>1. OfUsers(call[s])
        BY <2>1, <2>2 DEF OfUsers
      <3>2. call[s].row = Page!Selected("users") /\ pane["users"] /\ list["users"] # <<>>
        BY <2>1, <3>1 DEF PatientInv, Knows
      <3>3. detail'["users"] = call[s].row /\ pane' = pane
        BY <1>1, <1>10, <2>2 DEF Page!DetailAnswered, Typed
      <3>4. Page!Selected("users")' = Page!Selected("users")
        BY <2>1 DEF Page!Selected
      <3> QED BY <1>1, <2>1, <3>1, <3>2, <3>3, <3>4, UsersCall, NoCallIsACall DEF Knows, Shown
    <2>3. CASE call[s].page # "users"
      <3>1. UsersStay
        BY <1>1, <1>10, <2>1, <2>3 DEF UsersStay, Typed, Page!DetailAnswered
      <3> QED BY <1>1, <2>1, <2>3, <3>1, OtherCall, NoCallIsACall DEF OfUsers
    <2> QED BY <2>2, <2>3
  <1>11. CASE Page!DetailFailed(s) \/ Page!SubmitFailed(s)
    <2>1. /\ call[s].op \in {"detail", "submit", "create"} /\ auth' = auth
          /\ call' = [call EXCEPT ![s] = Page!NoCall] /\ UsersStay
          /\ (loading' = loading \/ Page!Flagged(call[s]))
      BY <1>11, FinishFlag DEF Page!DetailFailed, Page!SubmitFailed, Page!Submits, Page!session,
         Page!data, UsersStay
    <2>2. CASE OfUsers(call[s])
      <3>1. Shown'
        BY <2>1, <2>2, UsersCallIsAlone, SelectedStays
      <3> QED BY <1>1, <2>1, <2>2, <3>1, UsersCall, NoCallIsACall DEF Knows
    <2>3. CASE ~OfUsers(call[s])
      BY <1>1, <2>1, <2>3, OtherCall, NoCallIsACall
    <2> QED BY <2>2, <2>3
  <1>12. CASE Page!Submitted(s)
    <2>1. /\ call[s].op \in {"submit", "create"} /\ auth' = auth /\ list' = list
          /\ loading' = loading /\ call[s].row \in Rows \cup {None} /\ call[s].row # None
          /\ call[s].page \in Page!Pages
      BY <1>2, <1>12 DEF Page!Submitted, Page!Submits, Page!session, CallType, PageCallOK
    <2>2. PICK d : d = call'[s]
      OBVIOUS
    <2>3. /\ call' = [call EXCEPT ![s] = d] /\ d.row = call[s].row /\ d.page = call[s].page
          /\ d.op = IF call[s].page = "users" THEN "detail" ELSE "list"
      BY <1>12, <2>1, <2>2, ContinueTypes DEF Page!Submitted
    <2>4. UsersStay
      <3>1. detail'["users"] = detail["users"]
        BY <1>1, <1>12 DEF Page!Submitted, Typed
      <3>2. pane'["users"] = pane["users"]
        BY <1>1, <1>2, <1>12 DEF Page!Submitted, Typed, PageCallOK
      <3>3. sel'["users"] = sel["users"]
        BY <1>1, <1>12 DEF Page!Submitted, Typed
      <3> QED BY <2>1, <3>1, <3>2, <3>3 DEF UsersStay
    <2>5. CASE OfUsers(call[s])
      <3>1. Shown'
        BY <2>1, <2>4, <2>5, UsersCallIsAlone, SelectedStays
      <3>2. call[s].op = "submit"
        BY <1>2, <2>1, <2>5 DEF OfUsers, PageCallOK
      <3>3. Knows(d)'
        <4>1. call[s].row = Page!Selected("users") /\ pane["users"] /\ list["users"] # <<>>
          BY <2>5, <3>2 DEF PatientInv, Knows
        <4> QED BY <2>3, <2>4, <2>5, <4>1, SelectedStays DEF Knows, UsersStay, OfUsers
      <3> QED BY <1>1, <2>1, <2>3, <2>5, <3>1, <3>3, UsersCall DEF OfUsers
    <2>6. CASE ~OfUsers(call[s])
      <3>1. Page!Flagged(call[s]) /\ call[s].page # "users"
        BY <2>1, <2>6, UsersCallsAreFlagged DEF OfUsers
      <3> QED BY <1>1, <2>1, <2>3, <2>4, <2>6, <3>1, OtherCall DEF OfUsers
    <2> QED BY <2>5, <2>6
  <1>13. CASE Page!LoggedIn(s)
    BY <1>13, LoggedInStep
  <1> QED BY <1>3, <1>4, <1>5, <1>6, <1>7, <1>8, <1>9, <1>10, <1>11, <1>12, <1>13 DEF Page!Answered

LEMMA PageInductive ==
    ASSUME PagesListRows, PageInv, Page!Next \/ UNCHANGED Page!vars
    PROVE  PageInv'
  <1>1. CASE UNCHANGED Page!vars
    <2>1. UNCHANGED <<tour, token, auth, view, loading, list, sel, detail, pane, call, patient>>
      BY <1>1 DEF Page!vars, Page!session, Page!data
    <2> QED BY <2>1 DEF PageInv, PageTypes, SessionTypes, SelectionTypes, DetailTypes, CallTypes,
        PageCallOK, PatientInv, Knows, OfUsers, Paired, LoadPair, Shown, Page!Selected, Page!Flagged
  <1>2. CASE Page!Next
    <2>1. PageTypes /\ PageTypes'
      BY <1>2, PageTypesStep DEF PageInv
    <2>2. SUFFICES ASSUME patient' PROVE PatientInv'
      BY <2>1 DEF PageInv
    <2>3. CASE \E s \in Slots : Page!Refresh(s)
      BY <2>1, <2>3, RefreshStep
    <2>4. CASE \/ Page!Logout \/ Page!ClosePane
               \/ \E s \in Slots :
                     \/ Page!Login(s) \/ Page!LoadAgain(s) \/ Page!Submit(s) \/ Page!Create(s)
                     \/ \E p \in Page!Pages : Page!Visit(s, p)
                     \/ \E row \in Rows : Page!OpenRow(s, row)
      <3>1. Page!Click
        BY <2>4 DEF Page!Logout, Page!ClosePane, Page!Login, Page!LoadAgain, Page!Submit,
           Page!Create, Page!Visit, Page!OpenRow
      <3> QED BY <2>1, <2>2, <2>4, <3>1, ClickStep DEF Page!Click, PageInv, Quiet
    <2>5. CASE \E s \in Slots : Page!Answered(s)
      <3>1. PICK s \in Slots : Page!Answered(s)
        BY <2>5
      <3>2. patient
        BY <2>2, <3>1 DEF Page!Answered, Page!LoggedIn, Page!LoginRefused, Page!UsersListed,
           Page!UsersFailed, Page!RowsListed,
           Page!RowsFailed, Page!TenantsListed, Page!TenantsFailed, Page!DetailAnswered,
           Page!DetailFailed, Page!Submitted,
           Page!SubmitFailed
      <3> QED BY <2>1, <2>2, <3>1, <3>2, AnswerStep DEF PageInv
    <2> QED BY <1>2, <2>3, <2>4, <2>5 DEF Page!Next
  <1> QED BY <1>1, <1>2

\* What the property of the steps needs of the invariant.
LEMMA ListingKeepsSelection ==
    ASSUME PageTypes, Page!Next \/ UNCHANGED Page!vars
    PROVE  Page!KeepsSelection
  <1>1. Typed
    BY PagesAreTyped
  <1>2. SUFFICES ASSUME NEW p \in Page!Updated, p # "webhooks", list'[p] # list[p], sel[p] \in Page!Ids(list'[p])
                 PROVE  sel'[p] = sel[p]
    BY DEF Page!KeepsSelection
  <1>3. p \in Page!Pages /\ p # "users" /\ p # "tenants" /\ list' # list
    BY <1>2, PageNames
  <1>4. ASSUME NEW q \in Page!Pages, NEW rows, NEW chosen, Page!Show(q, rows, chosen)
        PROVE  q = p /\ list'[p] = rows /\ sel'[p] = chosen
    BY <1>1, <1>2, <1>3, <1>4 DEF Page!Show, Typed
  <1>5. ASSUME Page!SignOut PROVE FALSE
    BY <1>1, <1>2, <1>3, <1>5 DEF Page!SignOut, Page!Cleared, Typed
  <1>6. PICK s \in Slots : Page!Refresh(s) \/ Page!Answered(s)
    <2>1. ~Page!Logout
      BY <1>5 DEF Page!Logout
    <2>2. ~Page!ClosePane /\ ~UNCHANGED Page!vars
      BY <1>3 DEF Page!ClosePane, Page!vars, Page!data
    <2>3. \A s \in Slots :
              /\ ~Page!Login(s) /\ ~Page!LoadAgain(s) /\ ~Page!Submit(s) /\ ~Page!Create(s)
              /\ \A q \in Page!Pages : ~Page!Visit(s, q)
              /\ \A row \in Rows : ~Page!OpenRow(s, row)
      BY <1>3 DEF Page!Login, Page!LoadAgain, Page!Submit, Page!Create, Page!Visit, Page!OpenRow,
         Page!data
    <2> QED BY <2>1, <2>2, <2>3 DEF Page!Next
  <1>7. CASE Page!Refresh(s)
    <2>1. list'[p] = <<>>
      BY <1>3, <1>7 DEF Page!Refresh
    <2> QED BY <1>2, <2>1 DEF Page!Ids
  <1>8. CASE Page!RowsListed(s)
    <2>1. PICK q \in Page!Updated, empty \in BOOLEAN, again \in BOOLEAN : \E rows, chosen :
              /\ rows \in Answers[q] /\ chosen \in Page!Kept(s, q, rows)
              /\ RowsAnswer(s, q, rows, chosen, empty, again)
      BY <1>8, RowsListedCases
    <2>2. PICK rows, chosen : chosen \in Page!Kept(s, q, rows) /\ RowsAnswer(s, q, rows, chosen, empty, again)
      BY <2>1
    <2>3. q \in Page!Pages /\ Page!Show(q, rows, IF again THEN call[s].row ELSE chosen)
      BY <2>2, PageNames DEF RowsAnswer
    <2>4. q = p /\ list'[p] = rows /\ sel'[p] = IF again THEN call[s].row ELSE chosen
      BY <1>4, <2>3
    <2>5. ~again
      BY <1>2, <2>2, <2>4 DEF RowsAnswer
    <2> QED BY <1>2, <2>2, <2>4, <2>5 DEF Page!Kept
  <1>9. CASE Page!RowsFailed(s)
    <2>1. PICK q \in Page!Updated : Page!Show(q, <<>>, None) \/ UNCHANGED <<list, sel>>
      BY <1>9 DEF Page!RowsFailed
    <2>2. list'[p] = <<>>
      BY <1>3, <1>4, <2>1, PageNames
    <2> QED BY <1>2, <2>2 DEF Page!Ids
  <1>10. CASE Page!UsersListed(s) \/ Page!UsersFailed(s) \/ Page!TenantsListed(s) \/ Page!TenantsFailed(s)
    <2>1. Page!SignOut \/ \E q \in {"users", "tenants"} : \E rows, chosen : Page!Show(q, rows, chosen)
      BY <1>10 DEF Page!UsersListed, Page!UsersFailed, Page!TenantsListed, Page!TenantsFailed
    <2> QED BY <1>3, <1>4, <1>5, <2>1, PageNames
  <1>11. ~Page!LoggedIn(s) /\ ~Page!LoginRefused(s) /\ ~Page!DetailAnswered(s) /\ ~Page!DetailFailed(s)
         /\ ~Page!Submitted(s) /\ ~Page!SubmitFailed(s)
    BY <1>3 DEF Page!LoggedIn, Page!LoginRefused, Page!DetailAnswered, Page!DetailFailed,
       Page!Submitted, Page!SubmitFailed, Page!data
  <1> QED BY <1>6, <1>7, <1>8, <1>9, <1>10, <1>11 DEF Page!Answered

-----------------------------------------------------------------------------
(* Books: invariant.                                                       *)

Adjusting == {"account", "create_account", "expense", "create_expense", "entry",
              "wallet", "create_wallet", "grant"}
Settling == {"open", "close", "open_sum", "close_sum"}
Begun == {n \in Book!Adjustments : adjustment[n] # Book!NoAdjustment}
AccountOf(n) == <<adjustment[n].user, adjustment[n].currency>>
Desks == [pc : {"idle"} \cup Adjusting \cup Settling, id : Book!Adjustments \cup Cycles \cup {None},
          todo : SUBSET (People \X Book!Currencies), sum : Nat, begun : SUBSET Book!Adjustments]

\* What each user is owed, as a snapshot counts it.
Debts == [u \in People |-> Book!Owed(<<u, Base>>)]

\* A snapshot has summed up the users listed but for those it still has to do;
\* everyone who has a posting is listed.
Counted(s) ==
    /\ s.begun \subseteq entries /\ s.todo \subseteq People \X {Base}
    /\ s.begun = entries =>
          \E listed \in SUBSET People :
              /\ \A n \in entries : adjustment[n].currency = Base => adjustment[n].user \in listed
              /\ \A u \in People : <<u, Base>> \in s.todo => u \in listed
              /\ s.sum = SumFunctionOnSet(Debts, {u \in listed : <<u, Base>> \notin s.todo})

DeskOK(s) ==
    /\ s.pc \in Adjusting => s.id \in Begun
    /\ s.pc \in Adjusting \ {"account", "create_account"} => AccountOf(s.id) \in accounts
    /\ s.pc \in Settling => s.id \in Cycles
    /\ s.pc \in {"open_sum", "close_sum"} => Counted(s)

BookTypes ==
    /\ accounts \subseteq People \X Book!Currencies /\ wallets \subseteq People
    /\ expenses \in [Book!Currencies -> Nat]
    /\ adjustment \in [Book!Adjustments -> Requests \cup {Book!NoAdjustment}]
    /\ entries \subseteq Book!Adjustments /\ grants \subseteq Book!Adjustments
    /\ reward \in [Rewarded -> {"none", "pending", "posted"}]
    /\ cycle \in [Cycles -> [status : {"none", "open", "closed"}, figure : Nat]]
    /\ desk \in [Admins -> Desks]
EntriesInv ==
    /\ Begun = 1..Cardinality(Begun)
    /\ entries \subseteq Begun
    /\ \A n \in entries : AccountOf(n) \in accounts
BookInv == BookTypes /\ EntriesInv /\ \A a \in Admins : DeskOK(desk[a])

LEMMA BookTypeParts == ASSUME BookInv PROVE Book!TypeOK
  <1>1. BookTypes
    BY DEF BookInv
  <1>2. \A n \in Book!Adjustments : adjustment[n] \in Requests \cup {Book!NoAdjustment}
    BY <1>1 DEF BookTypes
  <1>3. Desks = [pc : {"idle", "account", "create_account", "expense", "create_expense", "entry",
                 "wallet", "create_wallet", "grant", "open", "close", "open_sum",
                 "close_sum"},
           id : Book!Adjustments \cup Cycles \cup {None},
           todo : SUBSET (People \X Book!Currencies), sum : Nat,
           begun : SUBSET Book!Adjustments]
    BY DEF Desks, Adjusting, Settling
  <1> QED BY <1>1, <1>2, <1>3 DEF BookTypes, Book!TypeOK

LEMMA IdleIsADesk == BooksKnown => Book!Idle \in Desks /\ Book!Idle.pc = "idle" /\ DeskOK(Book!Idle)
  BY DEF Book!Idle, Desks, DeskOK, Adjusting, Settling

LEMMA AdjustmentsAreFinite ==
    ASSUME BooksKnown PROVE IsFiniteSet(Book!Adjustments)
  BY FS_Interval DEF BooksKnown, Book!Adjustments

-----------------------------------------------------------------------------
(* Books: sums.                                                            *)

Posted == [n \in Book!Adjustments |-> adjustment[n].amount]
PostedFor(u) == {n \in entries : AccountOf(n) = <<u, Base>>}

LEMMA BookSums ==
    ASSUME NEW f, NEW S
    PROVE  Book!SumFunctionOnSet(f, S) = SumFunctionOnSet(f, S)
  BY DEF Book!SumFunctionOnSet, Book!FoldFunctionOnSet, Book!MapThenFoldSet,
     SumFunctionOnSet, FoldFunctionOnSet, MapThenFoldSet

LEMMA BookCounts == ASSUME NEW S PROVE Book!Cardinality(S) = Cardinality(S)
  BY DEF Book!Cardinality, Cardinality

LEMMA BookMax == ASSUME NEW S PROVE Book!Max(S) = Max(S)
  BY DEF Book!Max, Max

\* Rewards are not in the currency of the tenant.
LEMMA BaseBalance ==
    ASSUME BooksKnown, BookTypes, EntriesInv, NEW u \in People
    PROVE  /\ Book!Balance(<<u, Base>>) = -SumFunctionOnSet(Posted, PostedFor(u))
           /\ Book!Balance(<<u, Base>>) \in Int
           /\ Debts[u] = Book!Owed(<<u, Base>>) /\ Debts[u] \in Nat
           /\ Max({0, -Book!Balance(<<u, Base>>)}) = Debts[u]
           /\ PostedFor(u) = {} => Debts[u] = 0
  <1>1. {w \in Rewarded : reward[w] = "posted" /\ <<w, Credit>> = <<u, Base>>} = {}
    BY DEF BooksKnown
  <1>2. \A n \in PostedFor(u) : Posted[n] \in Int
    BY DEF BooksKnown, BookTypes, EntriesInv, Begun, Posted, PostedFor
  <1>3. IsFiniteSet(PostedFor(u))
    BY AdjustmentsAreFinite, FS_Subset DEF BookTypes, PostedFor
  <1>4. SumFunctionOnSet(Posted, PostedFor(u)) \in Int
    BY <1>2, <1>3, SumIsInteger
  <1>5. Book!Balance(<<u, Base>>) = -(SumFunctionOnSet(Posted, PostedFor(u)) + 0)
    BY <1>1, BookSums, BookCounts, FS_EmptySet DEF Book!Balance, Posted, PostedFor, AccountOf
  <1>6. Debts[u] = Book!Owed(<<u, Base>>)
    BY DEF Debts
  <1> PICK b : b = Book!Balance(<<u, Base>>)
    OBVIOUS
  <1>7. b \in Int
    BY <1>4, <1>5
  <1>8. Max({0, -b}) = IF b < 0 THEN -b ELSE 0
    BY <1>7 DEF Max
  <1>9. PostedFor(u) = {} => b = 0
    BY <1>5, SumEmpty
  <1> QED BY <1>4, <1>5, <1>6, <1>7, <1>8, <1>9 DEF Book!Owed

BalancesKnown ==
    \A u \in People : Book!Balance(<<u, Base>>) = -SumFunctionOnSet(Posted, PostedFor(u))

LEMMA BaseBalances ==
    ASSUME BooksKnown PROVE BookTypes /\ EntriesInv => BalancesKnown
  BY BaseBalance DEF BalancesKnown

LEMMA BaseBalancesNext ==
    ASSUME BooksKnown PROVE BookTypes' /\ EntriesInv' => BalancesKnown'
  BY BaseBalances, PTL

LEMMA DebtsStay ==
    ASSUME BooksKnown, BookTypes, EntriesInv, BookTypes', EntriesInv', entries' = entries,
           \A n \in entries : adjustment'[n] = adjustment[n]
    PROVE  Debts' = Debts
  <1>1. ASSUME NEW u \in People PROVE Book!Owed(<<u, Base>>)' = Book!Owed(<<u, Base>>)
    <2>1. PostedFor(u)' = PostedFor(u)
      <3>1. PostedFor(u)' =
                {n \in entries : <<adjustment'[n].user, adjustment'[n].currency>> = <<u, Base>>}
        BY DEF PostedFor, AccountOf
      <3>2. PostedFor(u) =
                {n \in entries : <<adjustment[n].user, adjustment[n].currency>> = <<u, Base>>}
        BY DEF PostedFor, AccountOf
      <3> QED BY <3>1, <3>2
    <2>2. \A n \in PostedFor(u) : Posted'[n] = Posted[n]
      BY DEF PostedFor, Posted, BookTypes
    <2>3. IsFiniteSet(PostedFor(u))
      BY AdjustmentsAreFinite, FS_Subset DEF BookTypes, PostedFor
    <2>4. SumFunctionOnSet(Posted', PostedFor(u)) = SumFunctionOnSet(Posted, PostedFor(u))
      BY <2>2, <2>3, SumsAgree
    <2>5. Book!Balance(<<u, Base>>) = -SumFunctionOnSet(Posted, PostedFor(u))
      BY BaseBalance
    <2>6. Book!Balance(<<u, Base>>)' = -SumFunctionOnSet(Posted', PostedFor(u)')
      BY BaseBalancesNext DEF BalancesKnown
    <2> QED BY <2>1, <2>4, <2>5, <2>6 DEF Book!Owed
  <1> QED BY <1>1 DEF Debts

-----------------------------------------------------------------------------
(* Books: steps.                                                           *)

\* What other requests know stays true when rows are only added.
BookGrows ==
    /\ entries \subseteq entries' /\ accounts \subseteq accounts'
    /\ \A n \in Begun : adjustment'[n] = adjustment[n]

LEMMA DeskStays ==
    ASSUME BooksKnown, BookTypes, EntriesInv, BookTypes', EntriesInv', BookGrows,
           NEW s \in Desks, DeskOK(s)
    PROVE  DeskOK(s)'
  <1>1. \A n \in Begun : n \in Begun' /\ AccountOf(n)' = AccountOf(n)
    BY DEF BookGrows, Begun, AccountOf
  <1>2. ASSUME Counted(s) PROVE Counted(s)'
    <2>1. ASSUME s.begun = entries' PROVE entries' = entries /\ Debts' = Debts
      <3>1. entries' = entries
        BY <1>2, <2>1 DEF Counted, BookGrows
      <3>2. \A n \in entries : adjustment'[n] = adjustment[n]
        BY DEF EntriesInv, BookGrows
      <3> QED BY <3>1, <3>2, DebtsStay
    <2>2. \A n \in entries : adjustment'[n] = adjustment[n]
      BY DEF EntriesInv, BookGrows
    <2>3. CASE s.begun = entries'
      <3>1. PICK listed \in SUBSET People :
              /\ \A n \in entries : adjustment[n].currency = Base => adjustment[n].user \in listed
              /\ \A u \in People : <<u, Base>> \in s.todo => u \in listed
              /\ s.sum = SumFunctionOnSet(Debts, {u \in listed : <<u, Base>> \notin s.todo})
        BY <1>2, <2>1, <2>3 DEF Counted
      <3>2. \A n \in entries' : adjustment'[n].currency = Base => adjustment'[n].user \in listed
        BY <2>1, <2>2, <2>3, <3>1
      <3> QED BY <1>2, <2>1, <2>3, <3>1, <3>2 DEF Counted
    <2>4. CASE s.begun # entries'
      BY <1>2, <2>4 DEF Counted, BookGrows
    <2> QED BY <2>3, <2>4
  <1> QED BY <1>1, <1>2 DEF DeskOK, BookGrows

\* One request goes on, and rows may be added.
LEMMA BookMove ==
    ASSUME BooksKnown, BookInv, NEW a \in Admins, NEW s \in Desks,
           desk' = [desk EXCEPT ![a] = s], BookTypes', EntriesInv', BookGrows, DeskOK(s)'
    PROVE  BookInv'
  <1>1. desk'[a] = s /\ \A b \in Admins \ {a} : desk'[b] = desk[b] /\ desk[b] \in Desks
    BY DEF BookInv, BookTypes
  <1>2. ASSUME NEW b \in Admins, b # a PROVE DeskOK(desk[b])'
    <2> PICK t : t = desk[b]
      OBVIOUS
    <2>1. DeskOK(t)'
      BY <1>1, <1>2, DeskStays DEF BookInv
    <2>2. t = desk'[b]
      BY <1>1, <1>2
    <2> QED BY <2>1, <2>2 DEF DeskOK, Counted
  <1>3. DeskOK(desk[a])'
    BY <1>1 DEF DeskOK, Counted
  <1> QED BY <1>2, <1>3 DEF BookInv

\* One request goes on, and no row changes but that of a cycle.
LEMMA BookOnly ==
    ASSUME BooksKnown, BookInv, NEW a \in Admins, NEW s \in Desks,
           desk' = [desk EXCEPT ![a] = s], UNCHANGED <<Book!ledgerVars, Book!walletVars, cycle>>,
           DeskOK(s)
    PROVE  BookInv'
  <1>1. /\ accounts' = accounts /\ expenses' = expenses /\ wallets' = wallets
        /\ adjustment' = adjustment /\ entries' = entries /\ grants' = grants
        /\ reward' = reward /\ cycle' = cycle
    BY DEF Book!ledgerVars, Book!walletVars
  <1>2. desk' \in [Admins -> Desks]
    BY DEF BookInv, BookTypes
  <1>3. BookTypes' /\ EntriesInv' /\ BookGrows
    BY <1>1, <1>2 DEF BookInv, BookTypes, EntriesInv, Begun, AccountOf, BookGrows
  <1>4. DeskOK(s)'
    BY <1>3, DeskStays DEF BookInv
  <1> QED BY <1>3, <1>4, BookMove

\* A request that goes on, as pc, with what it has.
LEMMA GoesTo ==
    ASSUME BookInv, NEW a \in Admins, NEW pc \in Adjusting, Book!Goto(a, pc)
    PROVE  \E s \in Desks : /\ desk' = [desk EXCEPT ![a] = s]
                            /\ s = [desk[a] EXCEPT !.pc = pc]
                            /\ s.pc = pc /\ s.id = desk[a].id
  <1>1. PICK s : s = [desk[a] EXCEPT !.pc = pc]
    OBVIOUS
  <1>2. desk[a] \in Desks /\ desk \in [Admins -> Desks]
    BY DEF BookInv, BookTypes
  <1>3. s \in Desks /\ s.pc = pc /\ s.id = desk[a].id
    BY <1>1, <1>2 DEF Desks
  <1> QED BY <1>1, <1>2, <1>3 DEF Book!Goto

\* A request about an adjustment begun.
LEMMA MineIs ==
    ASSUME BooksKnown, BookInv, NEW a \in Admins, desk[a].pc \in Adjusting
    PROVE  /\ desk[a].id \in Begun /\ Book!Mine(a) = adjustment[desk[a].id]
           /\ Book!Mine(a).user \in People /\ Book!Mine(a).currency \in Book!Currencies
           /\ AccountOf(desk[a].id) = <<Book!Mine(a).user, Book!Mine(a).currency>>
           /\ desk[a].pc \notin {"account", "create_account"} => AccountOf(desk[a].id) \in accounts
  <1>1. desk[a].id \in Begun /\ DeskOK(desk[a])
    BY DEF BookInv, DeskOK
  <1>2. Book!Mine(a) \in Requests
    BY <1>1 DEF Book!Mine, Begun, BookInv, BookTypes
  <1> QED BY <1>1, <1>2 DEF BooksKnown, Book!Mine, AccountOf, DeskOK

LEMMA BookRows ==
    ASSUME BooksKnown, BookInv, desk' = desk, BookTypes', EntriesInv', BookGrows
    PROVE  BookInv'
  <1>1. ASSUME NEW b \in Admins PROVE DeskOK(desk[b])'
    <2> PICK t : t = desk[b]
      OBVIOUS
    <2>1. DeskOK(t)' /\ t = desk'[b]
      BY DeskStays DEF BookInv, BookTypes
    <2> QED BY <2>1 DEF DeskOK, Counted
  <1> QED BY <1>1 DEF BookInv

LEMMA DesksTyped ==
    ASSUME BookInv, NEW a \in Admins, NEW s \in Desks, desk' = [desk EXCEPT ![a] = s]
    PROVE  desk' \in [Admins -> Desks]
  BY DEF BookInv, BookTypes

LEMMA CreateAdjustmentStep ==
    ASSUME BooksKnown, BookInv, NEW a \in Admins, NEW n \in Book!Adjustments,
           NEW asked \in Requests, Book!CreateManualAdjustment(a, n, asked)
    PROVE  BookInv'
  <1>1. PICK s : s = [Book!Idle EXCEPT !.pc = "account", !.id = n]
    OBVIOUS
  <1>2. s \in Desks /\ s.pc = "account" /\ s.id = n
    BY <1>1, IdleIsADesk DEF Book!Idle, Desks, Adjusting, Settling
  <1>3. /\ desk' = [desk EXCEPT ![a] = s] /\ accounts' = accounts /\ expenses' = expenses
        /\ wallets' = wallets /\ entries' = entries /\ grants' = grants /\ reward' = reward
        /\ cycle' = cycle /\ adjustment' = [adjustment EXCEPT ![n] = asked]
        /\ n = 1 + Cardinality({m \in Book!Adjustments : adjustment[m] # Book!NoAdjustment})
    BY <1>1, BookCounts DEF Book!CreateManualAdjustment, Book!walletVars
  <1>4. n = 1 + Cardinality(Begun)
    BY <1>3 DEF Begun
  <1>5. IsFiniteSet(Begun) /\ Cardinality(Begun) \in Nat /\ Begun = 1..Cardinality(Begun)
    BY AdjustmentsAreFinite, FS_Subset, FS_CardinalityType DEF Begun, BookInv, EntriesInv
  <1>6. n \notin Begun
    BY <1>4, <1>5
  <1>7. asked # Book!NoAdjustment
    BY DEF BooksKnown, Book!NoAdjustment
  <1>8. /\ adjustment' \in [Book!Adjustments -> Requests \cup {Book!NoAdjustment}]
        /\ adjustment'[n] = asked
        /\ \A m \in Book!Adjustments \ {n} : adjustment'[m] = adjustment[m]
    BY <1>3 DEF BookInv, BookTypes
  <1>9. Begun' = Begun \cup {n}
    BY <1>7, <1>8 DEF Begun
  <1>10. Begun' = 1..n /\ Cardinality(1..n) = n
    <2>1. PICK k \in Nat : k = Cardinality(Begun)
      BY <1>5
    <2>2. n = 1 + k /\ Begun = 1..k /\ 1..n = 1..k \cup {n}
      BY <1>4, <1>5, <2>1
    <2>3. Cardinality(1..n) = n
      BY <2>2, FS_Interval
    <2> QED BY <1>9, <2>2, <2>3
  <1>11. \A m \in Begun : adjustment'[m] = adjustment[m]
    BY <1>6, <1>8 DEF Begun
  <1>12. EntriesInv'
    <2>1. entries' \subseteq Begun' /\ entries \subseteq Begun
      BY <1>3, <1>9 DEF BookInv, EntriesInv
    <2>2. \A m \in entries : <<adjustment'[m].user, adjustment'[m].currency>> \in accounts'
      BY <1>3, <1>11, <2>1 DEF BookInv, EntriesInv, AccountOf
    <2> QED BY <1>3, <1>10, <2>1, <2>2 DEF EntriesInv, AccountOf
  <1>13. BookTypes'
    BY <1>2, <1>3, <1>8, DesksTyped DEF BookTypes, BookInv
  <1>14. DeskOK(s)'
    BY <1>2, <1>9 DEF DeskOK, Adjusting, Settling
  <1> QED BY <1>2, <1>3, <1>11, <1>12, <1>13, <1>14, BookMove DEF BookGrows

\* A request of an adjustment that goes on and writes at most an account, a
\* wallet, an entry or a grant of its own.
LEMMA AdjustingStep ==
    ASSUME BooksKnown, BookInv, NEW a \in Admins, desk[a].pc \in Adjusting,
           NEW s \in Desks, desk' = [desk EXCEPT ![a] = s],
           \/ s.pc = "idle"
           \/ s.pc \in Adjusting /\ s.id = desk[a].id,
           s.pc \in Adjusting \ {"account", "create_account"} => AccountOf(desk[a].id) \in accounts',
           accounts' = accounts \/ accounts' = accounts \cup {AccountOf(desk[a].id)},
           \/ entries' = entries
           \/ entries' = entries \cup {desk[a].id} /\ AccountOf(desk[a].id) \in accounts,
           wallets' \subseteq People, expenses' \in [Book!Currencies -> Nat], grants' \subseteq Book!Adjustments,
           UNCHANGED <<adjustment, reward, cycle>>
    PROVE  BookInv'
  <1>1. desk[a].id \in Begun /\ AccountOf(desk[a].id) \in People \X Book!Currencies
    BY MineIs DEF BookInv, BookTypes
  <1>2. BookTypes'
    BY <1>1, DesksTyped DEF BookInv, BookTypes, Begun
  <1>3. Begun' = Begun /\ BookGrows
    BY DEF Begun, BookGrows
  <1>4. EntriesInv'
    <2>1. entries' \subseteq Begun'
      BY <1>1, <1>3 DEF BookInv, EntriesInv
    <2>2. \A n \in entries' : AccountOf(n) \in accounts'
      BY DEF BookInv, EntriesInv
    <2>3. \A n \in entries' : <<adjustment'[n].user, adjustment'[n].currency>> \in accounts'
      BY <2>2 DEF AccountOf
    <2> QED BY <1>3, <2>1, <2>3 DEF BookInv, EntriesInv, AccountOf
  <1>5. DeskOK(s)'
    <2>1. CASE s.pc = "idle"
      BY <2>1 DEF DeskOK, Adjusting, Settling
    <2>2. CASE s.pc \in Adjusting /\ s.id = desk[a].id
      <3>1. s.id \in Begun' /\ s.pc \notin Settling
        BY <1>1, <1>3, <2>2 DEF Adjusting, Settling
      <3>2. s.pc \notin {"account", "create_account"} =>
                <<adjustment'[s.id].user, adjustment'[s.id].currency>> \in accounts'
        BY <2>2 DEF AccountOf
      <3> QED BY <2>2, <3>1, <3>2 DEF DeskOK, AccountOf, Settling
    <2> QED BY <2>1, <2>2
  <1> QED BY <1>2, <1>3, <1>4, <1>5, BookMove

LEMMA AdjustmentSteps ==
    ASSUME BooksKnown, BookInv, NEW a \in Admins,
           \/ Book!FindUserAccount(a) \/ Book!CreateUserAccount(a) \/ Book!FindExpenseAccount(a)
           \/ Book!CreateExpenseAccount(a) \/ Book!PostEntry(a) \/ Book!FindWallet(a)
           \/ Book!CreateWallet(a) \/ Book!RecordDelta(a)
    PROVE  BookInv'
  <1>1. desk[a].pc \in Adjusting /\ Book!Idle \in Desks /\ Book!Idle.pc = "idle"
    BY IdleIsADesk DEF Book!FindUserAccount, Book!CreateUserAccount, Book!FindExpenseAccount,
       Book!CreateExpenseAccount,
       Book!PostEntry, Book!FindWallet, Book!CreateWallet, Book!RecordDelta, Book!At, Adjusting
  <1>2. /\ desk[a].id \in Begun /\ desk[a].id \in Book!Adjustments
        /\ Book!Mine(a).user \in People /\ Book!Mine(a).currency \in Book!Currencies
        /\ AccountOf(desk[a].id) = <<Book!Mine(a).user, Book!Mine(a).currency>>
        /\ desk[a].pc \notin {"account", "create_account"} => AccountOf(desk[a].id) \in accounts
    BY <1>1, MineIs DEF Begun
  <1>3. /\ wallets \subseteq People /\ expenses \in [Book!Currencies -> Nat] /\ grants \subseteq Book!Adjustments
    BY DEF BookInv, BookTypes
  <1>4. ASSUME NEW pc \in Adjusting, Book!Goto(a, pc), UNCHANGED <<Book!ledgerVars, Book!walletVars, cycle>>,
               pc \notin {"account", "create_account"} => AccountOf(desk[a].id) \in accounts
        PROVE  BookInv'
    <2>1. PICK s \in Desks : desk' = [desk EXCEPT ![a] = s] /\ s.pc = pc /\ s.id = desk[a].id
      BY <1>4, GoesTo
    <2>2. /\ accounts' = accounts /\ expenses' = expenses /\ wallets' = wallets
          /\ adjustment' = adjustment /\ entries' = entries /\ grants' = grants
          /\ reward' = reward /\ cycle' = cycle
      BY <1>4 DEF Book!ledgerVars, Book!walletVars
    <2> QED BY <1>1, <1>3, <1>4, <2>1, <2>2, AdjustingStep
  <1>5. CASE Book!FindUserAccount(a)
    BY <1>2, <1>4, <1>5 DEF Book!FindUserAccount, Adjusting
  <1>6. CASE Book!FindExpenseAccount(a)
    BY <1>2, <1>4, <1>6 DEF Book!FindExpenseAccount, Book!At, Adjusting
  <1>7. CASE Book!FindWallet(a)
    BY <1>2, <1>4, <1>7 DEF Book!FindWallet, Book!At, Adjusting
  <1>8. CASE Book!CreateUserAccount(a)
    <2>1. PICK s \in Desks : desk' = [desk EXCEPT ![a] = s] /\ s.pc = "expense" /\ s.id = desk[a].id
      BY <1>8, GoesTo DEF Book!CreateUserAccount, Adjusting
    <2> QED BY <1>1, <1>2, <1>3, <1>8, <2>1, AdjustingStep DEF Book!CreateUserAccount,
               Book!walletVars, Adjusting
  <1>9. CASE Book!CreateExpenseAccount(a)
    <2>1. PICK s \in Desks : desk' = [desk EXCEPT ![a] = s] /\ s.pc = "entry" /\ s.id = desk[a].id
      BY <1>9, GoesTo DEF Book!CreateExpenseAccount, Adjusting
    <2>2. PICK c \in Book!Currencies : expenses' = [expenses EXCEPT ![c] = @ + 1]
      BY <1>2, <1>9 DEF Book!CreateExpenseAccount
    <2>3. expenses' \in [Book!Currencies -> Nat]
      BY <1>3, <2>2
    <2> QED BY <1>1, <1>2, <1>3, <1>9, <2>1, <2>3, AdjustingStep
      DEF Book!CreateExpenseAccount, Book!At, Book!walletVars, Adjusting
  <1>10. CASE Book!PostEntry(a)
    <2>1. PICK s \in Desks : desk' = [desk EXCEPT ![a] = s] /\ s.pc = "wallet" /\ s.id = desk[a].id
      BY <1>10, GoesTo DEF Book!PostEntry, Adjusting
    <2> QED BY <1>1, <1>2, <1>3, <1>10, <2>1, AdjustingStep DEF Book!PostEntry, Book!At,
               Book!walletVars, Adjusting
  <1>11. CASE Book!CreateWallet(a)
    <2>1. PICK s \in Desks : desk' = [desk EXCEPT ![a] = s] /\ s.pc = "grant" /\ s.id = desk[a].id
      BY <1>11, GoesTo DEF Book!CreateWallet, Adjusting
    <2>2. wallets' \subseteq People
      BY <1>2, <1>3, <1>11 DEF Book!CreateWallet
    <2> QED BY <1>1, <1>2, <1>3, <1>11, <2>1, <2>2, AdjustingStep
      DEF Book!CreateWallet, Book!At, Book!ledgerVars, Adjusting
  <1>12. CASE Book!RecordDelta(a)
    <2>1. grants' \subseteq Book!Adjustments /\ desk' = [desk EXCEPT ![a] = Book!Idle]
      BY <1>2, <1>3, <1>12 DEF Book!RecordDelta, Book!Return
    <2> QED BY <1>1, <1>3, <1>12, <2>1, AdjustingStep DEF Book!RecordDelta, Book!ledgerVars,
               Adjusting
  <1> QED BY <1>5, <1>6, <1>7, <1>8, <1>9, <1>10, <1>11, <1>12

\* A snapshot that begins has counted nobody, and lists everyone with a posting.
LEMMA ListAccountsStep ==
    ASSUME BooksKnown, BookInv, NEW a \in Admins, Book!ListAccounts(a)
    PROVE  BookInv'
  <1>1. PICK s : s = [pc |-> IF Book!At(a, "open") THEN "open_sum" ELSE "close_sum",
                      id |-> desk[a].id, sum |-> 0, begun |-> entries,
                      todo |-> {acc \in accounts : acc[2] = Base}]
    OBVIOUS
  <1>2. desk' = [desk EXCEPT ![a] = s] /\ UNCHANGED <<Book!ledgerVars, Book!walletVars, cycle>>
    BY <1>1 DEF Book!ListAccounts, Book!StartSnapshot
  <1>3. /\ s.pc \in {"open_sum", "close_sum"} /\ s.id = desk[a].id /\ s.sum = 0
        /\ s.begun = entries /\ s.todo = {acc \in accounts : acc[2] = Base}
    BY <1>1
  <1>4. desk[a] \in Desks /\ accounts \subseteq People \X Book!Currencies /\ entries \subseteq Book!Adjustments
    BY DEF BookInv, BookTypes
  <1>5. s \in Desks
    BY <1>1, <1>4 DEF Desks, Adjusting, Settling
  <1>6. s.id \in Cycles
    BY <1>3 DEF Book!ListAccounts, BookInv, DeskOK, Settling
  <1>7. s.todo \subseteq People \X {Base}
    BY <1>3, <1>4
  <1>8. PICK listed \in SUBSET People : listed = {u \in People : <<u, Base>> \in s.todo}
    OBVIOUS
  <1>9. \A n \in entries : adjustment[n].currency = Base => adjustment[n].user \in listed
    <2> SUFFICES ASSUME NEW n \in entries, adjustment[n].currency = Base
                 PROVE  adjustment[n].user \in listed
      OBVIOUS
    <2>1. <<adjustment[n].user, Base>> \in accounts
      BY DEF BookInv, EntriesInv, AccountOf
    <2> QED BY <1>3, <1>4, <1>8, <2>1
  <1>10. {u \in listed : <<u, Base>> \notin s.todo} = {}
    BY <1>8
  <1>11. Counted(s)
    BY <1>3, <1>7, <1>8, <1>9, <1>10, SumEmpty DEF Counted
  <1>12. DeskOK(s)
    BY <1>3, <1>6, <1>11 DEF DeskOK, Adjusting
  <1> QED BY <1>2, <1>5, <1>12, BookOnly

LEMMA DebtsSum ==
    ASSUME BooksKnown, BookTypes, EntriesInv, NEW S \in SUBSET People
    PROVE  IsFiniteSet(S) /\ \A u \in S : Debts[u] \in Nat
  BY BaseBalance, FS_Subset DEF BooksKnown

LEMMA SumAccountStep ==
    ASSUME BooksKnown, BookInv, NEW a \in Admins, NEW account, Book!SumAccount(a, account)
    PROVE  BookInv'
  <1>1. desk[a] \in Desks /\ DeskOK(desk[a]) /\ desk \in [Admins -> Desks] /\ BookTypes /\ EntriesInv
    BY DEF BookInv, BookTypes
  <1> PICK q : q = desk[a]
    OBVIOUS
  <1>2. PICK s : s = [q EXCEPT !.todo = @ \ {account}, !.sum = @ + Book!Owed(account)]
    OBVIOUS
  <1>3. desk' = [desk EXCEPT ![a] = s] /\ UNCHANGED <<Book!ledgerVars, Book!walletVars, cycle>>
    BY <1>1, <1>2 DEF Book!SumAccount
  <1>4. q \in Desks /\ Counted(q) /\ q.pc \in {"open_sum", "close_sum"} /\ account \in q.todo
    BY <1>1 DEF Book!SumAccount, DeskOK
  <1>5. PICK w \in People : account = <<w, Base>>
    BY <1>4 DEF Counted
  <1>6. Book!Owed(account) = Debts[w] /\ Debts[w] \in Nat
    BY <1>1, <1>5, BaseBalance
  <1>7. /\ s \in Desks /\ s.pc = q.pc /\ s.id = q.id /\ s.begun = q.begun
        /\ s.todo = q.todo \ {<<w, Base>>} /\ s.sum = q.sum + Debts[w]
    <2>1. q.todo \subseteq People \X Book!Currencies /\ q.sum \in Nat
      BY <1>4 DEF Desks
    <2>2. /\ s.pc = q.pc /\ s.id = q.id /\ s.begun = q.begun
          /\ s.todo = q.todo \ {account} /\ s.sum = q.sum + Book!Owed(account)
      BY <1>2, <1>4 DEF Desks
    <2>3. s = [pc |-> s.pc, id |-> s.id, todo |-> s.todo, sum |-> s.sum, begun |-> s.begun]
      BY <1>2, <1>4 DEF Desks
    <2> QED BY <1>4, <1>5, <1>6, <2>1, <2>2, <2>3 DEF Desks
  <1>8. Counted(s)
    <2>1. SUFFICES ASSUME s.begun = entries PROVE Counted(s)
      BY <1>4, <1>7 DEF Counted
    <2>2. PICK listed \in SUBSET People :
              /\ \A n \in entries : adjustment[n].currency = Base => adjustment[n].user \in listed
              /\ \A u \in People : <<u, Base>> \in q.todo => u \in listed
              /\ q.sum = SumFunctionOnSet(Debts, {u \in listed : <<u, Base>> \notin q.todo})
      BY <1>4, <1>7, <2>1 DEF Counted
    <2>3. PICK S, T \in SUBSET People : S = {u \in listed : <<u, Base>> \notin q.todo}
                                       /\ T = {u \in listed : <<u, Base>> \notin s.todo}
      BY <2>2
    <2>4. w \in T /\ T \ {w} = S
      BY <1>4, <1>5, <1>7, <2>2, <2>3
    <2>5. SumFunctionOnSet(Debts, T) = Debts[w] + SumFunctionOnSet(Debts, S)
      BY <1>1, <2>4, DebtsSum, SumTakesOut
    <2>6. SumFunctionOnSet(Debts, S) \in Int
      BY <1>1, DebtsSum, SumIsInteger
    <2>7. s.sum = SumFunctionOnSet(Debts, {u \in listed : <<u, Base>> \notin s.todo})
      BY <1>6, <1>7, <2>2, <2>3, <2>5, <2>6
    <2> QED BY <1>4, <1>7, <2>2, <2>7 DEF Counted
  <1>9. DeskOK(s)
    BY <1>1, <1>4, <1>7, <1>8 DEF DeskOK, Adjusting, Settling
  <1> QED BY <1>3, <1>7, <1>9, BookOnly

LEMMA StoreCycleStep ==
    ASSUME BooksKnown, BookInv, NEW a \in Admins, NEW pc \in {"open_sum", "close_sum"},
           NEW status \in {"open", "closed"}, Book!StoreCycle(a, pc, status)
    PROVE  /\ BookInv'
           /\ cycle'[desk[a].id].figure = desk[a].sum
           /\ desk[a].begun = entries => desk[a].sum = Book!Liability
  <1>1. desk[a] \in Desks /\ DeskOK(desk[a]) /\ BookTypes /\ EntriesInv /\ desk[a].pc = pc
    BY DEF BookInv, BookTypes, Book!StoreCycle, Book!At
  <1>2. desk[a].id \in Cycles /\ Counted(desk[a]) /\ desk[a].sum \in Nat /\ desk[a].todo = {}
    BY <1>1 DEF DeskOK, Settling, Book!StoreCycle, Desks
  <1>3. Book!PendingOwed = 0
    <2>1. {u \in Rewarded : reward[u] = "pending" /\ Credit = Base} = {}
      BY DEF BooksKnown
    <2> QED BY <2>1, BookCounts, FS_EmptySet DEF Book!PendingOwed
  <1>4. PICK c : c = [status |-> status, figure |-> desk[a].sum + Book!PendingOwed]
    OBVIOUS
  <1>5. cycle' = [cycle EXCEPT ![desk[a].id] = c]
    BY <1>4 DEF Book!StoreCycle
  <1>6. c \in [status : {"none", "open", "closed"}, figure : Nat] /\ c.figure = desk[a].sum
    BY <1>2, <1>3, <1>4
  <1>7. cycle' \in [Cycles -> [status : {"none", "open", "closed"}, figure : Nat]]
        /\ cycle'[desk[a].id] = c
    BY <1>1, <1>2, <1>5, <1>6 DEF BookTypes
  <1>8. BookInv'
    <2>1. /\ accounts' = accounts /\ expenses' = expenses /\ wallets' = wallets
          /\ adjustment' = adjustment /\ entries' = entries /\ grants' = grants
          /\ reward' = reward /\ desk' = [desk EXCEPT ![a] = Book!Idle] /\ Book!Idle \in Desks
      BY IdleIsADesk DEF Book!StoreCycle, Book!Return, Book!ledgerVars, Book!walletVars
    <2>2. BookTypes' /\ EntriesInv' /\ BookGrows
      BY <1>1, <1>7, <2>1, DesksTyped DEF BookTypes, EntriesInv, Begun, AccountOf, BookGrows
    <2>3. DeskOK(Book!Idle)'
      BY IdleIsADesk DEF DeskOK, Adjusting, Settling
    <2> QED BY <2>1, <2>2, <2>3, BookMove
  <1>9. ASSUME desk[a].begun = entries PROVE desk[a].sum = Book!Liability
    <2>1. PICK listed \in SUBSET People :
              /\ \A n \in entries : adjustment[n].currency = Base => adjustment[n].user \in listed
              /\ desk[a].sum = SumFunctionOnSet(Debts, {u \in listed : <<u, Base>> \notin desk[a].todo})
      BY <1>2, <1>9 DEF Counted
    <2>2. {u \in listed : <<u, Base>> \notin desk[a].todo} = listed
      BY <1>2
    <2>3. \A u \in People \ listed : Debts[u] = 0
      <3> SUFFICES ASSUME NEW u \in People \ listed PROVE PostedFor(u) = {}
        BY <1>1, BaseBalance
      <3> QED BY <2>1 DEF PostedFor, AccountOf
    <2>4. SumFunctionOnSet(Debts, People) = SumFunctionOnSet(Debts, listed)
      BY <1>1, <2>3, DebtsSum, SumSkipsZeros
    <2>5. PICK f : f = [u \in People |-> Max({0, -Book!Balance(<<u, Base>>)})]
      OBVIOUS
    <2>6. \A u \in People : f[u] = Debts[u]
      BY <1>1, <2>5, BaseBalance
    <2>7. SumFunctionOnSet(f, People) = SumFunctionOnSet(Debts, People)
      BY <2>6, SumsAgree DEF BooksKnown
    <2> QED BY <2>1, <2>2, <2>4, <2>5, <2>7, BookSums, BookMax DEF Book!Liability
  <1> QED BY <1>6, <1>7, <1>8, <1>9

LEMMA BooksStep ==
    ASSUME BooksKnown, BookInv, Book!Next
    PROVE  BookInv' /\ Book!StoresLiability
  <1>1. ASSUME NEW a \in Admins, NEW pc \in {"open_sum", "close_sum"},
               NEW status \in {"open", "closed"}, Book!StoreCycle(a, pc, status)
        PROVE  BookInv'
    BY <1>1, StoreCycleStep
  <1>2. Book!StoresLiability
    <2>1. ASSUME NEW a \in Admins, Book!CreateCycle(a) \/ Book!UpdateCycle(a), desk[a].begun = entries
          PROVE  cycle'[desk[a].id].figure = Book!Liability
      <3>1. PICK pc \in {"open_sum", "close_sum"}, status \in {"open", "closed"} :
                Book!StoreCycle(a, pc, status)
        BY <2>1 DEF Book!CreateCycle, Book!UpdateCycle
      <3> QED BY <2>1, <3>1, StoreCycleStep
    <2> QED BY <2>1 DEF Book!StoresLiability
  <1>3. ASSUME NEW u \in Rewarded, Book!ScheduleReward(u) \/ Book!PostReward(u) PROVE BookInv'
    <2>1. /\ expenses' = expenses /\ wallets' = wallets /\ adjustment' = adjustment
          /\ entries' = entries /\ grants' = grants /\ desk' = desk /\ cycle' = cycle
          /\ accounts \subseteq accounts' /\ accounts' \subseteq accounts \cup {<<u, Credit>>}
      BY <1>3 DEF Book!ScheduleReward, Book!PostReward, Book!walletVars
    <2>2. PICK status \in {"pending", "posted"} : reward' = [reward EXCEPT ![u] = status]
      BY <1>3 DEF Book!ScheduleReward, Book!PostReward
    <2>3. reward' \in [Rewarded -> {"none", "pending", "posted"}]
      BY <2>2 DEF BookInv, BookTypes
    <2>4. accounts' \subseteq People \X Book!Currencies
      BY <2>1 DEF BookInv, BookTypes, BooksKnown, Book!Currencies
    <2>5. BookTypes' /\ BookGrows
      BY <2>1, <2>3, <2>4 DEF BookInv, BookTypes, BookGrows
    <2>6. EntriesInv'
      BY <2>1 DEF BookInv, EntriesInv, Begun, AccountOf
    <2> QED BY <2>1, <2>5, <2>6, BookRows
  <1>4. ASSUME NEW a \in Admins, NEW k \in Cycles, Book!OpenCycle(a, k) \/ Book!CloseCycle(a, k)
        PROVE  BookInv'
    <2>1. PICK pc \in {"open", "close"} :
              /\ desk' = [desk EXCEPT ![a] = [Book!Idle EXCEPT !.pc = pc, !.id = k]]
              /\ UNCHANGED <<Book!ledgerVars, Book!walletVars, cycle>>
      BY <1>4 DEF Book!OpenCycle, Book!CloseCycle
    <2>2. PICK s : s = [Book!Idle EXCEPT !.pc = pc, !.id = k]
      OBVIOUS
    <2>3. s \in Desks /\ s.pc = pc /\ s.id = k
      BY <2>2, IdleIsADesk DEF Book!Idle, Desks, Adjusting, Settling
    <2>4. DeskOK(s)
      BY <2>3 DEF DeskOK, Adjusting, Settling
    <2> QED BY <2>1, <2>2, <2>3, <2>4, BookOnly
  <1>5. ASSUME NEW a \in Admins, Book!Throw(a) PROVE BookInv'
    BY <1>5, IdleIsADesk, BookOnly DEF Book!Throw, Book!Return
  <1>6. BookInv'
    <2>1. ASSUME NEW a \in Admins, Book!CreateCycle(a) \/ Book!UpdateCycle(a) PROVE BookInv'
      BY <1>1, <2>1 DEF Book!CreateCycle, Book!UpdateCycle
    <2> QED BY <1>3, <1>4, <1>5, <2>1, CreateAdjustmentStep, AdjustmentSteps, ListAccountsStep,
            SumAccountStep DEF Book!Next
  <1> QED BY <1>2, <1>6

LEMMA BooksInductive ==
    ASSUME BooksKnown, BookInv, [Book!Next]_Book!vars
    PROVE  BookInv' /\ Book!StoresLiability
  <1>1. CASE UNCHANGED Book!vars
    <2>1. UNCHANGED <<accounts, expenses, wallets, adjustment, entries, grants, reward, cycle, desk>>
      BY <1>1 DEF Book!vars, Book!ledgerVars, Book!walletVars
    <2>2. BookTypes' /\ EntriesInv' /\ BookGrows
      BY <2>1 DEF BookInv, BookTypes, EntriesInv, Begun, AccountOf, BookGrows
    <2>3. BookInv'
      BY <2>1, <2>2, BookRows
    <2>4. ASSUME NEW a \in Admins, Book!CreateCycle(a) \/ Book!UpdateCycle(a) PROVE FALSE
      <3>1. PICK pc \in {"open_sum", "close_sum"}, status \in {"open", "closed"} :
                Book!StoreCycle(a, pc, status)
        BY <2>4 DEF Book!CreateCycle, Book!UpdateCycle
      <3>2. desk[a].pc = pc /\ desk'[a] = Book!Idle
        BY <3>1 DEF Book!StoreCycle, Book!Return, Book!At, BookInv, BookTypes
      <3> QED BY <2>1, <3>2, IdleIsADesk
    <2> QED BY <2>3, <2>4 DEF Book!StoresLiability
  <1> QED BY <1>1, BooksStep

LEMMA BooksInitially == ASSUME BooksKnown, Book!Init PROVE BookInv
  <1>1. /\ accounts = {} /\ expenses = [c \in Book!Currencies |-> 0] /\ wallets = {} /\ entries = {}
        /\ grants = {} /\ reward = [u \in Rewarded |-> "none"]
        /\ cycle = [k \in Cycles |-> Book!NoCycle] /\ desk = [a \in Admins |-> Book!Idle]
        /\ adjustment = [n \in Book!Adjustments |-> Book!NoAdjustment]
    BY DEF Book!Init
  <1>2. Book!NoCycle \in [status : {"none", "open", "closed"}, figure : Nat]
    BY DEF Book!NoCycle
  <1>3. BookTypes
    BY <1>1, <1>2, IdleIsADesk DEF BookTypes
  <1>4. Begun = {} /\ Cardinality({}) = 0
    BY <1>1, FS_EmptySet DEF Begun
  <1>5. EntriesInv
    BY <1>1, <1>4 DEF EntriesInv
  <1>6. \A a \in Admins : DeskOK(desk[a])
    BY <1>1, IdleIsADesk
  <1> QED BY <1>3, <1>5, <1>6 DEF BookInv

-----------------------------------------------------------------------------
(* Reporting: days.                                                        *)

LEMMA DayBounds ==
    ASSUME WindowKnown, NEW t \in Int
    PROVE  /\ Report!UtcDay(t) \in Int
           /\ Report!UtcDay(t) * PerDay <= t /\ t < (Report!UtcDay(t) + 1) * PerDay
  BY DEF Report!UtcDay, WindowKnown

\* A later day starts after an earlier one has ended.
LEMMA DaysInOrder ==
    ASSUME WindowKnown, NEW c \in Int, NEW d \in Int, c < d
    PROVE  (c + 1) * PerDay \in Int /\ d * PerDay \in Int /\ (c + 1) * PerDay <= d * PerDay
  <1> PICK k \in Nat : d = c + 1 + k
    BY SMT
  <1>1. d * PerDay = (c + 1) * PerDay + k * PerDay /\ k * PerDay \in Nat
    BY SMT DEF WindowKnown
  <1> QED BY <1>1 DEF WindowKnown

LEMMA DaysGrow ==
    ASSUME WindowKnown, NEW s \in Int, NEW t \in Int, s <= t
    PROVE  Report!UtcDay(s) <= Report!UtcDay(t)
  <1> PICK a \in Int, b \in Int, A \in Int, B \in Int :
          /\ a = Report!UtcDay(s) /\ b = Report!UtcDay(t)
          /\ A = a * PerDay /\ B = (b + 1) * PerDay /\ A <= s /\ t < B
    BY DayBounds DEF WindowKnown
  <1>1. b < a => B <= A
    BY DaysInOrder
  <1> QED BY <1>1

LEMMA WindowStartsDay ==
    ASSUME WindowKnown, NEW now \in Int
    PROVE  /\ Report!WindowStart(now) \in Int
           /\ Report!UtcDay(Report!WindowStart(now)) = Report!UtcDay(now) - (Lookback - 1)
  <1> PICK n, back, d, c : n = Lookback - 1 /\ back = n * PerDay
                           /\ d = Report!UtcDay(now) /\ c = d - n
    OBVIOUS
  <1>1. n \in Nat /\ back \in Nat /\ d \in Int /\ c \in Int
    BY DayBounds DEF WindowKnown
  <1> PICK start, e : start = now - back /\ e = Report!UtcDay(start)
    OBVIOUS
  <1>2. start = Report!WindowStart(now) /\ start \in Int /\ e \in Int
    BY <1>1, DayBounds DEF Report!WindowStart
  <1>3. /\ d * PerDay <= now /\ now < (d + 1) * PerDay
        /\ e * PerDay <= start /\ start < (e + 1) * PerDay
    BY <1>2, DayBounds
  <1>4. c * PerDay = d * PerDay - back /\ (c + 1) * PerDay = (d + 1) * PerDay - back
    BY <1>1, SMT DEF WindowKnown
  <1>5. /\ c * PerDay \in Int /\ (c + 1) * PerDay \in Int
        /\ d * PerDay \in Int /\ (d + 1) * PerDay \in Int
        /\ e * PerDay \in Int /\ (e + 1) * PerDay \in Int
    BY <1>1, <1>2 DEF WindowKnown
  <1>6. c * PerDay <= start /\ start < (c + 1) * PerDay
    BY <1>1, <1>3, <1>4, <1>5
  <1>7. ~(e < c)
    <2>1. e < c => (e + 1) * PerDay <= c * PerDay
      BY <1>1, <1>2, DaysInOrder
    <2> QED BY <1>2, <1>3, <1>5, <1>6, <2>1
  <1>8. ~(c < e)
    <2>1. c < e => (c + 1) * PerDay <= e * PerDay
      BY <1>1, <1>2, DaysInOrder
    <2> QED BY <1>2, <1>3, <1>5, <1>6, <2>1
  <1> QED BY <1>1, <1>2, <1>7, <1>8

\* The days of a window, and what it says of an instant whose day they are.
LEMMA WindowDays ==
    ASSUME WindowKnown, NEW now \in Report!Times
    PROVE  /\ Report!UtcDay(now) \in Report!Days
           /\ \A d \in Int : Report!DayInWindow(now, d) <=>
                  Report!UtcDay(now) - (Lookback - 1) <= d /\ d <= Report!UtcDay(now)
           /\ \A t \in Report!Times :
                  /\ Report!UtcDay(t) \in Report!Days
                  /\ t <= now => Report!UtcDay(t) <= Report!UtcDay(now)
                  /\ Report!InWindow(now, t) =>
                        t <= now /\ Report!DayInWindow(now, Report!UtcDay(t))
                  /\ t <= now /\ Report!UtcDay(now) - (Lookback - 1) < Report!UtcDay(t) =>
                        Report!InWindow(now, t)
  <1>1. now \in Nat /\ now <= LastInstant /\ LastInstant \in Nat /\ Report!Times \subseteq Nat
    BY DEF Report!Times, WindowKnown
  <1>2. ASSUME NEW t \in Report!Times PROVE Report!UtcDay(t) \in Report!Days
    <2>1. t \in Nat /\ t <= LastInstant
      BY <1>1, <1>2 DEF Report!Times
    <2>2. Report!UtcDay(t) <= Report!UtcDay(LastInstant) /\ Report!UtcDay(0) <= Report!UtcDay(t)
      BY <1>1, <2>1, DaysGrow
    <2>3. Report!UtcDay(0) = 0
      BY DEF Report!UtcDay, WindowKnown
    <2>4. Report!UtcDay(t) \in Int /\ Report!UtcDay(LastInstant) \in Int
      BY <1>1, <2>1, DayBounds
    <2> QED BY <2>2, <2>3, <2>4 DEF Report!Days
  <1> PICK start, first : start = Report!WindowStart(now)
                          /\ first = Report!UtcDay(now) - (Lookback - 1)
    OBVIOUS
  <1>3. start \in Int /\ Report!UtcDay(start) = first /\ first \in Int
    BY <1>1, WindowStartsDay, DayBounds DEF WindowKnown
  <1>4. ASSUME NEW t \in Report!Times
        PROVE  /\ t <= now => Report!UtcDay(t) <= Report!UtcDay(now)
               /\ Report!InWindow(now, t) =>
                     t <= now /\ Report!DayInWindow(now, Report!UtcDay(t))
               /\ t <= now /\ first < Report!UtcDay(t) => Report!InWindow(now, t)
    <2>1. t \in Int /\ now \in Int
      BY <1>1
    <2>2. t <= now => Report!UtcDay(t) <= Report!UtcDay(now)
      BY <2>1, DaysGrow
    <2>3. start <= t => first <= Report!UtcDay(t)
      BY <1>3, <2>1, DaysGrow
    <2>4. t <= start => Report!UtcDay(t) <= first
      BY <1>3, <2>1, DaysGrow
    <2>5. Report!UtcDay(t) \in Int
      BY <2>1, DayBounds
    <2>6. first < Report!UtcDay(t) => start <= t
      BY <1>3, <2>1, <2>4, <2>5
    <2> QED BY <1>3, <2>2, <2>3, <2>6 DEF Report!InWindow, Report!DayInWindow
  <1>5. ASSUME NEW d \in Int
        PROVE Report!DayInWindow(now, d) <=> first <= d /\ d <= Report!UtcDay(now)
    BY <1>3 DEF Report!DayInWindow
  <1> QED BY <1>2, <1>4, <1>5

-----------------------------------------------------------------------------
(* Reporting: the rows of a run.                                           *)

LEMMA ReportCounts == ASSUME NEW S PROVE Report!Cardinality(S) = Cardinality(S)
  BY DEF Report!Cardinality, Cardinality

LEMMA ReportSums ==
    ASSUME NEW f, NEW S
    PROVE  Report!SumFunctionOnSet(f, S) = SumFunctionOnSet(f, S)
  BY DEF Report!SumFunctionOnSet, Report!FoldFunctionOnSet, Report!MapThenFoldSet,
     SumFunctionOnSet, FoldFunctionOnSet, MapThenFoldSet

\* The sources have finitely many rows, each of its type; only clients choose a
\* time that may not have come.
SourcesInv ==
    /\ clock \in Report!Times /\ follows \in Report!Tables
    /\ log \subseteq [id : EventIds, type : Types, user : People, at : Report!Times]
    /\ IsFiniteSet(log)
    /\ DOMAIN joined \subseteq People /\ IsFiniteSet(DOMAIN joined)
    /\ \A u \in DOMAIN joined : joined[u] \in Report!Times /\ joined[u] <= clock
    /\ credited \subseteq [id : Payouts, user : People, at : Report!Times]
    /\ IsFiniteSet(credited) /\ \A r \in credited : r.at <= clock
    /\ posted \subseteq [id : Payouts, at : Report!Times]
    /\ IsFiniteSet(posted) /\ \A r \in posted : r.at <= clock

\* What a run read at the time now is in the sources, and had come by then.
ReadKnown(now, read) ==
    /\ now \in Report!Times /\ now <= clock
    /\ read.events \subseteq {r \in log : Report!InWindow(now, r.at)}
    /\ read.members \subseteq {u \in DOMAIN joined : joined[u] <= now}
    /\ read.entries \subseteq {r \in credited : r.at <= now}
    /\ read.posted \subseteq {r \in posted : Report!InWindow(now, r.at)}

\* What there is to count for day d.
DatedOn(rows, now, d) == {r \in rows : Report!UtcDay(r.at) = d /\ r.at <= now}
Visits(now, read, d) ==
    {p \in read.members \X Report!Days :
        /\ Report!UtcDay(joined[p[1]]) = d /\ d <= p[2]
        /\ \E r \in DatedOn(read.events, now, p[2]) : r.user = p[1] /\ r.type = "paid"}
Total(now, read, d) ==
    CASE follows = "conversion" -> Cardinality(DatedOn(read.events, now, d))
      [] follows = "performance" ->
            Cardinality(DatedOn(read.entries, now, d)) + Cardinality(DatedOn(read.posted, now, d))
      [] follows = "liability" -> Cardinality({r \in read.entries : r.at <= now})
      [] follows = "retention" -> Cardinality(Visits(now, read, d))

SumOfRows(rows) == SumFunctionOnSet([row \in rows |-> Report!Figure(row)], rows)

\* The day a run of now deletes.
DayReplaced(now, d) ==
    IF follows = "liability" THEN d = Report!UtcDay(now) ELSE Report!DayInWindow(now, d)

RowsKnown(rows) ==
    /\ IsFiniteSet(rows)
    /\ \A row \in rows : Report!Figure(row) \in Nat /\ Report!DayOf(row) \in Report!Days
    /\ \A r, s \in rows : Report!KeyOf(r) = Report!KeyOf(s) => r = s

\* The days a run of now rewrites in full.
WholeDays(now) ==
    {d \in Int : DayReplaced(now, d) /\ Report!UtcDay(now) - (Lookback - 1) < d}

\* The rows that a run of now writes.
WrittenRows(now, read, rows) ==
    /\ RowsKnown(rows)
    /\ \A row \in rows : DayReplaced(now, Report!DayOf(row))
    /\ \A d \in WholeDays(now) : SumOfRows(Report!RowsOf(rows, d)) = Total(now, read, d)

LEMMA ReadsAreFinite ==
    ASSUME SourcesInv, NEW now, NEW read, ReadKnown(now, read)
    PROVE  /\ IsFiniteSet(read.events) /\ IsFiniteSet(read.members)
           /\ IsFiniteSet(read.entries) /\ IsFiniteSet(read.posted)
           /\ \A r \in read.events : r.at \in Report!Times
           /\ \A r \in read.entries : r.at \in Report!Times
           /\ \A r \in read.posted : r.at \in Report!Times
  <1>1. /\ read.events \subseteq log /\ read.members \subseteq DOMAIN joined
        /\ read.entries \subseteq credited /\ read.posted \subseteq posted
    BY DEF ReadKnown
  <1>2. /\ IsFiniteSet(log) /\ IsFiniteSet(DOMAIN joined)
        /\ IsFiniteSet(credited) /\ IsFiniteSet(posted)
        /\ \A r \in log : r.at \in Report!Times
        /\ \A r \in credited : r.at \in Report!Times
        /\ \A r \in posted : r.at \in Report!Times
    BY DEF SourcesInv
  <1> QED BY <1>1, <1>2, FS_Subset

LEMMA ConversionsWritten ==
    ASSUME WindowKnown, SourcesInv, NEW now, NEW read, ReadKnown(now, read),
           follows = "conversion"
    PROVE  WrittenRows(now, read, Report!ConversionRows(now, read))
  <1> DEFINE rows == Report!ConversionRows(now, read)
             Of(row) == {r \in read.events : <<Report!UtcDay(r.at), r.type>> = <<row.day, row.type>>}
  <1>1. now \in Report!Times /\ IsFiniteSet(read.events)
          /\ \A r \in read.events : r.at \in Report!Times /\ Report!InWindow(now, r.at)
    BY ReadsAreFinite DEF ReadKnown
  <1>2. PICK key : key = [r \in read.events |-> <<Report!UtcDay(r.at), r.type>>]
    OBVIOUS
  <1>3. PICK g : g = [r \in read.events |->
            LET Bucket == {s \in read.events : <<Report!UtcDay(s.at), s.type>> = key[r]}
            IN  [day |-> key[r][1], type |-> key[r][2], events |-> Report!Cardinality(Bucket),
                 external |-> Report!Cardinality(Report!UsersOf(Bucket)),
                 known |-> Report!Cardinality(Report!UsersOf(Bucket) \cap read.members)]]
    OBVIOUS
  <1>4. rows = {g[r] : r \in read.events}
    BY <1>2, <1>3 DEF Report!ConversionRows
  <1>5. ASSUME NEW r \in read.events
        PROVE  /\ g[r].day = Report!UtcDay(r.at) /\ g[r].type = r.type
               /\ g[r].events = Cardinality(Of(g[r]))
    <2>1. /\ g[r].day = key[r][1] /\ g[r].type = key[r][2]
          /\ g[r].events =
                Report!Cardinality({s \in read.events : <<Report!UtcDay(s.at), s.type>> = key[r]})
      BY <1>3
    <2>2. key[r] = <<Report!UtcDay(r.at), r.type>>
      BY <1>2
    <2> QED BY <2>1, <2>2, ReportCounts
  <1>6. ASSUME NEW r \in read.events, NEW s \in read.events,
               g[r].day = g[s].day, g[r].type = g[s].type
        PROVE  g[r] = g[s]
    <2>1. key[r] = key[s]
      BY <1>2, <1>5, <1>6
    <2> QED BY <1>3, <2>1
  <1> HIDE DEF rows
  <1>7. IsFiniteSet(rows)
    BY <1>1, <1>4, ImageIsFinite
  <1>8. ASSUME NEW row \in rows
        PROVE  /\ row.day \in Report!Days /\ Report!DayInWindow(now, row.day)
               /\ IsFiniteSet(Of(row)) /\ row.events = Cardinality(Of(row)) /\ row.events \in Nat
    <2>1. PICK r \in read.events : row = g[r]
      BY <1>4
    <2>2. row.day \in Report!Days /\ Report!DayInWindow(now, row.day)
      BY <1>1, <1>5, <2>1, WindowDays
    <2>3. IsFiniteSet(Of(row))
      BY <1>1, FS_Subset
    <2> QED BY <1>5, <2>1, <2>2, <2>3, FS_CardinalityType
  <1>9. \A row \in rows : Report!Figure(row) = row.events /\ Report!DayOf(row) = row.day
    BY DEF Report!Figure, Report!DayOf
  <1>10. \A r, s \in rows : Report!KeyOf(r) = Report!KeyOf(s) => r = s
    BY <1>4, <1>6 DEF Report!KeyOf
  <1>11. \A row \in rows : DayReplaced(now, Report!DayOf(row))
    BY <1>8, <1>9 DEF DayReplaced
  <1>12. ASSUME NEW d \in WholeDays(now)
         PROVE  SumOfRows(Report!RowsOf(rows, d)) = Total(now, read, d)
    <2> PICK R : R = Report!RowsOf(rows, d)
      OBVIOUS
    <2>1. R \subseteq rows /\ \A row \in rows : row \in R <=> row.day = d
      BY <1>9 DEF Report!RowsOf
    <2>2. IsFiniteSet(R)
      BY <1>7, <2>1, FS_Subset
    <2> PICK f, A : f = [row \in R |-> Report!Figure(row)] /\ A = [row \in R |-> Of(row)]
      OBVIOUS
    <2>3. \A row \in R : IsFiniteSet(A[row]) /\ f[row] = Cardinality(A[row])
      BY <1>8, <1>9, <2>1
    <2>4. \A q, r \in R : q # r => A[q] \cap A[r] = {}
      <3> SUFFICES ASSUME NEW q \in R, NEW r \in R, NEW x \in A[q] \cap A[r] PROVE q = r
        OBVIOUS
      <3>1. q.day = r.day /\ q.type = r.type
        OBVIOUS
      <3> QED BY <1>4, <1>6, <2>1, <3>1
    <2>5. UNION {A[r] : r \in R} = DatedOn(read.events, now, d)
      <3>1. ASSUME NEW x, x \in DatedOn(read.events, now, d) PROVE x \in UNION {A[r] : r \in R}
        <4>1. x \in read.events /\ Report!UtcDay(x.at) = d
          BY <3>1 DEF DatedOn
        <4>2. g[x] \in rows /\ g[x].day = d /\ g[x].type = x.type
          BY <1>4, <1>5, <4>1
        <4>3. g[x] \in R
          BY <2>1, <4>2
        <4>4. x \in A[g[x]]
          BY <4>1, <4>2, <4>3
        <4> QED BY <4>3, <4>4
      <3>2. ASSUME NEW x, x \in UNION {A[r] : r \in R} PROVE x \in DatedOn(read.events, now, d)
        <4>1. x \in read.events /\ Report!UtcDay(x.at) = d
          BY <2>1, <3>2
        <4>2. x.at <= now
          BY <1>1, <4>1 DEF Report!InWindow
        <4> QED BY <4>1, <4>2 DEF DatedOn
      <3> QED BY <3>1, <3>2
    <2>6. SumFunctionOnSet(f, R) = Cardinality(DatedOn(read.events, now, d))
      <3>1. SumFunctionOnSet(f, R) = Cardinality(Joined(A, R))
        <4>1. SizesOfParts(f, A, R)
          BY <2>2, <2>3, <2>4 DEF SizesOfParts
        <4> HIDE DEF Of
        <4> QED BY <4>1, SumOfParts
      <3> QED BY <2>5, <3>1 DEF Joined
    <2>7. SumOfRows(Report!RowsOf(rows, d)) = SumFunctionOnSet(f, R)
      BY DEF SumOfRows
    <2> QED BY <2>6, <2>7 DEF Total
  <1> QED BY <1>7, <1>8, <1>9, <1>10, <1>11, <1>12 DEF rows, WrittenRows, RowsKnown

LEMMA PerformanceWritten ==
    ASSUME WindowKnown, SourcesInv, NEW now, NEW read, ReadKnown(now, read),
           follows = "performance"
    PROVE  WrittenRows(now, read, Report!PerformanceRows(now, read))
  <1> DEFINE rows == Report!PerformanceRows(now, read)
             entries_ == {r \in read.entries : Report!InWindow(now, r.at)}
             On(from, d) == {r \in from : Report!UtcDay(r.at) = d}
  <1>1. /\ now \in Report!Times /\ IsFiniteSet(entries_) /\ IsFiniteSet(read.posted)
        /\ \A r \in entries_ \cup read.posted :
              r.at \in Report!Times /\ Report!InWindow(now, r.at)
    <2>1. IsFiniteSet(entries_)
      BY ReadsAreFinite, FS_Subset
    <2> QED BY <2>1, ReadsAreFinite DEF ReadKnown
  <1>2. IsFiniteSet(entries_ \cup read.posted)
    BY <1>1, FS_Union
  <1>3. PICK g : g = [r \in entries_ \cup read.posted |->
            LET d == Report!UtcDay(r.at)
            IN  [day |-> d, entries |-> Report!Cardinality(On(entries_, d)),
                 users |-> Report!Cardinality(Report!UsersOf(On(entries_, d))),
                 posted |-> Report!Cardinality(On(read.posted, d))]]
    OBVIOUS
  <1>4. rows = {g[r] : r \in entries_ \cup read.posted}
    BY <1>3 DEF Report!PerformanceRows
  <1>5. ASSUME NEW r \in entries_ \cup read.posted, NEW d, d = Report!UtcDay(r.at)
        PROVE  /\ g[r].day = d /\ g[r].entries = Cardinality(On(entries_, d))
               /\ g[r].posted = Cardinality(On(read.posted, d))
    <2>1. /\ g[r].day = d /\ g[r].entries = Report!Cardinality(On(entries_, d))
          /\ g[r].posted = Report!Cardinality(On(read.posted, d))
      BY <1>3, <1>5
    <2> QED BY <2>1, ReportCounts
  <1>6. ASSUME NEW r \in entries_ \cup read.posted, NEW s \in entries_ \cup read.posted,
               g[r].day = g[s].day
        PROVE  g[r] = g[s]
    <2> PICK c, d : c = Report!UtcDay(r.at) /\ d = Report!UtcDay(s.at)
      OBVIOUS
    <2>1. g[r].day = c /\ g[s].day = d
      BY <1>5
    <2>2. c = d
      BY <1>6, <2>1
    <2> QED BY <1>3, <2>2
  <1>7. \A d : /\ IsFiniteSet(On(entries_, d)) /\ Cardinality(On(entries_, d)) \in Nat
               /\ IsFiniteSet(On(read.posted, d)) /\ Cardinality(On(read.posted, d)) \in Nat
    BY <1>1, FS_Subset, FS_CardinalityType
  <1> HIDE DEF rows
  <1>8. IsFiniteSet(rows)
    BY <1>2, <1>4, ImageIsFinite
  <1>9. ASSUME NEW row \in rows
        PROVE  /\ row.day \in Report!Days /\ Report!DayInWindow(now, row.day)
               /\ row.entries = Cardinality(On(entries_, row.day)) /\ row.entries \in Nat
               /\ row.posted = Cardinality(On(read.posted, row.day)) /\ row.posted \in Nat
    <2>1. PICK r \in entries_ \cup read.posted : row = g[r]
      BY <1>4
    <2>2. Report!UtcDay(r.at) \in Report!Days /\ Report!DayInWindow(now, Report!UtcDay(r.at))
      BY <1>1, WindowDays
    <2> PICK d : d = Report!UtcDay(r.at)
      OBVIOUS
    <2>3. /\ row.day = d /\ row.entries = Cardinality(On(entries_, d))
          /\ row.posted = Cardinality(On(read.posted, d))
      BY <1>5, <2>1
    <2> QED BY <1>7, <2>2, <2>3
  <1>10. \A row \in rows : /\ Report!Figure(row) = row.entries + row.posted
                           /\ Report!DayOf(row) = row.day
    BY DEF Report!Figure, Report!DayOf
  <1>11. \A r, s \in rows : Report!KeyOf(r) = Report!KeyOf(s) => r = s
    BY <1>4, <1>6 DEF Report!KeyOf
  <1>12. \A row \in rows : DayReplaced(now, Report!DayOf(row))
    BY <1>9, <1>10 DEF DayReplaced
  <1>13. ASSUME NEW d \in WholeDays(now)
         PROVE  SumOfRows(Report!RowsOf(rows, d)) = Total(now, read, d)
    <2> PICK R : R = Report!RowsOf(rows, d)
      OBVIOUS
    <2>1. R \subseteq rows /\ \A row \in rows : row \in R <=> row.day = d
      BY <1>10 DEF Report!RowsOf
    <2> PICK f, a, b : f = [row \in R |-> Report!Figure(row)]
                       /\ a = Cardinality(On(entries_, d)) /\ b = Cardinality(On(read.posted, d))
      OBVIOUS
    <2>2. On(entries_, d) = DatedOn(read.entries, now, d)
      <3>1. ASSUME NEW x, x \in DatedOn(read.entries, now, d) PROVE x \in On(entries_, d)
        <4>1. x \in read.entries /\ Report!UtcDay(x.at) = d /\ x.at <= now /\ x.at \in Report!Times
          BY <3>1, ReadsAreFinite DEF DatedOn
        <4>2. Report!InWindow(now, x.at)
          BY <1>1, <4>1, WindowDays DEF WholeDays
        <4> QED BY <4>1, <4>2
      <3>2. ASSUME NEW x, x \in On(entries_, d) PROVE x \in DatedOn(read.entries, now, d)
        <4>1. x.at <= now
          BY <3>2 DEF Report!InWindow
        <4> QED BY <3>2, <4>1 DEF DatedOn
      <3> QED BY <3>1, <3>2
    <2>3. On(read.posted, d) = DatedOn(read.posted, now, d)
      BY <1>1 DEF DatedOn, Report!InWindow
    <2>4. Total(now, read, d) = a + b
      BY <2>2, <2>3 DEF Total
    <2>5. SumFunctionOnSet(f, R) = a + b
      <3>1. CASE R = {}
        <4>1. On(entries_, d) = {} /\ On(read.posted, d) = {}
          <5> SUFFICES ASSUME NEW x \in entries_ \cup read.posted, Report!UtcDay(x.at) = d
                       PROVE  FALSE
            OBVIOUS
          <5>1. g[x] \in rows /\ g[x].day = d
            BY <1>4, <1>5
          <5> QED BY <2>1, <3>1, <5>1
        <4>2. a = 0 /\ b = 0
          BY <4>1, FS_EmptySet
        <4> QED BY <3>1, <4>2, SumEmpty
      <3>2. CASE R # {}
        <4> PICK row : row \in R
          BY <3>2
        <4>1. \A r \in R : r = row
          <5> SUFFICES ASSUME NEW r \in R PROVE r = row
            OBVIOUS
          <5>1. r \in rows /\ row \in rows /\ r.day = d /\ row.day = d
            BY <2>1
          <5> QED BY <1>4, <1>6, <5>1
        <4>2. R = {row} /\ IsFiniteSet(R)
          BY <1>8, <2>1, <4>1, FS_Subset
        <4>3. f[row] = a + b /\ f[row] \in Int
          BY <1>7, <1>9, <1>10, <2>1
        <4> QED BY <4>2, <4>3, SumOfOne
      <3> QED BY <3>1, <3>2
    <2>6. SumOfRows(Report!RowsOf(rows, d)) = SumFunctionOnSet(f, R)
      BY DEF SumOfRows
    <2> QED BY <2>4, <2>5, <2>6
  <1>14. ASSUME NEW row \in rows
         PROVE  Report!Figure(row) \in Nat /\ Report!DayOf(row) \in Report!Days
    <2>1. row.entries \in Nat /\ row.posted \in Nat /\ row.day \in Report!Days
      BY <1>9
    <2> QED BY <1>10, <2>1
  <1> QED BY <1>8, <1>11, <1>12, <1>13, <1>14 DEF rows, WrittenRows, RowsKnown

LEMMA LiabilitiesWritten ==
    ASSUME WindowKnown, SourcesInv, NEW now, NEW read, ReadKnown(now, read),
           follows = "liability"
    PROVE  WrittenRows(now, read, Report!LiabilityRows(now, read))
  <1> DEFINE rows == Report!LiabilityRows(now, read)
             due == {r \in read.entries : r.at <= now}
  <1>1. IsFiniteSet(due) /\ Cardinality(due) \in Nat
    BY ReadsAreFinite, FS_Subset, FS_CardinalityType
  <1>2. PICK row, owed, accounts_ :
            /\ owed = Report!Cardinality(due)
            /\ accounts_ = Report!Cardinality(Report!UsersOf(read.entries))
            /\ row = [day |-> Report!UtcDay(now), owed |-> owed, accounts |-> accounts_]
    OBVIOUS
  <1>3. rows = IF read.entries = {} THEN {} ELSE {row}
    BY <1>2 DEF Report!LiabilityRows
  <1>4. row.day = Report!UtcDay(now) /\ row.owed = Cardinality(due)
    BY <1>2, ReportCounts
  <1>5. Report!Figure(row) = Cardinality(due) /\ Report!DayOf(row) = Report!UtcDay(now)
    BY <1>4 DEF Report!Figure, Report!DayOf
  <1>6. now \in Report!Times /\ Report!UtcDay(now) \in Report!Days
    BY WindowDays DEF ReadKnown
  <1>7. IsFiniteSet(rows)
    BY <1>3, FS_EmptySet, FS_Singleton
  <1> HIDE DEF rows
  <1>8. RowsKnown(rows)
    BY <1>1, <1>3, <1>5, <1>6, <1>7 DEF RowsKnown
  <1>9. \A r \in rows : DayReplaced(now, Report!DayOf(r))
    BY <1>3, <1>5 DEF DayReplaced
  <1>10. ASSUME NEW d \in WholeDays(now)
         PROVE  SumOfRows(Report!RowsOf(rows, d)) = Total(now, read, d)
    <2>1. d = Report!UtcDay(now)
      BY DEF WholeDays, DayReplaced
    <2>2. Report!RowsOf(rows, d) = rows
      BY <1>3, <1>5, <2>1 DEF Report!RowsOf
    <2> PICK f : f = [r \in rows |-> Report!Figure(r)]
      OBVIOUS
    <2>3. SumFunctionOnSet(f, rows) = Cardinality(due)
      <3>1. CASE read.entries = {}
        <4>1. rows = {} /\ due = {}
          BY <1>3, <3>1
        <4> QED BY <4>1, SumEmpty, FS_EmptySet
      <3>2. CASE read.entries # {}
        <4>1. rows = {row} /\ f[row] = Cardinality(due)
          BY <1>3, <1>5, <3>2
        <4> QED BY <1>1, <1>7, <4>1, SumOfOne
      <3> QED BY <3>1, <3>2
    <2>4. SumOfRows(Report!RowsOf(rows, d)) = SumFunctionOnSet(f, rows)
      BY <2>2 DEF SumOfRows
    <2> QED BY <2>3, <2>4 DEF Total
  <1> QED BY <1>8, <1>9, <1>10 DEF rows, WrittenRows

LEMMA RetentionWritten ==
    ASSUME WindowKnown, SourcesInv, NEW now, NEW read, ReadKnown(now, read),
           follows = "retention"
    PROVE  WrittenRows(now, read, Report!RetentionRows(now, read))
  <1> DEFINE rows == Report!RetentionRows(now, read)
             newcomers == {u \in read.members : Report!InWindow(now, joined[u])}
             Cohort(c) == {u \in newcomers : Report!UtcDay(joined[u]) = c}
             Paid(d) == {r \in read.events : r.type = "paid" /\ Report!UtcDay(r.at) = d}
             Back(c, d) == Cohort(c) \cap (Report!UsersOf(Paid(d)) \cap newcomers)
             keys == {k \in Report!Days \X Report!Days : k[1] <= k[2] /\ Back(k[1], k[2]) # {}}
  <1>1. /\ now \in Report!Times /\ IsFiniteSet(read.members)
        /\ \A r \in read.events : r.at \in Report!Times /\ Report!InWindow(now, r.at)
        /\ \A u \in read.members : joined[u] \in Report!Times /\ joined[u] <= now
    BY ReadsAreFinite DEF ReadKnown, SourcesInv
  <1>2. IsFiniteSet(keys)
    <2>1. Report!UtcDay(LastInstant) \in Int
      BY DayBounds DEF WindowKnown
    <2>2. IsFiniteSet(Report!Days)
      BY <2>1, FS_Interval DEF Report!Days
    <2>3. IsFiniteSet(Report!Days \X Report!Days)
      BY <2>2, FS_Product
    <2> QED BY <2>3, FS_Subset
  <1>3. PICK g : g = [k \in keys |->
            [cohort |-> k[1], day |-> k[2], size |-> Report!Cardinality(Cohort(k[1])),
             retained |-> Report!Cardinality(Back(k[1], k[2]))]]
    OBVIOUS
  <1>4. rows = {g[k] : k \in keys}
    BY <1>3 DEF Report!RetentionRows
  <1> HIDE DEF rows
  <1>5. ASSUME NEW k \in keys
        PROVE  /\ g[k].cohort = k[1] /\ g[k].day = k[2]
               /\ g[k].retained = Cardinality(Back(k[1], k[2]))
    <2>1. /\ g[k].cohort = k[1] /\ g[k].day = k[2]
          /\ g[k].retained = Report!Cardinality(Back(k[1], k[2]))
      BY <1>3
    <2> QED BY <2>1, ReportCounts
  <1>6. \A c, d : IsFiniteSet(Back(c, d)) /\ Cardinality(Back(c, d)) \in Nat
    BY <1>1, FS_Subset, FS_CardinalityType
  <1>7. IsFiniteSet(rows)
    <2> HIDE DEF keys
    <2> QED BY <1>2, <1>4, ImageIsFinite
  <1>8. ASSUME NEW row \in rows
        PROVE  /\ <<row.cohort, row.day>> \in keys /\ row = g[<<row.cohort, row.day>>]
               /\ row.cohort \in Report!Days /\ Report!DayInWindow(now, row.cohort)
               /\ row.retained = Cardinality(Back(row.cohort, row.day)) /\ row.retained \in Nat
    <2>1. PICK k \in keys : row = g[k]
      BY <1>4
    <2>2. k = <<k[1], k[2]>> /\ k[1] \in Report!Days /\ Back(k[1], k[2]) # {}
      OBVIOUS
    <2>3. row.cohort = k[1] /\ row.day = k[2] /\ row.retained = Cardinality(Back(k[1], k[2]))
      BY <1>5, <2>1
    <2>4. Report!DayInWindow(now, k[1])
      <3> PICK u : u \in Back(k[1], k[2])
        BY <2>2
      <3>1. u \in read.members /\ Report!InWindow(now, joined[u])
            /\ Report!UtcDay(joined[u]) = k[1]
        OBVIOUS
      <3> QED BY <1>1, <3>1, WindowDays
    <2> HIDE DEF Back, keys
    <2> QED BY <1>6, <2>1, <2>2, <2>3, <2>4
  <1>9. \A row \in rows : /\ Report!Figure(row) = row.retained
                          /\ Report!DayOf(row) = row.cohort
    BY DEF Report!Figure, Report!DayOf
  <1>10. \A r, s \in rows : Report!KeyOf(r) = Report!KeyOf(s) => r = s
    <2> SUFFICES ASSUME NEW r \in rows, NEW s \in rows, Report!KeyOf(r) = Report!KeyOf(s)
                 PROVE  r = s
      OBVIOUS
    <2>1. <<r.cohort, r.day>> = <<s.cohort, s.day>>
      BY DEF Report!KeyOf
    <2>2. r = g[<<r.cohort, r.day>>] /\ s = g[<<s.cohort, s.day>>]
      BY <1>8
    <2> QED BY <2>1, <2>2
  <1>11. \A row \in rows : DayReplaced(now, Report!DayOf(row))
    BY <1>8, <1>9 DEF DayReplaced
  <1>12. ASSUME NEW d \in WholeDays(now)
         PROVE  SumOfRows(Report!RowsOf(rows, d)) = Total(now, read, d)
    <2> PICK R : R = Report!RowsOf(rows, d)
      OBVIOUS
    <2>1. R \subseteq rows /\ \A row \in rows : row \in R <=> row.cohort = d
      BY <1>9 DEF Report!RowsOf
    <2>2. IsFiniteSet(R)
      BY <1>7, <2>1, FS_Subset
    <2> PICK f, A : f = [row \in R |-> Report!Figure(row)]
                    /\ A = [row \in R |-> Back(d, row.day) \X {row.day}]
      OBVIOUS
    <2>3. \A row \in R : IsFiniteSet(A[row]) /\ f[row] = Cardinality(A[row])
      <3> SUFFICES ASSUME NEW row \in R
                   PROVE  IsFiniteSet(A[row]) /\ f[row] = Cardinality(A[row])
        OBVIOUS
      <3> PICK B : B = Back(d, row.day)
        OBVIOUS
      <3>0. A[row] = B \X {row.day}
        OBVIOUS
      <3> HIDE DEF Back
      <3>1. IsFiniteSet(B) /\ Cardinality(B) \in Nat
        BY <1>6
      <3>2. f[row] = Cardinality(B)
        BY <1>8, <1>9, <2>1
      <3>3. IsFiniteSet({row.day}) /\ Cardinality({row.day}) = 1
        BY FS_Singleton
      <3>4. IsFiniteSet(B \X {row.day}) /\ Cardinality(B \X {row.day}) = Cardinality(B) * 1
        BY <3>1, <3>3, FS_Product
      <3>5. Cardinality(B) * 1 = Cardinality(B)
        BY <3>1
      <3> QED BY <3>0, <3>2, <3>4, <3>5
    <2>4. \A q, r \in R : q # r => A[q] \cap A[r] = {}
      <3> SUFFICES ASSUME NEW q \in R, NEW r \in R, NEW x \in A[q] \cap A[r] PROVE q = r
        OBVIOUS
      <3>1. x[2] = q.day /\ x[2] = r.day
        OBVIOUS
      <3>2. q.cohort = d /\ r.cohort = d
        BY <2>1
      <3>3. q = g[<<q.cohort, q.day>>] /\ r = g[<<r.cohort, r.day>>]
        BY <1>8, <2>1
      <3> QED BY <3>1, <3>2, <3>3
    <2>5. UNION {A[r] : r \in R} = Visits(now, read, d)
      <3>1. ASSUME NEW x, x \in Visits(now, read, d) PROVE x \in UNION {A[r] : r \in R}
        <4>1. /\ x \in read.members \X Report!Days
              /\ Report!UtcDay(joined[x[1]]) = d /\ d <= x[2]
              /\ \E r \in DatedOn(read.events, now, x[2]) : r.user = x[1] /\ r.type = "paid"
          BY <3>1 DEF Visits
        <4> PICK u, day : u = x[1] /\ day = x[2]
          OBVIOUS
        <4>2. x = <<u, day>> /\ u \in read.members /\ day \in Report!Days
          BY <4>1
        <4>3. PICK r \in read.events : /\ Report!UtcDay(r.at) = day
                                       /\ r.user = u /\ r.type = "paid"
          BY <4>1 DEF DatedOn
        <4>4. Report!InWindow(now, joined[u])
          BY <1>1, <4>1, <4>2, WindowDays DEF WholeDays
        <4>5. u \in Cohort(d) /\ u \in newcomers
          BY <4>1, <4>2, <4>4
        <4>6. u \in Report!UsersOf(Paid(day))
          BY <4>3 DEF Report!UsersOf
        <4>7. u \in Back(d, day)
          BY <4>5, <4>6
        <4>8. d \in Report!Days
          BY <1>1, <4>1, <4>2, WindowDays
        <4>9. <<d, day>> \in keys
          BY <4>1, <4>2, <4>7, <4>8
        <4> HIDE DEF Back, keys
        <4>10. g[<<d, day>>] \in rows /\ g[<<d, day>>].cohort = d /\ g[<<d, day>>].day = day
          <5> PICK k : k = <<d, day>>
            OBVIOUS
          <5>1. k \in keys /\ k[1] = d /\ k[2] = day
            BY <4>9
          <5>2. g[k] \in rows /\ g[k].cohort = k[1] /\ g[k].day = k[2]
            BY <1>4, <1>5, <5>1
          <5> QED BY <5>1, <5>2
        <4> PICK row : row = g[<<d, day>>]
          OBVIOUS
        <4>11. row \in R /\ row.day = day
          BY <2>1, <4>10
        <4>12. A[row] = Back(d, day) \X {day}
          BY <4>11
        <4>13. x \in A[row]
          BY <4>2, <4>7, <4>12
        <4> QED BY <4>11, <4>13
      <3>2. ASSUME NEW x, x \in UNION {A[r] : r \in R} PROVE x \in Visits(now, read, d)
        <4> PICK row \in R : x \in A[row]
          BY <3>2
        <4> PICK u, day : u = x[1] /\ day = x[2]
          OBVIOUS
        <4>1. day = row.day /\ u \in Back(d, day) /\ x = <<u, day>>
          OBVIOUS
        <4>2. row.cohort = d /\ <<row.cohort, row.day>> \in keys
          BY <1>8, <2>1
        <4>3. <<d, day>> \in keys
          BY <4>1, <4>2
        <4>4. day \in Report!Days /\ d <= day
          BY <4>3
        <4>5. u \in read.members /\ Report!UtcDay(joined[u]) = d
          BY <4>1
        <4>6. PICK r \in read.events : /\ r.type = "paid" /\ Report!UtcDay(r.at) = day
                                       /\ r.user = u
          BY <4>1 DEF Report!UsersOf
        <4>7. r \in DatedOn(read.events, now, day)
          BY <1>1, <4>6 DEF DatedOn, Report!InWindow
        <4> QED BY <4>1, <4>4, <4>5, <4>6, <4>7 DEF Visits
      <3> QED BY <3>1, <3>2
    <2>6. SumFunctionOnSet(f, R) = Cardinality(Visits(now, read, d))
      <3>1. SumFunctionOnSet(f, R) = Cardinality(Joined(A, R))
        <4>1. SizesOfParts(f, A, R)
          BY <2>2, <2>3, <2>4 DEF SizesOfParts
        <4> HIDE DEF Back
        <4> QED BY <4>1, SumOfParts
      <3> QED BY <2>5, <3>1 DEF Joined
    <2>7. SumOfRows(Report!RowsOf(rows, d)) = SumFunctionOnSet(f, R)
      BY DEF SumOfRows
    <2> QED BY <2>6, <2>7 DEF Total
  <1>13. \A row \in rows : Report!Figure(row) \in Nat /\ Report!DayOf(row) \in Report!Days
    BY <1>8, <1>9
  <1> QED BY <1>7, <1>10, <1>11, <1>12, <1>13 DEF rows, WrittenRows, RowsKnown

LEMMA NewRowsWritten ==
    ASSUME WindowKnown, SourcesInv, NEW now, NEW read, ReadKnown(now, read)
    PROVE  WrittenRows(now, read, Report!NewRows(now, read))
  <1>1. CASE follows = "conversion"
    BY <1>1, ConversionsWritten DEF Report!NewRows
  <1>2. CASE follows = "performance"
    BY <1>2, PerformanceWritten DEF Report!NewRows
  <1>3. CASE follows = "liability"
    BY <1>3, LiabilitiesWritten DEF Report!NewRows
  <1>4. CASE follows = "retention"
    BY <1>4, RetentionWritten DEF Report!NewRows
  <1> QED BY <1>1, <1>2, <1>3, <1>4 DEF SourcesInv, Report!Tables

-----------------------------------------------------------------------------
(* Reporting: totals.                                                      *)

FiniteRead(read) ==
    /\ IsFiniteSet(read.events) /\ IsFiniteSet(read.members)
    /\ IsFiniteSet(read.entries) /\ IsFiniteSet(read.posted)

LEMMA DaysAreFinite == ASSUME WindowKnown PROVE IsFiniteSet(Report!Days)
  <1>1. Report!UtcDay(LastInstant) \in Int
    BY DayBounds DEF WindowKnown
  <1> QED BY <1>1, FS_Interval DEF Report!Days

LEMMA DatedIsFinite ==
    ASSUME NEW rows, IsFiniteSet(rows), NEW now, NEW d
    PROVE  IsFiniteSet(DatedOn(rows, now, d)) /\ Cardinality(DatedOn(rows, now, d)) \in Nat
  BY FS_Subset, FS_CardinalityType DEF DatedOn

LEMMA DatedGrows ==
    ASSUME NEW rows, NEW more, rows \subseteq more, IsFiniteSet(more), NEW now, NEW then, NEW d,
           now \in Int, then \in Int, now <= then, \A r \in rows : r.at \in Int
    PROVE  /\ DatedOn(rows, now, d) \subseteq DatedOn(more, then, d)
           /\ Cardinality(DatedOn(rows, now, d)) \in Nat
           /\ Cardinality(DatedOn(more, then, d)) \in Nat
           /\ Cardinality(DatedOn(rows, now, d)) <= Cardinality(DatedOn(more, then, d))
  <1>1. DatedOn(rows, now, d) \subseteq DatedOn(more, then, d)
    BY DEF DatedOn
  <1>2. IsFiniteSet(DatedOn(more, then, d))
    BY DatedIsFinite
  <1> QED BY <1>1, <1>2, FS_Subset, FS_CardinalityType

\* A day has no less to count later, and in more rows.
LEMMA TotalsGrow ==
    ASSUME WindowKnown, follows \in Report!Tables, NEW now, NEW then, NEW read, NEW more, NEW d,
           now \in Int, then \in Int, now <= then, FiniteRead(more),
           read.events \subseteq more.events, read.members \subseteq more.members,
           read.entries \subseteq more.entries, read.posted \subseteq more.posted,
           \A r \in read.events \cup read.entries \cup read.posted : r.at \in Int
    PROVE  /\ Total(now, read, d) \in Nat /\ Total(then, more, d) \in Nat
           /\ Total(now, read, d) <= Total(then, more, d)
  <1>1. CASE follows = "conversion"
    <2> PICK a, m : /\ a = Cardinality(DatedOn(read.events, now, d))
                    /\ m = Cardinality(DatedOn(more.events, then, d))
      OBVIOUS
    <2>1. Total(now, read, d) = a /\ Total(then, more, d) = m
      BY <1>1 DEF Total
    <2>2. a \in Nat /\ m \in Nat /\ a <= m
      BY DatedGrows DEF FiniteRead
    <2> QED BY <2>1, <2>2
  <1>2. CASE follows = "performance"
    <2> PICK a, b, m, n :
            /\ a = Cardinality(DatedOn(read.entries, now, d))
            /\ b = Cardinality(DatedOn(read.posted, now, d))
            /\ m = Cardinality(DatedOn(more.entries, then, d))
            /\ n = Cardinality(DatedOn(more.posted, then, d))
      OBVIOUS
    <2>1. Total(now, read, d) = a + b /\ Total(then, more, d) = m + n
      BY <1>2 DEF Total
    <2>2. a \in Nat /\ m \in Nat /\ a <= m
      BY DatedGrows DEF FiniteRead
    <2>3. b \in Nat /\ n \in Nat /\ b <= n
      BY DatedGrows DEF FiniteRead
    <2> QED BY <2>1, <2>2, <2>3
  <1>3. CASE follows = "liability"
    <2> PICK some, all : /\ some = {r \in read.entries : r.at <= now}
                         /\ all = {r \in more.entries : r.at <= then}
      OBVIOUS
    <2>1. Total(now, read, d) = Cardinality(some) /\ Total(then, more, d) = Cardinality(all)
      BY <1>3 DEF Total
    <2>2. some \subseteq all /\ IsFiniteSet(all)
      <3>1. all \subseteq more.entries
        OBVIOUS
      <3> QED BY <3>1, FS_Subset DEF FiniteRead
    <2> QED BY <2>1, <2>2, FS_Subset, FS_CardinalityType
  <1>4. CASE follows = "retention"
    <2> PICK some, all : some = Visits(now, read, d) /\ all = Visits(then, more, d)
      OBVIOUS
    <2>1. Total(now, read, d) = Cardinality(some) /\ Total(then, more, d) = Cardinality(all)
      BY <1>4 DEF Total
    <2>2. some \subseteq all
      <3> SUFFICES ASSUME NEW p \in some PROVE p \in all
        OBVIOUS
      <3>1. /\ p \in read.members \X Report!Days
            /\ Report!UtcDay(joined[p[1]]) = d /\ d <= p[2]
        BY DEF Visits
      <3>2. PICK r \in DatedOn(read.events, now, p[2]) : r.user = p[1] /\ r.type = "paid"
        BY DEF Visits
      <3>3. r \in DatedOn(more.events, then, p[2])
        <4>1. r \in more.events /\ r.at \in Int
              /\ Report!UtcDay(r.at) = p[2] /\ r.at <= now
          BY <3>2 DEF DatedOn
        <4>2. r.at <= then
          BY <4>1
        <4> QED BY <4>1, <4>2 DEF DatedOn
      <3> QED BY <3>1, <3>2, <3>3 DEF Visits
    <2>3. IsFiniteSet(all)
      <3>1. IsFiniteSet(more.members \X Report!Days)
        BY DaysAreFinite, FS_Product DEF FiniteRead
      <3>2. all \subseteq more.members \X Report!Days
        BY DEF Visits
      <3> QED BY <3>1, <3>2, FS_Subset
    <2> QED BY <2>1, <2>2, <2>3, FS_Subset, FS_CardinalityType
  <1> QED BY <1>1, <1>2, <1>3, <1>4 DEF Report!Tables

\* The window of a run holds all there is to count for its days but the first.
LEMMA WindowHoldsDays ==
    ASSUME WindowKnown, follows \in Report!Tables, NEW now \in Report!Times,
           NEW read, NEW more, NEW d \in Int, Report!UtcDay(now) - (Lookback - 1) < d,
           read.events = {r \in more.events : Report!InWindow(now, r.at)},
           read.posted = {r \in more.posted : Report!InWindow(now, r.at)},
           read.members = more.members, read.entries = more.entries,
           \A r \in more.events \cup more.posted : r.at \in Report!Times
    PROVE  Total(now, read, d) = Total(now, more, d)
  <1>1. Report!UtcDay(now) - (Lookback - 1) \in Int
    BY DayBounds DEF WindowKnown, Report!Times
  <1>2. ASSUME NEW rows, NEW all, rows = {r \in all : Report!InWindow(now, r.at)}, NEW day \in Int,
               d <= day, \A r \in all : r.at \in Report!Times
        PROVE  DatedOn(rows, now, day) = DatedOn(all, now, day)
    <2>1. \A r \in all : Report!UtcDay(r.at) = day /\ r.at <= now => Report!InWindow(now, r.at)
      <3> SUFFICES ASSUME NEW r \in all, Report!UtcDay(r.at) = day, r.at <= now
                   PROVE  Report!InWindow(now, r.at)
        OBVIOUS
      <3>1. Report!UtcDay(now) - (Lookback - 1) < day
        BY <1>1, <1>2
      <3> QED BY <1>2, <3>1, WindowDays
    <2> QED BY <1>2, <2>1 DEF DatedOn
  <1>3. CASE follows = "conversion"
    <2>1. DatedOn(read.events, now, d) = DatedOn(more.events, now, d)
      BY <1>2
    <2> QED BY <1>3, <2>1 DEF Total
  <1>4. CASE follows = "performance"
    <2>1. DatedOn(read.posted, now, d) = DatedOn(more.posted, now, d)
      BY <1>2
    <2> QED BY <1>4, <2>1 DEF Total
  <1>5. CASE follows = "liability"
    BY <1>5 DEF Total
  <1>6. CASE follows = "retention"
    <2>1. \A day \in Report!Days :
             d <= day => DatedOn(read.events, now, day) = DatedOn(more.events, now, day)
      <3>1. Report!Days \subseteq Int
        BY DEF Report!Days
      <3> QED BY <1>2, <3>1
    <2>2. ASSUME NEW p \in read.members \X Report!Days, d <= p[2]
          PROVE  DatedOn(read.events, now, p[2]) = DatedOn(more.events, now, p[2])
      <3>1. p[2] \in Report!Days
        OBVIOUS
      <3> QED BY <2>1, <2>2, <3>1
    <2>3. Visits(now, read, d) = Visits(now, more, d)
      BY <2>2 DEF Visits
    <2> QED BY <1>6, <2>3 DEF Total
  <1> QED BY <1>3, <1>4, <1>5, <1>6 DEF Report!Tables

\* Totals of what was read stay while the sources grow.
LEMMA TotalsStay ==
    ASSUME follows' = follows, NEW now, NEW read, NEW d,
           \A u \in read.members : joined'[u] = joined[u]
    PROVE  Total(now, read, d)' = Total(now, read, d)
  <1>1. Visits(now, read, d)' = Visits(now, read, d)
    BY DEF Visits
  <1> QED BY <1>1 DEF Total

-----------------------------------------------------------------------------
(* Reporting: the inductive invariant.                                     *)

Sources ==
    [events |-> log, members |-> DOMAIN joined, entries |-> credited, posted |-> posted]
CurrentRead ==
    [events |-> {r \in log : Report!InWindow(clock, r.at)}, members |-> DOMAIN joined,
     entries |-> credited, posted |-> {r \in posted : Report!InWindow(clock, r.at)}]

\* The rows of a day after the first of the window of now show no more than there
\* is to count.
Bounded(now, read) ==
    \A d \in Report!Days :
        Report!UtcDay(now) - (Lookback - 1) < d => Report!Shown(d) <= Total(now, read, d)
\* The rows are those of a run of now and rows it does not replace.
Rebuilt(now, read) ==
    \E kept : /\ table = kept \cup Report!NewRows(now, read)
              /\ \A row \in kept : ~Report!Replaced(now, row)

ReportInv ==
    /\ SourcesInv /\ RowsKnown(table)
    /\ rollup.pc \in {"idle", "write"} /\ exact \in BOOLEAN
    /\ \A now, read : now = clock /\ read = Sources => Bounded(now, read)
    /\ \A now, read : rollup.pc = "write" /\ now = rollup.now /\ read = rollup.read =>
          /\ ReadKnown(now, read) /\ Bounded(now, read)
          /\ read = [events |-> read.events, members |-> read.members,
                     entries |-> read.entries, posted |-> read.posted]
    /\ \A now, read : exact /\ now = clock /\ read = CurrentRead => Rebuilt(now, read)

\* What a table shows of a day is the sum of that day's rows.
ShownIsSum == RowsKnown(table) =>
    \A d : /\ Report!Shown(d) = SumOfRows(Report!RowsOf(table, d))
           /\ SumOfRows(Report!RowsOf(table, d)) \in Nat
LEMMA ShownIsSumNow == ShownIsSum
  <1> SUFFICES ASSUME RowsKnown(table), NEW d
               PROVE  /\ Report!Shown(d) = SumOfRows(Report!RowsOf(table, d))
                      /\ SumOfRows(Report!RowsOf(table, d)) \in Nat
    BY DEF ShownIsSum
  <1> PICK rows, f, g :
          /\ rows = Report!RowsOf(table, d)
          /\ f = [row \in table |-> Report!Figure(row)]
          /\ g = [row \in rows |-> Report!Figure(row)]
    OBVIOUS
  <1>1. rows \subseteq table /\ IsFiniteSet(rows)
    <2>1. rows \subseteq table
      BY DEF Report!RowsOf
    <2> QED BY <2>1, FS_Subset DEF RowsKnown
  <1>2. \A row \in rows : f[row] = g[row] /\ g[row] \in Nat
    BY <1>1 DEF RowsKnown
  <1>3. SumFunctionOnSet(f, rows) = SumFunctionOnSet(g, rows)
    BY <1>1, <1>2, SumsAgree
  <1>4. SumFunctionOnSet(g, rows) \in Nat
    BY <1>1, <1>2, SumIsNatural
  <1>5. Report!Shown(d) = SumFunctionOnSet(f, rows)
    BY ReportSums DEF Report!Shown
  <1> QED BY <1>3, <1>4, <1>5 DEF SumOfRows
LEMMA ShownIsSumNext == ShownIsSum'
  BY ShownIsSumNow, PTL

TotalsOnlyGrow ==
    \A now, then, read, more, d :
        /\ WindowKnown /\ follows \in Report!Tables /\ now \in Int /\ then \in Int /\ now <= then
        /\ FiniteRead(more)
        /\ read.events \subseteq more.events /\ read.members \subseteq more.members
        /\ read.entries \subseteq more.entries /\ read.posted \subseteq more.posted
        /\ \A r \in read.events \cup read.entries \cup read.posted : r.at \in Int
        => /\ Total(now, read, d) \in Nat /\ Total(then, more, d) \in Nat
           /\ Total(now, read, d) <= Total(then, more, d)
LEMMA TotalsOnlyGrowNow == TotalsOnlyGrow
  BY TotalsGrow DEF TotalsOnlyGrow
LEMMA TotalsOnlyGrowNext == TotalsOnlyGrow'
  BY TotalsOnlyGrowNow, PTL

\* Operators that read only follows, of rows and days that do not change.
LEMMA SameFigures ==
    ASSUME follows' = follows, NEW rows
    PROVE  /\ RowsKnown(rows)' <=> RowsKnown(rows)
           /\ \A d : Report!RowsOf(rows, d)' = Report!RowsOf(rows, d)
           /\ SumOfRows(rows)' = SumOfRows(rows)
  <1>1. SumOfRows(rows)' = SumOfRows(rows)
    BY DEF SumOfRows, Report!Figure
  <1>2. \A d : Report!RowsOf(rows, d)' = Report!RowsOf(rows, d)
    BY DEF Report!RowsOf, Report!DayOf
  <1>3. RowsKnown(rows)' <=> RowsKnown(rows)
    BY DEF RowsKnown, Report!Figure, Report!DayOf, Report!KeyOf
  <1> QED BY <1>1, <1>2, <1>3

\* What the rows show after a step that leaves the kind of the table.
LEMMA ShownNext ==
    ASSUME follows' = follows, NEW rows, rows = table', RowsKnown(rows), NEW d
    PROVE  /\ RowsKnown(table)' /\ Report!Shown(d)' = SumOfRows(Report!RowsOf(rows, d))
           /\ SumOfRows(Report!RowsOf(rows, d)) \in Nat
  <1>1. RowsKnown(table)'
    <2>1. RowsKnown(rows)'
      BY SameFigures
    <2> QED BY <2>1 DEF RowsKnown
  <1>2. /\ Report!Shown(d)' = SumOfRows(Report!RowsOf(table, d))'
        /\ SumOfRows(Report!RowsOf(table, d))' \in Nat
    BY <1>1, ShownIsSumNext DEF ShownIsSum
  <1> PICK day : day = Report!RowsOf(rows, d)
    OBVIOUS
  <1>3. SumOfRows(Report!RowsOf(table, d))' = SumOfRows(day)'
    <2>1. Report!RowsOf(table, d)' = day
      BY DEF Report!RowsOf, Report!DayOf
    <2> QED BY <2>1 DEF SumOfRows, Report!Figure
  <1>4. SumOfRows(day)' = SumOfRows(day)
    BY SameFigures
  <1> QED BY <1>1, <1>2, <1>3, <1>4

LEMMA SameShown ==
    ASSUME ReportInv, table' = table, follows' = follows
    PROVE  /\ RowsKnown(table)'
           /\ \A d : Report!Shown(d)' = Report!Shown(d) /\ Report!Shown(d) \in Nat
  <1> PICK rows : rows = table
    OBVIOUS
  <1>1. RowsKnown(rows)
    BY DEF ReportInv
  <1>2. \A d : /\ RowsKnown(table)' /\ Report!Shown(d)' = SumOfRows(Report!RowsOf(rows, d))
               /\ SumOfRows(Report!RowsOf(rows, d)) \in Nat
    BY <1>1, ShownNext
  <1>3. \A d : Report!Shown(d) = SumOfRows(Report!RowsOf(rows, d))
    BY <1>1, ShownIsSumNow DEF ShownIsSum
  <1> QED BY <1>2, <1>3

-----------------------------------------------------------------------------
(* Reporting: the initial states and the sources' steps.                   *)

LEMMA ReportInitially ==
    ASSUME WindowKnown, Report!Init
    PROVE  ReportInv
  <1>1. SourcesInv
    <2>1. 0 \in Report!Times
      BY DEF Report!Times, WindowKnown
    <2>2. DOMAIN joined = {}
      BY DEF Report!Init
    <2> QED BY <2>1, <2>2, FS_EmptySet DEF Report!Init, SourcesInv
  <1>2. RowsKnown(table)
    BY FS_EmptySet DEF Report!Init, RowsKnown
  <1>3. \A d : Report!Shown(d) = 0
    <2>1. \A d : Report!RowsOf(table, d) = {}
      BY DEF Report!Init, Report!RowsOf
    <2> QED BY <2>1, ReportSums, SumEmpty DEF Report!Shown
  <1>4. ASSUME NEW now, NEW read, now = clock, read = Sources PROVE Bounded(now, read)
    <2>1. /\ FiniteRead(read) /\ now \in Int /\ now <= now /\ follows \in Report!Tables
          /\ \A r \in read.events \cup read.entries \cup read.posted : r.at \in Int
      BY <1>1, <1>4, FS_EmptySet
         DEF Report!Init, SourcesInv, Sources, FiniteRead
    <2>2. \A d : Total(now, read, d) \in Nat
      BY <2>1, TotalsGrow
    <2> QED BY <1>3, <2>2 DEF Bounded
  <1> QED BY <1>1, <1>2, <1>4 DEF ReportInv, Report!Init, Report!Idle

SourcesGrow ==
    /\ clock <= clock' /\ log \subseteq log' /\ DOMAIN joined \subseteq DOMAIN joined'
    /\ \A u \in DOMAIN joined : joined'[u] = joined[u]
    /\ credited \subseteq credited' /\ posted \subseteq posted'
    /\ follows' = follows /\ table' = table

\* However the sources grow, nobody is shown more than there is to count.
LEMMA GrowthKeepsBounds ==
    ASSUME WindowKnown, ReportInv, SourcesInv', SourcesGrow
    PROVE  /\ \A now, read : now = clock' /\ read = Sources' => Bounded(now, read)'
           /\ \A now, read : rollup.pc = "write" /\ now = rollup.now /\ read = rollup.read =>
                 ReadKnown(now, read)' /\ Bounded(now, read)'
  <1> PICK old, was : old = clock /\ was = Sources
    OBVIOUS
  <1>1. /\ \A d : Report!Shown(d)' = Report!Shown(d) /\ Report!Shown(d) \in Nat
        /\ old \in Nat /\ was.members = DOMAIN joined
        /\ follows \in Report!Tables /\ follows' = follows
    BY SameShown DEF ReportInv, SourcesInv, SourcesGrow, Report!Times, Sources
  <1>2. ASSUME NEW now, NEW read, now = clock', read = Sources' PROVE Bounded(now, read)'
    <2>1. Bounded(old, was)
      BY DEF ReportInv
    <2>2. \A d : Total(old, was, d)' = Total(old, was, d)
      BY <1>1, TotalsStay DEF SourcesGrow
    <2>3. ASSUME NEW d PROVE /\ Total(old, was, d) \in Nat /\ Total(now, read, d)' \in Nat
                             /\ Total(old, was, d) <= Total(now, read, d)'
      <3>1. /\ was.events \subseteq read.events /\ was.members \subseteq read.members
            /\ was.entries \subseteq read.entries /\ was.posted \subseteq read.posted
        BY <1>2 DEF SourcesGrow, Sources
      <3>2. FiniteRead(read)
        BY <1>2 DEF SourcesInv, Sources, FiniteRead
      <3>3. \A r \in was.events \cup was.entries \cup was.posted : r.at \in Int
        BY DEF ReportInv, SourcesInv, Sources, Report!Times
      <3>4. now \in Int /\ old \in Int /\ old <= now
        BY <1>2 DEF ReportInv, SourcesInv, SourcesGrow, Report!Times
      <3>5. FiniteRead(read)' /\ WindowKnown' /\ (follows \in Report!Tables)'
        BY <1>1, <3>2 DEF FiniteRead, WindowKnown, Report!Tables
      <3>6. /\ Total(old, was, d)' \in Nat /\ Total(now, read, d)' \in Nat
            /\ Total(old, was, d)' <= Total(now, read, d)'
        BY <3>1, <3>3, <3>4, <3>5, TotalsOnlyGrowNext DEF TotalsOnlyGrow
      <3> QED BY <2>2, <3>6
    <2>4. Report!UtcDay(old) <= Report!UtcDay(now)
          /\ Report!UtcDay(old) \in Int /\ Report!UtcDay(now) \in Int
      BY <1>2, DayBounds, DaysGrow DEF ReportInv, SourcesInv, SourcesGrow, Report!Times
    <2>5. Report!Days \subseteq Int
      BY DEF Report!Days
    <2>6. ASSUME NEW d \in Report!Days, Report!UtcDay(now) - (Lookback - 1) < d
          PROVE  Report!Shown(d)' <= Total(now, read, d)'
      <3>1. Report!UtcDay(old) - (Lookback - 1) < d
        BY <2>4, <2>5, <2>6 DEF WindowKnown
      <3>2. Report!Shown(d) <= Total(old, was, d)
        BY <2>1, <3>1 DEF Bounded
      <3> PICK shown, mine, all : /\ shown = Report!Shown(d) /\ mine = Total(old, was, d)
                                  /\ all = Total(now, read, d)'
        OBVIOUS
      <3>3. shown \in Nat /\ mine \in Nat /\ all \in Nat /\ shown <= mine /\ mine <= all
        BY <1>1, <2>3, <3>2
      <3>4. shown <= all
        BY <3>3
      <3> QED BY <1>1, <3>4
    <2> QED BY <2>6 DEF Bounded, Report!UtcDay, Report!Days
  <1>3. ASSUME NEW now, NEW read, rollup.pc = "write", now = rollup.now, read = rollup.read
        PROVE  ReadKnown(now, read)' /\ Bounded(now, read)'
    <2>1. ReadKnown(now, read) /\ Bounded(now, read)
      BY <1>3 DEF ReportInv
    <2>2. \A d : Total(now, read, d)' = Total(now, read, d)
      <3>1. \A u \in read.members : joined'[u] = joined[u]
        BY <2>1 DEF ReadKnown, SourcesGrow
      <3> QED BY <1>1, <3>1, TotalsStay
    <2>3. Bounded(now, read)'
      BY <1>1, <2>1, <2>2 DEF Bounded, Report!UtcDay, Report!Days
    <2>4. ReadKnown(now, read)'
      <3>1. now \in Report!Times /\ now <= clock /\ clock \in Int /\ clock' \in Int
        BY <2>1 DEF ReadKnown, ReportInv, SourcesInv, Report!Times
      <3>2. now <= clock'
        BY <3>1 DEF SourcesGrow, Report!Times
      <3>3. /\ {u \in DOMAIN joined : joined[u] <= now}
                   \subseteq {u \in DOMAIN joined' : joined'[u] <= now}
            /\ {r \in log : Report!InWindow(now, r.at)}
                   \subseteq {r \in log' : Report!InWindow(now, r.at)}
            /\ {r \in posted : Report!InWindow(now, r.at)}
                   \subseteq {r \in posted' : Report!InWindow(now, r.at)}
            /\ {r \in credited : r.at <= now} \subseteq {r \in credited' : r.at <= now}
        BY DEF SourcesGrow
      <3>4. /\ read.events \subseteq {r \in log' : Report!InWindow(now, r.at)}
            /\ read.members \subseteq {u \in DOMAIN joined' : joined'[u] <= now}
            /\ read.entries \subseteq {r \in credited' : r.at <= now}
            /\ read.posted \subseteq {r \in posted' : Report!InWindow(now, r.at)}
        <4>1. /\ read.events \subseteq {r \in log : Report!InWindow(now, r.at)}
              /\ read.members \subseteq {u \in DOMAIN joined : joined[u] <= now}
              /\ read.entries \subseteq {r \in credited : r.at <= now}
              /\ read.posted \subseteq {r \in posted : Report!InWindow(now, r.at)}
          BY <2>1 DEF ReadKnown
        <4> QED BY <3>3, <4>1
      <3> QED BY <3>1, <3>2, <3>4
          DEF ReadKnown, Report!Times, Report!InWindow, Report!WindowStart
    <2> QED BY <2>3, <2>4
  <1> QED BY <1>2, <1>3

LEMMA SourcesStep ==
    ASSUME WindowKnown, ReportInv, SourcesInv', SourcesGrow, exact' = FALSE, rollup' = rollup
    PROVE  ReportInv' /\ Report!KeepsOldDays
  <1>1. /\ RowsKnown(table)' /\ \A d : Report!Shown(d)' = Report!Shown(d) /\ Report!Shown(d) \in Nat
    BY SameShown DEF SourcesGrow
  <1>2. Report!KeepsOldDays
    BY <1>1 DEF Report!KeepsOldDays
  <1>3. /\ \A now, read : now = clock' /\ read = Sources' => Bounded(now, read)'
        /\ \A now, read : rollup'.pc = "write" /\ now = rollup'.now /\ read = rollup'.read =>
              /\ ReadKnown(now, read)' /\ Bounded(now, read)'
              /\ read = [events |-> read.events, members |-> read.members,
                         entries |-> read.entries, posted |-> read.posted]
    BY GrowthKeepsBounds DEF ReportInv
  <1>4. rollup'.pc \in {"idle", "write"} /\ exact' \in BOOLEAN
    BY DEF ReportInv
  <1> QED BY <1>1, <1>2, <1>3, <1>4 DEF ReportInv

LEMMA ReportStep ==
    ASSUME WindowKnown, ReportInv, NEW e \in EventIds, NEW type \in Types, NEW u \in People,
           NEW when \in Report!Times, Report!Report(e, type, u, when)
    PROVE  ReportInv' /\ Report!KeepsOldDays
  <1> PICK row : row = [id |-> e, type |-> type, user |-> u, at |-> when]
    OBVIOUS
  <1>1. /\ log' = log \cup {row} /\ exact' = FALSE
        /\ clock' = clock /\ joined' = joined /\ credited' = credited /\ posted' = posted
        /\ follows' = follows /\ table' = table /\ rollup' = rollup
    BY DEF Report!Report
  <1>2. IsFiniteSet(log \cup {row})
    BY FS_AddElement DEF ReportInv, SourcesInv
  <1>3. SourcesInv'
    BY <1>1, <1>2 DEF ReportInv, SourcesInv, Report!Times
  <1>4. SourcesGrow
    BY <1>1 DEF ReportInv, SourcesInv, SourcesGrow, Report!Times
  <1> QED BY <1>1, <1>3, <1>4, SourcesStep

LEMMA JoinStep ==
    ASSUME WindowKnown, ReportInv, NEW u \in People, Report!Join(u)
    PROVE  ReportInv' /\ Report!KeepsOldDays
  <1>1. /\ joined' = [x \in DOMAIN joined \cup {u} |-> IF x = u THEN clock ELSE joined[x]]
        /\ u \notin DOMAIN joined /\ exact' = FALSE
        /\ clock' = clock /\ log' = log /\ credited' = credited /\ posted' = posted
        /\ follows' = follows /\ table' = table /\ rollup' = rollup
    BY DEF Report!Join
  <1>2. /\ DOMAIN joined' = DOMAIN joined \cup {u} /\ joined'[u] = clock
        /\ \A x \in DOMAIN joined : joined'[x] = joined[x]
    BY <1>1
  <1>3. IsFiniteSet(DOMAIN joined \cup {u})
    BY FS_AddElement DEF ReportInv, SourcesInv
  <1>4. clock \in Int /\ clock <= clock
    BY DEF ReportInv, SourcesInv, Report!Times
  <1>5. \A x \in DOMAIN joined' : joined'[x] \in Report!Times /\ joined'[x] <= clock
    BY <1>2, <1>4 DEF ReportInv, SourcesInv
  <1>6. SourcesInv'
    BY <1>1, <1>2, <1>3, <1>5 DEF ReportInv, SourcesInv, Report!Times
  <1>7. SourcesGrow
    BY <1>1, <1>2, <1>4 DEF SourcesGrow
  <1> QED BY <1>1, <1>6, <1>7, SourcesStep

LEMMA CreditStep ==
    ASSUME WindowKnown, ReportInv, NEW p \in Payouts, NEW u \in People, Report!PostEntry(p, u)
    PROVE  ReportInv' /\ Report!KeepsOldDays
  <1> PICK row : row = [id |-> p, user |-> u, at |-> clock]
    OBVIOUS
  <1>1. /\ credited' = credited \cup {row} /\ exact' = FALSE
        /\ clock' = clock /\ log' = log /\ joined' = joined /\ posted' = posted
        /\ follows' = follows /\ table' = table /\ rollup' = rollup
    BY DEF Report!PostEntry
  <1>2. IsFiniteSet(credited \cup {row}) /\ clock <= clock /\ row.at <= clock
    <2>1. IsFiniteSet(credited \cup {row})
      BY FS_AddElement DEF ReportInv, SourcesInv
    <2>2. clock \in Int /\ row.at = clock
      BY DEF ReportInv, SourcesInv, Report!Times
    <2> QED BY <2>1, <2>2
  <1>3. SourcesInv'
    BY <1>1, <1>2 DEF ReportInv, SourcesInv, Report!Times
  <1>4. SourcesGrow
    BY <1>1, <1>2 DEF SourcesGrow
  <1> QED BY <1>1, <1>3, <1>4, SourcesStep

LEMMA MarkStep ==
    ASSUME WindowKnown, ReportInv, NEW p \in Payouts, Report!MarkPosted(p)
    PROVE  ReportInv' /\ Report!KeepsOldDays
  <1> PICK row : row = [id |-> p, at |-> clock]
    OBVIOUS
  <1>1. /\ posted' = posted \cup {row} /\ exact' = FALSE
        /\ clock' = clock /\ log' = log /\ joined' = joined /\ credited' = credited
        /\ follows' = follows /\ table' = table /\ rollup' = rollup
    BY DEF Report!MarkPosted
  <1>2. IsFiniteSet(posted \cup {row}) /\ clock <= clock /\ row.at <= clock
    <2>1. IsFiniteSet(posted \cup {row})
      BY FS_AddElement DEF ReportInv, SourcesInv
    <2>2. clock \in Int /\ row.at = clock
      BY DEF ReportInv, SourcesInv, Report!Times
    <2> QED BY <2>1, <2>2
  <1>3. SourcesInv'
    BY <1>1, <1>2 DEF ReportInv, SourcesInv, Report!Times
  <1>4. SourcesGrow
    BY <1>1, <1>2 DEF SourcesGrow
  <1> QED BY <1>1, <1>3, <1>4, SourcesStep

LEMMA TickStep ==
    ASSUME WindowKnown, ReportInv, Report!Tick
    PROVE  ReportInv' /\ Report!KeepsOldDays
  <1>1. /\ clock < LastInstant /\ clock' = clock + 1 /\ exact' = FALSE
        /\ log' = log /\ joined' = joined /\ credited' = credited /\ posted' = posted
        /\ follows' = follows /\ table' = table /\ rollup' = rollup
    BY DEF Report!Tick, Report!sourceVars
  <1>2. clock \in Nat /\ LastInstant \in Nat /\ clock' \in Report!Times /\ clock <= clock'
    BY <1>1 DEF ReportInv, SourcesInv, Report!Times, WindowKnown
  <1>3. /\ \A u \in DOMAIN joined : joined[u] \in Nat /\ joined[u] <= clock
        /\ \A r \in credited : r.at \in Nat /\ r.at <= clock
        /\ \A r \in posted : r.at \in Nat /\ r.at <= clock
    BY DEF ReportInv, SourcesInv, Report!Times
  <1>4. /\ \A u \in DOMAIN joined : joined[u] <= clock'
        /\ \A r \in credited : r.at <= clock'
        /\ \A r \in posted : r.at <= clock'
    BY <1>1, <1>2, <1>3
  <1>5. SourcesInv'
    BY <1>1, <1>2, <1>4 DEF ReportInv, SourcesInv, Report!Times, Report!Tables
  <1>6. SourcesGrow
    BY <1>1, <1>2 DEF SourcesGrow
  <1> QED BY <1>1, <1>5, <1>6, SourcesStep

-----------------------------------------------------------------------------
(* Reporting: a run.                                                       *)

SameSources ==
    /\ clock' = clock /\ log' = log /\ joined' = joined /\ credited' = credited
    /\ posted' = posted /\ follows' = follows

LEMMA SourcesStay ==
    ASSUME ReportInv, SameSources, table' = table
    PROVE  /\ SourcesInv' /\ RowsKnown(table)' /\ Report!KeepsOldDays
           /\ \A now, read : ReadKnown(now, read)' <=> ReadKnown(now, read)
           /\ \A now, read, d : Total(now, read, d)' = Total(now, read, d)
           /\ \A now, read : Bounded(now, read)' <=> Bounded(now, read)
           /\ \A now, read : now = clock' /\ read = Sources' => Bounded(now, read)'
  <1>1. SourcesInv'
    BY DEF ReportInv, SourcesInv, SameSources, Report!Times, Report!Tables
  <1>2. /\ RowsKnown(table)' /\ \A d : Report!Shown(d)' = Report!Shown(d) /\ Report!Shown(d) \in Nat
    BY SameShown DEF SameSources
  <1>3. Report!KeepsOldDays
    BY <1>2 DEF Report!KeepsOldDays
  <1>4. \A now, read, d : Total(now, read, d)' = Total(now, read, d)
    BY TotalsStay DEF SameSources
  <1>5. \A now, read : Bounded(now, read)' <=> Bounded(now, read)
    BY <1>2, <1>4 DEF Bounded, Report!UtcDay, Report!Days
  <1>6. \A now, read : ReadKnown(now, read)' <=> ReadKnown(now, read)
    BY DEF SameSources, ReadKnown, Report!Times, Report!InWindow, Report!WindowStart
  <1>7. Sources' = Sources
    BY DEF SameSources, Sources
  <1>8. \A now, read : now = clock' /\ read = Sources' => Bounded(now, read)'
    BY <1>5, <1>7 DEF ReportInv, SameSources
  <1> QED BY <1>1, <1>2, <1>3, <1>4, <1>5, <1>6, <1>8

LEMMA RunOnceStep ==
    ASSUME WindowKnown, ReportInv, Report!RunOnce
    PROVE  ReportInv' /\ Report!KeepsOldDays
  <1> PICK old, was, all : old = clock /\ was = CurrentRead /\ all = Sources
    OBVIOUS
  <1>1. SameSources /\ table' = table /\ exact' = FALSE
    BY DEF Report!RunOnce, Report!sourceVars, SameSources
  <1>2. rollup'.pc = "write" /\ rollup'.now = old /\ rollup'.read = was
    <2>1. rollup' = [pc |-> "write", now |-> old, read |-> was]
      BY DEF Report!RunOnce, CurrentRead
    <2> QED BY <2>1
  <1>3. /\ was.events = {r \in log : Report!InWindow(clock, r.at)} /\ was.members = DOMAIN joined
        /\ was.entries = credited /\ was.posted = {r \in posted : Report!InWindow(clock, r.at)}
        /\ was = [events |-> was.events, members |-> was.members,
                  entries |-> was.entries, posted |-> was.posted]
    BY DEF CurrentRead
  <1>4. ReadKnown(old, was)
    <2>1. clock \in Report!Times /\ clock <= clock
      BY DEF ReportInv, SourcesInv, Report!Times
    <2>2. DOMAIN joined \subseteq {u \in DOMAIN joined : joined[u] <= clock}
          /\ credited \subseteq {r \in credited : r.at <= clock}
      BY DEF ReportInv, SourcesInv
    <2> QED BY <1>3, <2>1, <2>2 DEF ReadKnown
  <1>5. Bounded(old, was)
    <2>1. /\ all.events = log /\ all.members = DOMAIN joined
          /\ all.entries = credited /\ all.posted = posted
      BY DEF Sources
    <2>2. /\ \A r \in all.events \cup all.posted : r.at \in Report!Times
          /\ old \in Report!Times /\ follows \in Report!Tables
      BY <2>1 DEF ReportInv, SourcesInv
    <2>3. \A d \in Int : Report!UtcDay(old) - (Lookback - 1) < d =>
              Total(old, was, d) = Total(old, all, d)
      BY <1>3, <2>1, <2>2, WindowHoldsDays
    <2>4. Report!Days \subseteq Int
      BY DEF Report!Days
    <2>5. Bounded(old, all)
      BY DEF ReportInv
    <2> QED BY <2>3, <2>4, <2>5 DEF Bounded
  <1>6. /\ SourcesInv' /\ RowsKnown(table)' /\ Report!KeepsOldDays
        /\ ReadKnown(old, was)' /\ Bounded(old, was)'
        /\ \A now, read : now = clock' /\ read = Sources' => Bounded(now, read)'
    BY <1>1, <1>4, <1>5, SourcesStay
  <1> QED BY <1>1, <1>2, <1>3, <1>6 DEF ReportInv

LEMMA RebuildFailsStep ==
    ASSUME WindowKnown, ReportInv, Report!RebuildFails
    PROVE  ReportInv' /\ Report!KeepsOldDays
  <1>1. SameSources /\ table' = table /\ exact' = FALSE /\ rollup' = Report!Idle
    BY DEF Report!RebuildFails, Report!sourceVars, SameSources
  <1>2. rollup'.pc = "idle"
    BY <1>1 DEF Report!Idle
  <1>3. /\ SourcesInv' /\ RowsKnown(table)' /\ Report!KeepsOldDays
        /\ \A now, read : now = clock' /\ read = Sources' => Bounded(now, read)'
    BY <1>1, SourcesStay
  <1> QED BY <1>1, <1>2, <1>3 DEF ReportInv

LEMMA SameNewRows ==
    ASSUME SameSources, NEW now, NEW read
    PROVE  /\ Report!NewRows(now, read)' = Report!NewRows(now, read)
           /\ \A row : Report!Replaced(now, row)' <=> Report!Replaced(now, row)
  <1>1. follows' = follows /\ joined' = joined
    BY DEF SameSources
  <1>2. Report!RetentionRows(now, read)' = Report!RetentionRows(now, read)
    BY <1>1 DEF Report!RetentionRows
  <1>3. Report!NewRows(now, read)' = Report!NewRows(now, read)
    BY <1>1, <1>2 DEF Report!NewRows
  <1>4. \A row : Report!Replaced(now, row)' <=> Report!Replaced(now, row)
    BY <1>1 DEF Report!Replaced
  <1> QED BY <1>3, <1>4

LEMMA ReportStutters ==
    ASSUME ReportInv, UNCHANGED Report!vars
    PROVE  ReportInv' /\ Report!KeepsOldDays
  <1>1. SameSources /\ table' = table /\ exact' = exact /\ rollup' = rollup
    BY DEF Report!vars, Report!sourceVars, SameSources
  <1>2. /\ SourcesInv' /\ RowsKnown(table)' /\ Report!KeepsOldDays
        /\ \A now, read : ReadKnown(now, read)' <=> ReadKnown(now, read)
        /\ \A now, read : Bounded(now, read)' <=> Bounded(now, read)
        /\ \A now, read : now = clock' /\ read = Sources' => Bounded(now, read)'
    BY <1>1, SourcesStay
  <1>3. \A now, read : rollup'.pc = "write" /\ now = rollup'.now /\ read = rollup'.read =>
          /\ ReadKnown(now, read)' /\ Bounded(now, read)'
          /\ read = [events |-> read.events, members |-> read.members,
                     entries |-> read.entries, posted |-> read.posted]
    BY <1>1, <1>2 DEF ReportInv
  <1>4. ASSUME NEW now, NEW read, exact', now = clock', read = CurrentRead'
        PROVE  Rebuilt(now, read)'
    <2>1. CurrentRead' = CurrentRead /\ exact /\ clock' = clock
      BY <1>1, <1>4 DEF SameSources, CurrentRead, Report!InWindow, Report!WindowStart
    <2>2. Rebuilt(now, read)
      BY <1>4, <2>1 DEF ReportInv
    <2>3. Report!NewRows(now, read)' = Report!NewRows(now, read)
          /\ \A row : Report!Replaced(now, row)' <=> Report!Replaced(now, row)
      BY <1>1, SameNewRows
    <2> QED BY <1>1, <2>2, <2>3 DEF Rebuilt
  <1>5. rollup'.pc \in {"idle", "write"} /\ exact' \in BOOLEAN
    BY <1>1 DEF ReportInv
  <1> QED BY <1>2, <1>3, <1>4, <1>5 DEF ReportInv

LEMMA SameReplaced ==
    ASSUME follows \in Report!Tables, NEW now, NEW row
    PROVE  Report!Replaced(now, row) <=> DayReplaced(now, Report!DayOf(row))
  BY DEF Report!Replaced, DayReplaced, Report!DayOf, Report!Tables

\* The transaction of a run: a day of the window is written in full, but for the
\* first; the others stay as they are.
LEMMA WriteTableStep ==
    ASSUME WindowKnown, ReportInv, Report!WriteTable
    PROVE  ReportInv' /\ Report!KeepsOldDays
  <1> PICK now, read, new, kept, rows :
          /\ now = rollup.now /\ read = rollup.read /\ new = Report!NewRows(now, read)
          /\ kept = {row \in table : ~Report!Replaced(now, row)} /\ rows = kept \cup new
    OBVIOUS
  <1>1. /\ rollup.pc = "write" /\ table' = rows /\ rollup' = Report!Idle /\ SameSources
        /\ exact' = Report!Untouched
        /\ \A r \in kept, s \in new : Report!KeyOf(r) # Report!KeyOf(s)
    BY DEF Report!WriteTable, Report!sourceVars, SameSources
  <1>2. /\ SourcesInv /\ RowsKnown(table) /\ ReadKnown(now, read) /\ Bounded(now, read)
        /\ read = [events |-> read.events, members |-> read.members,
                   entries |-> read.entries, posted |-> read.posted]
    BY <1>1 DEF ReportInv
  <1>3. RowsKnown(new) /\ (\A row \in new : DayReplaced(now, Report!DayOf(row)))
        /\ \A d \in WholeDays(now) : SumOfRows(Report!RowsOf(new, d)) = Total(now, read, d)
    BY <1>2, NewRowsWritten DEF WrittenRows
  <1>4. RowsKnown(rows)
    <2>1. IsFiniteSet(kept)
      BY <1>2, FS_Subset DEF RowsKnown
    <2>2. IsFiniteSet(rows)
      BY <1>3, <2>1, FS_Union DEF RowsKnown
    <2>3. \A r, s \in rows : Report!KeyOf(r) = Report!KeyOf(s) => r = s
      BY <1>1, <1>2, <1>3 DEF RowsKnown
    <2>4. \A row \in rows : Report!Figure(row) \in Nat /\ Report!DayOf(row) \in Report!Days
      BY <1>2, <1>3 DEF RowsKnown
    <2> QED BY <2>2, <2>3, <2>4 DEF RowsKnown
  <1>5. \A row : Report!Replaced(now, row) <=> DayReplaced(now, Report!DayOf(row))
    BY <1>2, SameReplaced DEF SourcesInv
  <1>6. ASSUME NEW d
        PROVE  Report!RowsOf(rows, d) = IF DayReplaced(now, d) THEN Report!RowsOf(new, d)
                                                               ELSE Report!RowsOf(table, d)
    BY <1>3, <1>5 DEF Report!RowsOf
  <1>7. \A d : /\ Report!Shown(d)' = SumOfRows(Report!RowsOf(rows, d))
               /\ RowsKnown(table)' /\ SumOfRows(Report!RowsOf(rows, d)) \in Nat
    BY <1>1, <1>4, ShownNext DEF SameSources
  <1>8. \A d : Report!Shown(d) = SumOfRows(Report!RowsOf(table, d))
               /\ SumOfRows(Report!RowsOf(table, d)) \in Nat
    BY <1>2, ShownIsSumNow DEF ShownIsSum
  <1> PICK first, last : first = Report!UtcDay(now) - (Lookback - 1) /\ last = Report!UtcDay(now)
    OBVIOUS
  <1>9. /\ now \in Report!Times /\ now \in Int /\ clock \in Int /\ now <= clock
        /\ first \in Int /\ last \in Int /\ Lookback \in Nat \ {0} /\ first = last - (Lookback - 1)
        /\ Report!Days \subseteq Int
    BY <1>2, DayBounds DEF ReadKnown, SourcesInv, Report!Times, Report!Days, WindowKnown
  <1>10. ASSUME NEW d \in Report!Days, DayReplaced(now, d), first < d
         PROVE  Report!Shown(d)' = Total(now, read, d)
    <2>1. d \in WholeDays(now)
      BY <1>9, <1>10 DEF WholeDays
    <2> QED BY <1>3, <1>6, <1>7, <1>10, <2>1
  <1>11. ASSUME NEW d, ~DayReplaced(now, d) PROVE Report!Shown(d)' = Report!Shown(d)
    BY <1>6, <1>7, <1>8, <1>11
  <1>12. \A d \in Report!Days : DayReplaced(now, d) => first <= d
    <2> SUFFICES ASSUME NEW d \in Report!Days, DayReplaced(now, d) PROVE first <= d
      OBVIOUS
    <2>1. d = last \/ Report!DayInWindow(now, d)
      BY DEF DayReplaced
    <2>2. Report!DayInWindow(now, d) => first <= d
      BY <1>9, WindowDays
    <2> QED BY <1>9, <2>1, <2>2
  <1>13. Report!KeepsOldDays
    <2> SUFFICES ASSUME NEW d \in Report!Days, Report!Shown(d)' < Report!Shown(d)
                 PROVE  d = first
      BY DEF Report!KeepsOldDays
    <2> PICK before, after : before = Report!Shown(d) /\ after = Report!Shown(d)'
      OBVIOUS
    <2>1. before \in Nat /\ after \in Nat /\ after < before
      BY <1>7, <1>8
    <2>2. DayReplaced(now, d)
      BY <1>11, <2>1
    <2>3. first < d => before <= after
      BY <1>2, <1>10, <2>2 DEF Bounded
    <2> QED BY <1>9, <1>12, <2>1, <2>2, <2>3
  <1>14. ASSUME NEW c, NEW all, c = clock', all = Sources' PROVE Bounded(c, all)'
    <2>1. c = clock /\ all = Sources
      BY <1>1, <1>14 DEF SameSources, Sources
    <2>2. Bounded(c, all) /\ c \in Int /\ now <= c
      BY <1>9, <2>1 DEF ReportInv
    <2>3. ASSUME NEW d \in Report!Days
          PROVE  /\ Total(now, read, d) \in Nat /\ Total(c, all, d) \in Nat
                 /\ Total(now, read, d) <= Total(c, all, d)
      <3>1. /\ read.events \subseteq all.events /\ read.members \subseteq all.members
            /\ read.entries \subseteq all.entries /\ read.posted \subseteq all.posted
            /\ follows \in Report!Tables
        BY <1>2, <2>1 DEF ReadKnown, Sources, SourcesInv
      <3>2. FiniteRead(all)
        BY <1>2, <2>1 DEF SourcesInv, Sources, FiniteRead
      <3>3. \A r \in read.events \cup read.entries \cup read.posted : r.at \in Int
        BY <1>2, ReadsAreFinite DEF Report!Times
      <3> QED BY <1>9, <2>2, <3>1, <3>2, <3>3, TotalsGrow
    <2>4. \A d : Total(c, all, d)' = Total(c, all, d)
      BY <1>1, TotalsStay DEF SameSources
    <2>5. Report!UtcDay(now) <= Report!UtcDay(c) /\ Report!UtcDay(c) \in Int
      BY <1>9, <2>2, DayBounds, DaysGrow
    <2>6. ASSUME NEW d \in Report!Days, Report!UtcDay(c) - (Lookback - 1) < d
          PROVE  Report!Shown(d)' <= Total(c, all, d)'
      <3>1. first < d
        BY <1>9, <2>5, <2>6
      <3>2. Report!Shown(d) <= Total(c, all, d)
        BY <2>2, <2>6 DEF Bounded
      <3>3. DayReplaced(now, d) => Report!Shown(d)' <= Total(c, all, d)
        BY <1>10, <2>3, <3>1
      <3>4. ~DayReplaced(now, d) => Report!Shown(d)' <= Total(c, all, d)
        BY <1>11, <3>2
      <3> QED BY <2>4, <3>3, <3>4
    <2> QED BY <2>6 DEF Bounded, Report!UtcDay, Report!Days
  <1>15. ASSUME NEW c, NEW all, exact', c = clock', all = CurrentRead' PROVE Rebuilt(c, all)'
    <2>1. /\ clock = now /\ read.events = {r \in log : Report!InWindow(clock, r.at)}
          /\ read.members = DOMAIN joined /\ read.entries = credited
          /\ read.posted = {r \in posted : Report!InWindow(clock, r.at)}
      BY <1>1, <1>15 DEF Report!Untouched
    <2>2. read = CurrentRead
      BY <1>2, <2>1 DEF CurrentRead
    <2>3. CurrentRead' = CurrentRead
      BY <1>1 DEF SameSources, CurrentRead, Report!InWindow, Report!WindowStart
    <2>4. c = now /\ all = read
      BY <1>1, <1>15, <2>1, <2>2, <2>3 DEF SameSources
    <2>5. /\ Report!NewRows(c, all)' = new
          /\ \A row \in kept : ~Report!Replaced(c, row)'
      BY <1>1, <2>4, SameNewRows
    <2>6. table' = kept \cup new
      BY <1>1
    <2> QED BY <2>5, <2>6 DEF Rebuilt
  <1>16. SourcesInv' /\ rollup'.pc = "idle" /\ exact' \in BOOLEAN
    BY <1>1, <1>2 DEF SourcesInv, SameSources, Report!Times, Report!Tables, Report!Idle,
                      Report!Untouched
  <1> QED BY <1>7, <1>13, <1>14, <1>15, <1>16 DEF ReportInv

LEMMA ReportInductive ==
    ASSUME WindowKnown, ReportInv, [Report!Next]_Report!vars
    PROVE  ReportInv' /\ Report!KeepsOldDays
  <1>1. ASSUME NEW e \in EventIds, NEW type \in Types, NEW u \in People, NEW when \in Report!Times,
               Report!Report(e, type, u, when)
        PROVE  ReportInv' /\ Report!KeepsOldDays
    BY <1>1, ReportStep
  <1>2. ASSUME NEW u \in People, Report!Join(u) PROVE ReportInv' /\ Report!KeepsOldDays
    BY <1>2, JoinStep
  <1>3. ASSUME NEW p \in Payouts, NEW u \in People, Report!PostEntry(p, u)
        PROVE  ReportInv' /\ Report!KeepsOldDays
    BY <1>3, CreditStep
  <1>4. ASSUME NEW p \in Payouts, Report!MarkPosted(p) PROVE ReportInv' /\ Report!KeepsOldDays
    BY <1>4, MarkStep
  <1> QED BY <1>1, <1>2, <1>3, <1>4, TickStep, RunOnceStep, WriteTableStep, RebuildFailsStep,
             ReportStutters DEF Report!Next

-----------------------------------------------------------------------------
(* Reporting: what a complete run shows.                                   *)

\* The rows of a day that a complete run writes in full.
LEMMA ExactRows ==
    ASSUME WindowKnown, ReportInv, exact, NEW now, NEW read, now = clock, read = CurrentRead
    PROVE  /\ now \in Report!Times /\ ReadKnown(now, read)
           /\ \A d \in WholeDays(now) : \A row :
                 row \in table /\ Report!DayOf(row) = d
                    <=> row \in Report!NewRows(now, read) /\ Report!DayOf(row) = d
  <1>1. now \in Report!Times /\ now <= clock
    BY DEF ReportInv, SourcesInv, Report!Times
  <1>2. ReadKnown(now, read)
    <2>1. /\ read.events = {r \in log : Report!InWindow(now, r.at)} /\ read.members = DOMAIN joined
          /\ read.entries = credited /\ read.posted = {r \in posted : Report!InWindow(now, r.at)}
      BY DEF CurrentRead
    <2>2. DOMAIN joined \subseteq {u \in DOMAIN joined : joined[u] <= now}
          /\ credited \subseteq {r \in credited : r.at <= now}
      BY DEF ReportInv, SourcesInv
    <2> QED BY <1>1, <2>1, <2>2 DEF ReadKnown
  <1>3. PICK kept : /\ table = kept \cup Report!NewRows(now, read)
                    /\ \A row \in kept : ~Report!Replaced(now, row)
    BY DEF ReportInv, Rebuilt
  <1>4. \A row : Report!Replaced(now, row) <=> DayReplaced(now, Report!DayOf(row))
    BY SameReplaced DEF ReportInv, SourcesInv
  <1> QED BY <1>1, <1>2, <1>3, <1>4 DEF WholeDays

LEMMA ExactConversions ==
    ASSUME WindowKnown, ReportInv, exact, follows = "conversion", NEW d \in WholeDays(clock)
    PROVE  {row \in table : row.day = d} = Report!Conversions(d)
  <1> PICK now, read : now = clock /\ read = CurrentRead
    OBVIOUS
  <1>1. now \in Report!Times /\ ReadKnown(now, read)
    BY ExactRows
  <1>2. \A row : row \in table /\ row.day = d
                    <=> row \in Report!ConversionRows(now, read) /\ row.day = d
    BY ExactRows DEF Report!NewRows, Report!DayOf
  <1>3. read.events = {r \in log : Report!InWindow(now, r.at)} /\ read.members = DOMAIN joined
    BY DEF CurrentRead
  <1>4. \A r \in log : r.at \in Report!Times /\ r.type \in Types
    BY DEF ReportInv, SourcesInv
  <1>5. d \in Int /\ Report!UtcDay(now) - (Lookback - 1) < d
    BY DEF WholeDays
  <1> PICK today : today = Report!OnDay(log, d)
    OBVIOUS
  <1>6. \A r : r \in today <=> r \in read.events /\ Report!UtcDay(r.at) = d
    <2>1. \A r \in log : Report!UtcDay(r.at) = d => (r.at <= now <=> Report!InWindow(now, r.at))
      BY <1>1, <1>4, <1>5, WindowDays
    <2> QED BY <1>3, <2>1 DEF Report!OnDay
  <1> DEFINE Bucket(k) == {r \in read.events : <<Report!UtcDay(r.at), r.type>> = k}
             Row(k) == [day |-> k[1], type |-> k[2], events |-> Report!Cardinality(Bucket(k)),
                        external |-> Report!Cardinality(Report!UsersOf(Bucket(k))),
                        known |-> Report!Cardinality(Report!UsersOf(Bucket(k)) \cap read.members)]
             Of(type) == {r \in today : r.type = type}
             Line(type) == [day |-> d, type |-> type, events |-> Report!Cardinality(Of(type)),
                            external |-> Report!Cardinality(Report!UsersOf(Of(type))),
                            known |-> Report!Cardinality(Report!UsersOf(Of(type))
                                                         \cap DOMAIN joined)]
  <1>7. Report!ConversionRows(now, read)
            = {Row(k) : k \in {<<Report!UtcDay(r.at), r.type>> : r \in read.events}}
    BY DEF Report!ConversionRows
  <1>8. Report!Conversions(d) = {Line(type) : type \in {t \in Types : Of(t) # {}}}
    BY DEF Report!Conversions
  <1>9. ASSUME NEW type PROVE Row(<<d, type>>) = Line(type)
    <2> PICK bucket, of : bucket = Bucket(<<d, type>>) /\ of = Of(type)
      OBVIOUS
    <2>1. bucket = of
      BY <1>6
    <2>2. Row(<<d, type>>) =
             [day |-> d, type |-> type, events |-> Report!Cardinality(bucket),
              external |-> Report!Cardinality(Report!UsersOf(bucket)),
              known |-> Report!Cardinality(Report!UsersOf(bucket) \cap read.members)]
      <3> HIDE DEF Bucket
      <3> QED OBVIOUS
    <2>3. Line(type) =
             [day |-> d, type |-> type, events |-> Report!Cardinality(of),
              external |-> Report!Cardinality(Report!UsersOf(of)),
              known |-> Report!Cardinality(Report!UsersOf(of) \cap DOMAIN joined)]
      <3> HIDE DEF Of
      <3> QED OBVIOUS
    <2> QED BY <1>3, <2>1, <2>2, <2>3
  <1>10. \A k : Row(k).day = k[1]
    OBVIOUS
  <1>11. \A type : Of(type) # {} <=>
             \E r \in read.events : <<Report!UtcDay(r.at), r.type>> = <<d, type>>
    BY <1>6
  <1>12. \A r \in read.events : r.type \in Types
    BY <1>3, <1>4
  <1> HIDE DEF Row, Line, Of, Bucket
  <1>13. ASSUME NEW row, row \in Report!ConversionRows(now, read), row.day = d
         PROVE  row \in Report!Conversions(d)
    <2>1. PICK r \in read.events : row = Row(<<Report!UtcDay(r.at), r.type>>)
      BY <1>7, <1>13
    <2> PICK k, type : k = <<Report!UtcDay(r.at), r.type>> /\ type = r.type
      OBVIOUS
    <2>2. k[1] = d
      BY <1>10, <1>13, <2>1
    <2>3. k = <<d, type>>
      BY <2>2
    <2>4. row = Line(type) /\ Of(type) # {} /\ type \in Types
      BY <1>9, <1>11, <1>12, <2>1, <2>3
    <2> QED BY <1>8, <2>4
  <1>14. ASSUME NEW row, row \in Report!Conversions(d)
         PROVE  row \in Report!ConversionRows(now, read) /\ row.day = d
    <2>1. PICK type : row = Line(type) /\ Of(type) # {}
      BY <1>8, <1>14
    <2> PICK k : k = <<d, type>>
      OBVIOUS
    <2>2. row = Row(k) /\ k[1] = d
      BY <1>9, <2>1
    <2>3. \E r \in read.events : <<Report!UtcDay(r.at), r.type>> = k
      BY <1>11, <2>1
    <2> QED BY <1>7, <1>10, <2>2, <2>3
  <1> QED BY <1>2, <1>13, <1>14

LEMMA ExactPerformance ==
    ASSUME WindowKnown, ReportInv, exact, follows = "performance", NEW d \in WholeDays(clock),
           NEW today, today = {row \in table : row.day = d}
    PROVE  Report!SumFunctionOnSet([row \in today |-> row.entries + row.posted], today)
           = Report!Cardinality(Report!OnDay(credited, d)) + Report!Cardinality(Report!OnDay(posted, d))
  <1> PICK now, read, all, new :
          /\ now = clock /\ read = CurrentRead /\ all = Sources
          /\ new = Report!NewRows(now, read)
    OBVIOUS
  <1>1. now \in Report!Times /\ ReadKnown(now, read) /\ today = Report!RowsOf(new, d)
    BY ExactRows DEF Report!DayOf, Report!RowsOf
  <1>2. SumOfRows(Report!RowsOf(new, d)) = Total(now, read, d)
    BY <1>1, NewRowsWritten DEF ReportInv, WrittenRows
  <1>3. Total(now, read, d) = Total(now, all, d)
    <2>1. /\ all.events = log /\ all.members = DOMAIN joined
          /\ all.entries = credited /\ all.posted = posted
          /\ read.events = {r \in log : Report!InWindow(now, r.at)}
          /\ read.posted = {r \in posted : Report!InWindow(now, r.at)}
          /\ read.members = DOMAIN joined /\ read.entries = credited
      BY DEF Sources, CurrentRead
    <2>2. /\ \A r \in all.events \cup all.posted : r.at \in Report!Times
          /\ follows \in Report!Tables
      BY <2>1 DEF ReportInv, SourcesInv
    <2>3. d \in Int /\ Report!UtcDay(now) - (Lookback - 1) < d
      BY DEF WholeDays
    <2> QED BY <1>1, <2>1, <2>2, <2>3, WindowHoldsDays
  <1>4. Total(now, all, d)
            = Cardinality(DatedOn(credited, now, d)) + Cardinality(DatedOn(posted, now, d))
    BY DEF Total, Sources
  <1>5. DatedOn(credited, now, d) = Report!OnDay(credited, d)
        /\ DatedOn(posted, now, d) = Report!OnDay(posted, d)
    BY DEF DatedOn, Report!OnDay
  <1>6. [row \in today |-> Report!Figure(row)] = [row \in today |-> row.entries + row.posted]
    BY DEF Report!Figure
  <1>7. SumOfRows(today) = SumFunctionOnSet([row \in today |-> row.entries + row.posted], today)
    BY <1>6 DEF SumOfRows
  <1> QED BY <1>1, <1>2, <1>3, <1>4, <1>5, <1>7, ReportSums, ReportCounts

LEMMA ExactLiability ==
    ASSUME WindowKnown, ReportInv, exact, follows = "liability",
           Report!UtcDay(clock) \in WholeDays(clock)
    PROVE  \A row \in table : row.day = Report!UtcDay(clock)
                                => row.owed = Report!Cardinality(credited)
  <1> PICK now, read, d : now = clock /\ read = CurrentRead /\ d = Report!UtcDay(clock)
    OBVIOUS
  <1>1. \A row : row \in table /\ row.day = d => row \in Report!LiabilityRows(now, read)
    BY ExactRows DEF Report!NewRows, Report!DayOf
  <1>2. read.entries = credited
    BY DEF CurrentRead
  <1>3. {r \in credited : r.at <= now} = credited
    BY DEF ReportInv, SourcesInv
  <1>4. \A row \in Report!LiabilityRows(now, read) : row.owed = Report!Cardinality(credited)
    <2> PICK due, owed, accounts_, line :
            /\ due = {r \in read.entries : r.at <= now} /\ owed = Report!Cardinality(due)
            /\ accounts_ = Report!Cardinality(Report!UsersOf(read.entries))
            /\ line = [day |-> Report!UtcDay(now), owed |-> owed, accounts |-> accounts_]
      OBVIOUS
    <2>1. due = credited
      BY <1>2, <1>3
    <2>2. Report!LiabilityRows(now, read) \subseteq {line}
      BY DEF Report!LiabilityRows
    <2>3. line.owed = owed
      OBVIOUS
    <2> QED BY <2>1, <2>2, <2>3
  <1> QED BY <1>1, <1>4

LEMMA ExactRetention ==
    ASSUME WindowKnown, ReportInv, exact, follows = "retention", NEW d \in WholeDays(clock)
    PROVE  {<<row.size, row.retained, row.day>> : row \in {row \in table : row.cohort = d}}
           = Report!Retention(d)
  <1> PICK now, read : now = clock /\ read = CurrentRead
    OBVIOUS
  <1>1. now \in Report!Times /\ now \in Int /\ ReadKnown(now, read)
    BY ExactRows DEF Report!Times
  <1>2. \A row : row \in table /\ row.cohort = d
                    <=> row \in Report!RetentionRows(now, read) /\ row.cohort = d
    BY ExactRows DEF Report!NewRows, Report!DayOf
  <1>3. read.events = {r \in log : Report!InWindow(now, r.at)} /\ read.members = DOMAIN joined
    BY DEF CurrentRead
  <1>4. /\ \A r \in log : r.at \in Report!Times
        /\ \A u \in DOMAIN joined : joined[u] \in Report!Times /\ joined[u] <= now
    BY DEF ReportInv, SourcesInv
  <1>5. /\ d \in Int /\ Report!UtcDay(now) - (Lookback - 1) < d
        /\ Report!UtcDay(now) - (Lookback - 1) \in Int /\ Report!UtcDay(now) \in Int
    BY <1>1, DayBounds DEF WholeDays, WindowKnown
  <1> DEFINE newcomers == {u \in read.members : Report!InWindow(now, joined[u])}
             Cohort(c) == {u \in newcomers : Report!UtcDay(joined[u]) = c}
             Paid(day) == {r \in read.events : r.type = "paid" /\ Report!UtcDay(r.at) = day}
             Back(c, day) == Cohort(c) \cap (Report!UsersOf(Paid(day)) \cap newcomers)
             keys == {k \in Report!Days \X Report!Days : k[1] <= k[2] /\ Back(k[1], k[2]) # {}}
             Row(k) == [cohort |-> k[1], day |-> k[2], size |-> Report!Cardinality(Cohort(k[1])),
                        retained |-> Report!Cardinality(Back(k[1], k[2]))]
             Stayed(day) == {u \in Report!CohortOf(d) : Report!PaidOn(u, day)}
             Line(day) == <<Report!Cardinality(Report!CohortOf(d)),
                            Report!Cardinality(Stayed(day)), day>>
             shown == {row \in table : row.cohort = d}
  <1>6. Report!RetentionRows(now, read) = {Row(k) : k \in keys}
    BY DEF Report!RetentionRows
  <1>7. Report!Retention(d) = {Line(day) : day \in {x \in d..Report!UtcDay(now) : Stayed(x) # {}}}
    <2>1. \A x : Stayed(x) # {} <=> \E u \in Report!CohortOf(d) : Report!PaidOn(u, x)
      OBVIOUS
    <2> QED BY <2>1 DEF Report!Retention
  <1>8. Cohort(d) = Report!CohortOf(d)
    <2>1. \A u \in DOMAIN joined : Report!UtcDay(joined[u]) = d => Report!InWindow(now, joined[u])
      BY <1>1, <1>4, <1>5, WindowDays
    <2> QED BY <1>3, <2>1 DEF Report!CohortOf
  <1>9. ASSUME NEW day \in Int, d <= day PROVE Back(d, day) = Stayed(day)
    <2>1. \A r \in log : Report!UtcDay(r.at) = day => (r.at <= now <=> Report!InWindow(now, r.at))
      <3>1. Report!UtcDay(now) - (Lookback - 1) < day
        BY <1>5, <1>9
      <3> QED BY <1>1, <1>4, <3>1, WindowDays
    <2>2. \A u : u \in Report!UsersOf(Paid(day)) <=> Report!PaidOn(u, day)
      BY <1>3, <2>1 DEF Report!UsersOf, Report!PaidOn, Report!OnDay
    <2>3. Cohort(d) \subseteq newcomers
      OBVIOUS
    <2> QED BY <1>8, <2>2, <2>3
  <1>10. \A k : /\ Row(k).cohort = k[1] /\ Row(k).day = k[2]
                /\ Row(k).size = Report!Cardinality(Cohort(k[1]))
                /\ Row(k).retained = Report!Cardinality(Back(k[1], k[2]))
    <2> HIDE DEF Cohort, Back
    <2> QED OBVIOUS
  <1>11. ASSUME NEW k \in keys, k[1] = d
         PROVE  k[2] \in d..Report!UtcDay(now) /\ Stayed(k[2]) # {}
    <2> PICK day : day = k[2]
      OBVIOUS
    <2>1. day \in Report!Days /\ day \in Int /\ d <= day /\ Back(d, day) # {}
      BY <1>11 DEF Report!Days
    <2>2. PICK r \in read.events : Report!UtcDay(r.at) = day
      BY <2>1 DEF Report!UsersOf
    <2>3. day <= Report!UtcDay(now)
      BY <1>1, <1>3, <1>4, <2>2, WindowDays
    <2>4. Stayed(day) # {}
      <3> HIDE DEF Back, Stayed
      <3> QED BY <1>9, <2>1
    <2> QED BY <1>5, <2>1, <2>3, <2>4
  <1>12. ASSUME NEW day \in d..Report!UtcDay(now), Stayed(day) # {}
         PROVE  <<d, day>> \in keys
    <2>1. day \in Int /\ d <= day /\ day <= Report!UtcDay(now)
      BY <1>5
    <2>2. d \in Report!Days
      <3> PICK u \in DOMAIN joined : Report!UtcDay(joined[u]) = d
        BY <1>12 DEF Report!CohortOf
      <3> QED BY <1>1, <1>4, WindowDays
    <2>3. day \in Report!Days
      <3>1. Report!UtcDay(now) \in Report!Days /\ Report!UtcDay(LastInstant) \in Int
        BY <1>1, WindowDays, DayBounds DEF WindowKnown
      <3> QED BY <1>5, <2>1, <2>2, <3>1 DEF Report!Days
    <2>4. Back(d, day) # {}
      <3> HIDE DEF Back, Stayed
      <3> QED BY <1>9, <1>12, <2>1
    <2> HIDE DEF Back
    <2> QED BY <2>1, <2>2, <2>3, <2>4
  <1>13. ASSUME NEW day \in d..Report!UtcDay(now), NEW row, row = Row(<<d, day>>)
         PROVE  <<row.size, row.retained, row.day>> = Line(day) /\ row.cohort = d
    <2> PICK k : k = <<d, day>>
      OBVIOUS
    <2>1. k[1] = d /\ k[2] = day /\ row = Row(k)
      BY <1>13
    <2> HIDE DEF Row, Cohort, Back, Stayed
    <2>2. /\ row.cohort = d /\ row.day = day
          /\ row.size = Report!Cardinality(Cohort(d))
          /\ row.retained = Report!Cardinality(Back(d, day))
      BY <1>10, <2>1
    <2>3. day \in Int /\ d <= day
      BY <1>5
    <2> QED BY <1>8, <1>9, <2>2, <2>3
  <1>14. ASSUME NEW row \in shown
         PROVE  <<row.size, row.retained, row.day>> \in Report!Retention(d)
    <2>1. row \in Report!RetentionRows(now, read) /\ row.cohort = d
      BY <1>2
    <2>2. PICK k \in keys : row = Row(k)
      <3> HIDE DEF keys, Row
      <3> QED BY <1>6, <2>1
    <2>3. k[1] = d
      BY <1>10, <2>1, <2>2
    <2> PICK day : day = k[2]
      OBVIOUS
    <2>4. k = <<d, day>>
      BY <2>3
    <2>5. day \in d..Report!UtcDay(now) /\ Stayed(day) # {}
      BY <1>11, <2>3
    <2> HIDE DEF Row, Stayed, Line
    <2>6. <<row.size, row.retained, row.day>> = Line(day)
      BY <1>13, <2>2, <2>4, <2>5
    <2> QED BY <1>7, <2>5, <2>6
  <1>15. ASSUME NEW line \in Report!Retention(d)
         PROVE  \E row \in shown : line = <<row.size, row.retained, row.day>>
    <2> HIDE DEF Stayed, Line
    <2>1. PICK day \in d..Report!UtcDay(now) : line = Line(day) /\ Stayed(day) # {}
      BY <1>7
    <2>2. <<d, day>> \in keys
      BY <1>12, <2>1
    <2> HIDE DEF keys, Row
    <2> PICK row : row = Row(<<d, day>>)
      OBVIOUS
    <2>3. row \in Report!RetentionRows(now, read)
      BY <1>6, <2>2
    <2>4. line = <<row.size, row.retained, row.day>> /\ row.cohort = d
      BY <1>13, <2>1
    <2>5. row \in table
      BY <1>2, <2>3, <2>4
    <2> QED BY <2>4, <2>5
  <1> HIDE DEF shown
  <1>16. {<<row.size, row.retained, row.day>> : row \in shown} = Report!Retention(d)
    BY <1>14, <1>15
  <1> QED BY <1>16 DEF shown

LEMMA ExactRollup ==
    ASSUME WindowKnown, ReportInv
    PROVE  Report!RollupIsExact
  <1> SUFFICES ASSUME exact, NEW d \in (Report!UtcDay(clock) - (Lookback - 2))..Report!UtcDay(clock),
                      NEW shown, shown = Report!Dashboard(Lookback - 1),
                      NEW today, today = {row \in shown : row.day = d}
               PROVE  CASE follows = "conversion" -> today = Report!Conversions(d)
                        [] follows = "performance" ->
                            Report!SumFunctionOnSet([row \in today |-> row.entries + row.posted],
                                                    today)
                            = Report!Cardinality(Report!OnDay(credited, d))
                              + Report!Cardinality(Report!OnDay(posted, d))
                        [] follows = "liability" ->
                            d = Report!UtcDay(clock) =>
                            \A row \in today : row.owed = Report!Cardinality(credited)
                        [] follows = "retention" ->
                            {<<row.size, row.retained, row.day>>
                             : row \in {row \in shown : row.cohort = d}} = Report!Retention(d)
    BY DEF Report!RollupIsExact
  <1>1. /\ clock \in Report!Times /\ clock \in Int /\ Report!UtcDay(clock) \in Int
        /\ Lookback \in Nat \ {0} /\ follows \in Report!Tables
    BY DayBounds DEF ReportInv, SourcesInv, Report!Times, WindowKnown
  <1>2. /\ d \in Int /\ Report!UtcDay(clock) - (Lookback - 1) < d /\ d <= Report!UtcDay(clock)
        /\ d \in (Report!UtcDay(clock) - ((Lookback - 1) - 1))..Report!UtcDay(clock)
    BY <1>1
  <1>3. Report!DayInWindow(clock, d)
    BY <1>1, <1>2, WindowDays
  <1>4. follows # "liability" \/ d = Report!UtcDay(clock) => d \in WholeDays(clock)
    BY <1>2, <1>3 DEF WholeDays, DayReplaced
  <1>5. follows # "retention" => today = {row \in table : row.day = d}
    BY <1>2 DEF Report!Dashboard
  <1>6. CASE follows = "conversion"
    BY <1>4, <1>5, <1>6, ExactConversions
  <1>7. CASE follows = "performance"
    BY <1>4, <1>5, <1>7, ExactPerformance
  <1>8. CASE follows = "liability"
    <2>1. d = Report!UtcDay(clock) => \A row \in today : row.owed = Report!Cardinality(credited)
      BY <1>4, <1>5, <1>8, ExactLiability
    <2> QED BY <1>8, <2>1
  <1>9. CASE follows = "retention"
    <2>1. shown = table
      BY <1>9 DEF Report!Dashboard
    <2> QED BY <1>4, <1>9, <2>1, ExactRetention
  <1> QED BY <1>1, <1>6, <1>7, <1>8, <1>9 DEF Report!Tables

LEMMA ReportTypeParts == ASSUME ReportInv PROVE Report!TypeOK
  <1>1. DOMAIN joined \subseteq People /\ \A u \in DOMAIN joined : joined[u] \in Report!Times
    BY DEF ReportInv, SourcesInv
  <1>2. \A r, s \in table : Report!KeyOf(r) = Report!KeyOf(s) => r = s
    BY DEF ReportInv, RowsKnown
  <1> QED BY <1>1, <1>2 DEF ReportInv, SourcesInv, Report!TypeOK

-----------------------------------------------------------------------------
(* RewardTerms: types.                                                     *)

\* The form numbers its rows by their places.
InPlace(s) == \A i \in DOMAIN s : s[i].depth = i

TermInv ==
    /\ saved \in Term!Terms /\ Len(saved.tiers) <= MaxTiers
    /\ text \in Term!Terms /\ Len(text.tiers) <= MaxTiers
    /\ saved.made = "form" => InPlace(saved.tiers) /\ Term!Accepted(saved)
    /\ text.made = "form" => InPlace(text.tiers)

\* Terms that fit the form.
FormTerms == {c \in Term!Terms : Len(c.tiers) <= MaxTiers}
FormRows == {s \in Seq(Term!Tier) : Len(s) <= MaxTiers}

LEMMA WithTiers ==
    ASSUME NEW c \in FormTerms, NEW s \in FormRows, NEW m \in {"api", "form"}
    PROVE  /\ [c EXCEPT !.tiers = s, !.made = m] \in FormTerms
           /\ [c EXCEPT !.tiers = s] \in FormTerms
  BY DEF FormTerms, FormRows, Term!Terms

LEMMA TiersFit ==
    ASSUME NEW c \in FormTerms
    PROVE  c.tiers \in FormRows /\ [c EXCEPT !.enabled = ~@] \in FormTerms
  BY DEF FormTerms, FormRows, Term!Terms

LEMMA RowsByPlace ==
    ASSUME NEW s \in FormRows, NEW f \in [1..Len(s) -> Term!Tier]
    PROVE  f \in FormRows /\ Len(f) = Len(s)
  <1>1. Len(s) \in Nat /\ Len(s) <= MaxTiers
    BY DEF FormRows
  <1>2. f \in Seq(Term!Tier) /\ Len(f) = Len(s)
    BY <1>1
  <1> QED BY <1>1, <1>2 DEF FormRows

LEMMA OneLess ==
    ASSUME NEW S, NEW s \in Seq(S), NEW d \in 1..Len(s)
    PROVE  Term!RemoveAt(s, d) \in Seq(S) /\ Len(Term!RemoveAt(s, d)) = Len(s) - 1
  <1>1. PICK a, b : a = SubSeq(s, 1, d - 1) /\ b = SubSeq(s, d + 1, Len(s))
    OBVIOUS
  <1>2. a \in Seq(S) /\ Len(a) = d - 1
    BY <1>1
  <1>3. b \in Seq(S) /\ Len(b) = Len(s) - d
    BY <1>1
  <1>4. Term!RemoveAt(s, d) = a \o b
    BY <1>1 DEF Term!RemoveAt
  <1>5. a \o b \in Seq(S) /\ Len(a \o b) = Len(a) + Len(b)
    BY <1>2, <1>3
  <1>6. Len(a) + Len(b) = Len(s) - 1
    BY <1>2, <1>3
  <1> QED BY <1>4, <1>5, <1>6

\* A row of the text as the form shows it in place i.
ShownTier(t, i) == [t EXCEPT !.depth = i, !.value = IF @ = Blank THEN Term!Zero ELSE @]

LEMMA ReindexedRows ==
    ASSUME TermsKnown, NEW s \in FormRows
    PROVE  /\ Term!Reindexed(s) \in FormRows /\ Len(Term!Reindexed(s)) = Len(s)
           /\ InPlace(Term!Reindexed(s))
  <1> PICK f : f = [i \in 1..Len(s) |-> [s[i] EXCEPT !.depth = i]]
    OBVIOUS
  <1>1. Len(s) \in Nat /\ Len(s) <= MaxTiers /\ MaxTiers \in 1..10 /\ DOMAIN s = 1..Len(s)
        /\ \A i \in 1..Len(s) : s[i] \in Term!Tier
    BY DEF FormRows, TermsKnown
  <1>2. \A i \in 1..Len(s) : f[i] \in Term!Tier
    <2> SUFFICES ASSUME NEW i \in 1..Len(s) PROVE f[i] \in Term!Tier
      OBVIOUS
    <2>1. i \in 1..10
      BY <1>1
    <2>2. f[i] = [s[i] EXCEPT !.depth = i]
      OBVIOUS
    <2> QED BY <1>1, <2>1, <2>2 DEF Term!Tier
  <1>3. f \in FormRows /\ Len(f) = Len(s)
    <2>1. f \in [1..Len(s) -> Term!Tier]
      BY <1>2
    <2> QED BY <2>1, RowsByPlace
  <1>4. f = Term!Reindexed(s)
    BY <1>1 DEF Term!Reindexed
  <1>5. InPlace(f)
    <2> SUFFICES ASSUME NEW i \in 1..Len(s) PROVE f[i].depth = i
      BY <1>1 DEF InPlace
    <2> QED BY <1>1 DEF Term!Tier
  <1> QED BY <1>3, <1>4, <1>5

LEMMA DraftFits ==
    ASSUME TermsKnown, TermInv
    PROVE  Term!Draft \in FormTerms
  <1> PICK s : s = text.tiers
    OBVIOUS
  <1> PICK f : f = [i \in 1..Len(s) |-> ShownTier(s[i], i)]
    OBVIOUS
  <1>1. s \in FormRows /\ text \in FormTerms
    BY DEF TermInv, FormTerms, FormRows, Term!Terms
  <1>2. Len(s) \in Nat /\ Len(s) <= MaxTiers /\ MaxTiers \in 1..10 /\ DOMAIN s = 1..Len(s)
        /\ \A i \in 1..Len(s) : s[i] \in Term!Tier
    BY <1>1 DEF FormRows, TermsKnown
  <1>3. \A i \in 1..Len(s) : f[i] \in Term!Tier
    <2> SUFFICES ASSUME NEW i \in 1..Len(s) PROVE f[i] \in Term!Tier
      OBVIOUS
    <2>1. i \in 1..10
      BY <1>2
    <2>2. f[i] = ShownTier(s[i], i) /\ s[i] \in Term!Tier
      BY <1>2
    <2>3. ShownTier(s[i], i) \in Term!Tier
      BY <2>1, <2>2 DEF ShownTier, Term!Tier
    <2> QED BY <2>2, <2>3
  <1>4. f \in FormRows
    <2>1. f \in [1..Len(s) -> Term!Tier]
      BY <1>3
    <2> QED BY <1>1, <2>1, RowsByPlace
  <1>5. Term!Draft = [text EXCEPT !.tiers = f]
    BY <1>2 DEF Term!Draft, Term!ToDraft, ShownTier
  <1> QED BY <1>1, <1>4, <1>5, WithTiers

\* What the invariant says of the configuration that is stored.
LEMMA SavedStays ==
    ASSUME TermInv, saved' = saved, text' \in Term!Terms, Len(text'.tiers) <= MaxTiers,
           text'.made = "form" => InPlace(text'.tiers)
    PROVE  TermInv'
  <1>1. Term!Terms' = Term!Terms /\ Term!Accepted(saved)' = Term!Accepted(saved')
    BY DEF Term!Terms, Term!Tier, Term!Accepted
  <1> QED BY <1>1 DEF TermInv, InPlace

LEMMA PushFits ==
    ASSUME TermsKnown, TermInv, NEW draft \in FormTerms, Term!Push(draft)
    PROVE  TermInv'
  <1> PICK s : s = draft.tiers
    OBVIOUS
  <1> PICK f : f = Term!Reindexed(s)
    OBVIOUS
  <1>1. s \in FormRows
    BY TiersFit
  <1>2. f \in FormRows
    BY <1>1, ReindexedRows
  <1>3. text' = [draft EXCEPT !.tiers = f, !.made = "form"] /\ saved' = saved
    BY DEF Term!Push
  <1>4. text' \in FormTerms
    BY <1>2, <1>3, WithTiers
  <1>5. InPlace(text'.tiers)
    BY <1>1, <1>3, ReindexedRows DEF FormTerms, Term!Terms
  <1>6. text' \in Term!Terms /\ Len(text'.tiers) <= MaxTiers
    BY <1>4 DEF FormTerms
  <1> QED BY <1>3, <1>5, <1>6, SavedStays

LEMMA AddFits ==
    ASSUME TermsKnown, TermInv, Term!AddTier
    PROVE  TermInv'
  <1> PICK draft, s, n, e, t :
          /\ draft = Term!Draft /\ s = draft.tiers /\ n = Len(s) + 1
          /\ e = (\A i \in DOMAIN s : s[i].enabled)
          /\ t = [depth |-> n, type |-> "percent", value |-> Term!Zero, enabled |-> e]
    OBVIOUS
  <1>1. draft \in FormTerms /\ s \in FormRows
    BY DraftFits, TiersFit
  <1>2. Len(s) < MaxTiers /\ Term!Push([draft EXCEPT !.tiers = Append(s, t)])
    BY DEF Term!AddTier
  <1>3. Len(s) \in Nat /\ MaxTiers \in 1..10 /\ n \in 1..10 /\ s \in Seq(Term!Tier)
    BY <1>1, <1>2 DEF FormRows, TermsKnown
  <1>4. e \in BOOLEAN
    OBVIOUS
  <1>5. t \in Term!Tier
    BY <1>3, <1>4 DEF Term!Tier
  <1>6. Append(s, t) \in FormRows
    BY <1>2, <1>3, <1>5 DEF FormRows
  <1> QED BY <1>1, <1>2, <1>6, WithTiers, PushFits

LEMMA DeleteFits ==
    ASSUME TermsKnown, TermInv, NEW d \in 1..MaxTiers, d \in DOMAIN Term!Draft.tiers,
           Term!DeleteTier(d)
    PROVE  TermInv'
  <1> PICK draft, s, f :
          draft = Term!Draft /\ s = draft.tiers /\ f = Term!RemoveAt(s, d)
    OBVIOUS
  <1>1. draft \in FormTerms /\ s \in FormRows
    BY DraftFits, TiersFit
  <1>2. /\ Len(s) \in Nat /\ d \in 1..Len(s) /\ Len(s) <= MaxTiers /\ MaxTiers \in 1..10
        /\ \A i \in 1..Len(s) : s[i] \in Term!Tier
    BY <1>1 DEF FormRows, TermsKnown
  <1>3. s \in Seq(Term!Tier)
    BY <1>1 DEF FormRows
  <1>4. f \in Seq(Term!Tier) /\ Len(f) = Len(s) - 1
    BY <1>2, <1>3, OneLess
  <1>5. f \in FormRows
    BY <1>2, <1>4 DEF FormRows
  <1>6. Term!Push([draft EXCEPT !.tiers = Term!Reindexed(f)])
    BY DEF Term!DeleteTier
  <1>7. Term!Reindexed(f) \in FormRows
    BY <1>5, ReindexedRows
  <1> QED BY <1>1, <1>6, <1>7, WithTiers, PushFits

\* A row of the draft after a click on the row numbered d.
UpdatedTier(t, d, type, value) ==
    IF t.depth = d THEN [t EXCEPT !.type = type, !.value = value] ELSE t
SwitchedTier(t, d, enabled) ==
    IF t.depth >= d THEN [t EXCEPT !.enabled = enabled] ELSE t

LEMMA UpdateFits ==
    ASSUME TermsKnown, TermInv, NEW d, NEW type \in {"percent", "flat"},
           NEW value \in Values \cup {Blank, Junk}, Term!UpdateTier(d, type, value)
    PROVE  TermInv'
  <1> PICK draft, s : draft = Term!Draft /\ s = draft.tiers
    OBVIOUS
  <1>1. draft \in FormTerms /\ s \in FormRows /\ s \in Seq(Term!Tier)
    BY DraftFits, TiersFit DEF FormRows
  <1>2. DOMAIN s = 1..Len(s) /\ \A i \in 1..Len(s) : s[i] \in Term!Tier
    BY <1>1
  <1> PICK f : f = [i \in 1..Len(s) |-> UpdatedTier(s[i], d, type, value)]
    OBVIOUS
  <1>3. \A i \in 1..Len(s) : f[i] \in Term!Tier
    <2>1. \A t \in Term!Tier : UpdatedTier(t, d, type, value) \in Term!Tier
      BY DEF UpdatedTier, Term!Tier
    <2> QED BY <1>2, <2>1
  <1>4. f \in FormRows
    <2>1. f \in [1..Len(s) -> Term!Tier]
      BY <1>3
    <2> QED BY <1>1, <2>1, RowsByPlace
  <1>5. Term!Push([draft EXCEPT !.tiers = f])
    BY <1>2 DEF Term!UpdateTier, UpdatedTier
  <1> QED BY <1>1, <1>4, <1>5, WithTiers, PushFits

LEMMA SwitchTierFits ==
    ASSUME TermsKnown, TermInv, NEW d, NEW enabled \in BOOLEAN, Term!SetTierEnabled(d, enabled)
    PROVE  TermInv'
  <1> PICK draft, s : draft = Term!Draft /\ s = draft.tiers
    OBVIOUS
  <1>1. draft \in FormTerms /\ s \in FormRows /\ s \in Seq(Term!Tier)
    BY DraftFits, TiersFit DEF FormRows
  <1>2. DOMAIN s = 1..Len(s) /\ \A i \in 1..Len(s) : s[i] \in Term!Tier
    BY <1>1
  <1> PICK f : f = [i \in 1..Len(s) |-> SwitchedTier(s[i], d, enabled)]
    OBVIOUS
  <1>3. \A i \in 1..Len(s) : f[i] \in Term!Tier
    <2>1. \A t \in Term!Tier : SwitchedTier(t, d, enabled) \in Term!Tier
      BY DEF SwitchedTier, Term!Tier
    <2> QED BY <1>2, <2>1
  <1>4. f \in FormRows
    <2>1. f \in [1..Len(s) -> Term!Tier]
      BY <1>3
    <2> QED BY <1>1, <2>1, RowsByPlace
  <1>5. Term!Push([draft EXCEPT !.tiers = f])
    BY <1>2 DEF Term!SetTierEnabled, SwitchedTier
  <1> QED BY <1>1, <1>4, <1>5, WithTiers, PushFits

LEMMA TermsInitially == ASSUME TermsKnown, Term!Init PROVE TermInv
  <1>1. Term!NoTerms \in FormTerms
    <2>1. <<>> \in Seq(Term!Tier) /\ Len(<<>>) = 0
      OBVIOUS
    <2> QED BY <2>1 DEF Term!NoTerms, FormTerms, Term!Terms, TermsKnown
  <1>2. Term!NoTerms.made # "form"
    BY DEF Term!NoTerms
  <1> QED BY <1>1, <1>2 DEF Term!Init, TermInv, FormTerms

LEMMA TermsInductive ==
    ASSUME TermsKnown, TermInv, [Term!Next]_Term!vars
    PROVE  TermInv'
  <1>1. CASE Term!SwitchProgramme
    <2>1. [Term!Draft EXCEPT !.enabled = ~@] \in FormTerms
      BY DraftFits, TiersFit
    <2> QED BY <1>1, <2>1, PushFits DEF Term!SwitchProgramme
  <1>2. CASE Term!Reload
    BY <1>2, SavedStays DEF Term!Reload, TermInv
  <1>3. CASE Term!Save
    BY <1>3 DEF Term!Save, Term!Store, TermInv, InPlace, Term!Accepted, Term!Terms, Term!Tier
  <1>4. ASSUME NEW c \in ApiTerms, Term!Store(c) PROVE TermInv'
    BY <1>4 DEF Term!Store, TermInv, TermsKnown, InPlace, Term!Terms, Term!Tier
  <1>5. CASE UNCHANGED Term!vars
    BY <1>5, SavedStays DEF Term!vars, TermInv
  <1>6. ASSUME NEW d \in 1..MaxTiers, d \in DOMAIN Term!Draft.tiers,
               \/ Term!DeleteTier(d)
               \/ \E type \in {"percent", "flat"}, value \in Values \cup {Blank, Junk} :
                     Term!UpdateTier(d, type, value)
               \/ \E enabled \in BOOLEAN : Term!SetTierEnabled(d, enabled)
        PROVE  TermInv'
    BY <1>6, DeleteFits, UpdateFits, SwitchTierFits
  <1> QED BY <1>1, <1>2, <1>3, <1>4, <1>5, <1>6, AddFits DEF Term!Next

LEMMA TermTypeParts == ASSUME TermInv PROVE Term!TypeOK
  BY DEF TermInv, Term!TypeOK

-----------------------------------------------------------------------------
(* RewardTerms: amounts.                                                   *)

Digit(frac, k) == IF k <= Len(frac) THEN frac[k] ELSE 0

\* g holds the numbers of the first k digits, padded with zeros.
HoldsNumbers(g, frac, n) ==
    g = [k \in 0..n |-> IF k = 0 THEN 0 ELSE g[k - 1] * 10 + Digit(frac, k)]

LEMMA PaddedIsChosen ==
    ASSUME NEW frac, NEW n
    PROVE  Term!Padded(frac, n) = (CHOOSE g : HoldsNumbers(g, frac, n))[n]
  BY DEF Term!Padded, HoldsNumbers, Digit

LEMMA DigitsFit ==
    ASSUME NEW frac \in Seq(0..9), NEW k \in 1..4
    PROVE  Digit(frac, k) \in 0..9
  BY DEF Digit

LEMMA TwoDigits ==
    ASSUME NEW frac \in Seq(0..9)
    PROVE  Term!Padded(frac, 2) = Digit(frac, 1) * 10 + Digit(frac, 2)
  <1> PICK a, b : a = Digit(frac, 1) /\ b = Digit(frac, 2)
    OBVIOUS
  <1>1. a \in 0..9 /\ b \in 0..9
    BY DigitsFit
  <1> DEFINE w == [k \in 0..2 |-> IF k = 0 THEN 0 ELSE IF k = 1 THEN a ELSE a * 10 + b]
  <1>2. HoldsNumbers(w, frac, 2)
    BY <1>1 DEF HoldsNumbers
  <1> PICK g : g = CHOOSE h : HoldsNumbers(h, frac, 2)
    OBVIOUS
  <1>3. HoldsNumbers(g, frac, 2)
    BY <1>2
  <1>4. g[0] = 0 /\ g[1] = g[0] * 10 + a /\ g[2] = g[1] * 10 + b
    BY <1>3 DEF HoldsNumbers
  <1>5. Term!Padded(frac, 2) = g[2]
    BY PaddedIsChosen
  <1> HIDE DEF w
  <1>6. g[2] = a * 10 + b
    BY <1>1, <1>4
  <1> QED BY <1>5, <1>6

LEMMA FourDigits ==
    ASSUME NEW frac \in Seq(0..9)
    PROVE  Term!Padded(frac, 4) = Digit(frac, 1) * 1000 + Digit(frac, 2) * 100
                                  + Digit(frac, 3) * 10 + Digit(frac, 4)
  <1>d. PICK a, b, c, d : /\ a = Digit(frac, 1) /\ b = Digit(frac, 2)
                          /\ c = Digit(frac, 3) /\ d = Digit(frac, 4)
    OBVIOUS
  <1>1. a \in 0..9 /\ b \in 0..9 /\ c \in 0..9 /\ d \in 0..9
    BY <1>d, DigitsFit
  <1> DEFINE w == [k \in 0..4 |-> IF k = 0 THEN 0 ELSE IF k = 1 THEN a
                                  ELSE IF k = 2 THEN a * 10 + b
                                  ELSE IF k = 3 THEN (a * 10 + b) * 10 + c
                                  ELSE ((a * 10 + b) * 10 + c) * 10 + d]
  <1>2. HoldsNumbers(w, frac, 4)
    BY <1>1, <1>d DEF HoldsNumbers
  <1>g. PICK g : g = CHOOSE h : HoldsNumbers(h, frac, 4)
    OBVIOUS
  <1>3. HoldsNumbers(g, frac, 4)
    BY <1>2, <1>g
  <1>4. /\ g[0] = 0 /\ g[1] = g[0] * 10 + a /\ g[2] = g[1] * 10 + b
        /\ g[3] = g[2] * 10 + c /\ g[4] = g[3] * 10 + d
    BY <1>3, <1>d DEF HoldsNumbers
  <1>5. Term!Padded(frac, 4) = g[4]
    BY <1>g, PaddedIsChosen
  <1> HIDE DEF w
  <1>6. g[2] = a * 10 + b
    BY <1>1, <1>4
  <1>7. g[3] = a * 100 + b * 10 + c
    BY <1>1, <1>4, <1>6
  <1>8. PICK m \in Nat : m = a * 100 + b * 10 + c
    BY <1>1
  <1>9. g[4] = m * 10 + d
    BY <1>4, <1>7, <1>8
  <1>10. m * 10 + d = a * 1000 + b * 100 + c * 10 + d
    BY <1>1, <1>8
  <1> QED BY <1>d, <1>5, <1>9, <1>10

\* A numeral that the API accepts.
LEMMA UnitsOfNumeral ==
    ASSUME NEW v \in Numerals
    PROVE  /\ Term!Units(v) \in Nat
           /\ Term!ParsePercentScaled(v) = Term!Units(v)
           /\ Term!ParseMoneyToMinor(v) \in Nat
           /\ Term!IsFloor(Term!ParseMoneyToMinor(v), Term!Units(v), 100)
  <1>1. v.whole \in Nat /\ v.frac \in Seq(0..9)
    BY DEF Numerals
  <1>w. PICK w \in Nat : w = v.whole
    BY <1>1
  <1>f. PICK frac \in Seq(0..9) : frac = v.frac
    BY <1>1
  <1>2. \A k \in 1..4 : Digit(frac, k) \in 0..9
    BY DigitsFit
  <1>a. PICK a \in 0..9 : a = Digit(frac, 1)
    BY <1>2
  <1>b. PICK b \in 0..9 : b = Digit(frac, 2)
    BY <1>2
  <1>c. PICK c \in 0..9 : c = Digit(frac, 3)
    BY <1>2
  <1>d. PICK d \in 0..9 : d = Digit(frac, 4)
    BY <1>2
  <1>3. Term!ParsePercentScaled(v) = w * 10000 + (a * 1000 + b * 100 + c * 10 + d)
    <2>1. Term!Padded(frac, 4) = a * 1000 + b * 100 + c * 10 + d
      BY <1>a, <1>b, <1>c, <1>d, FourDigits
    <2> QED BY <1>w, <1>f, <2>1 DEF Term!ParsePercentScaled
  <1>4. Term!ParseMoneyToMinor(v) = w * 100 + (a * 10 + b)
    BY <1>w, <1>f, <1>a, <1>b, TwoDigits DEF Term!ParseMoneyToMinor
  <1>5. Term!Units(v) = w * 10000 + a * 1000 + b * 100 + c * 10 + d
    BY <1>w, <1>f, <1>a, <1>b, <1>c, <1>d DEF Term!Units, Digit
  <1> PICK units, cents : /\ units = w * 10000 + a * 1000 + b * 100 + c * 10 + d
                          /\ cents = w * 100 + (a * 10 + b)
    OBVIOUS
  <1>6. /\ units \in Nat /\ cents \in Nat
        /\ w * 10000 + (a * 1000 + b * 100 + c * 10 + d) = units
        /\ cents * 100 <= units /\ units < (cents + 1) * 100
    OBVIOUS
  <1>7. /\ Term!ParsePercentScaled(v) = units
        /\ Term!ParseMoneyToMinor(v) = cents /\ Term!Units(v) = units
    BY <1>3, <1>4, <1>5, <1>6
  <1> QED BY <1>6, <1>7 DEF Term!IsFloor

LEMMA FloorOfQuotient ==
    ASSUME NEW x \in Nat
    PROVE  x \div 1000000 \in Nat /\ Term!IsFloor(x \div 1000000, x, 1000000)
  BY DEF Term!IsFloor

\* What a tier pays of a sale is rounded down, so it is above 0 when it is due.
LEMMA TierPays ==
    ASSUME NEW tier, tier.value \in Numerals, NEW amount \in Nat
    PROVE  LET paid == Term!ApplyTier(amount, tier)
               units == Term!Units(tier.value)
           IN /\ paid \in Nat
              /\ tier.type = "flat" => Term!IsFloor(paid, units, 100)
              /\ tier.type = "flat" /\ units >= 100 => paid > 0
              /\ tier.type # "flat" => Term!IsFloor(paid, amount * units, 1000000)
              /\ tier.type # "flat" /\ amount * units >= 1000000 => paid > 0
  <1> PICK units : units = Term!Units(tier.value)
    OBVIOUS
  <1>1. units \in Nat
    BY UnitsOfNumeral
  <1>2. CASE tier.type = "flat"
    BY <1>1, <1>2, UnitsOfNumeral DEF Term!ApplyTier, Term!IsFloor
  <1>3. CASE tier.type # "flat"
    <2> PICK x \in Nat : x = amount * units
      BY <1>1
    <2>1. Term!ApplyTier(amount, tier) = x \div 1000000
      BY <1>3, UnitsOfNumeral DEF Term!ApplyTier
    <2>2. x \div 1000000 \in Nat /\ Term!IsFloor(x \div 1000000, x, 1000000)
      BY FloorOfQuotient
    <2> PICK paid \in Nat : paid = x \div 1000000
      BY <2>2
    <2>3. x >= 1000000 => paid > 0
      BY <2>2 DEF Term!IsFloor
    <2> QED BY <1>3, <2>1, <2>2, <2>3
  <1> QED BY <1>2, <1>3

Reach(c) == IF Len(c.tiers) > 3 THEN Len(c.tiers) ELSE 3

\* Whom the code finds for a buyer of a family: one member at each depth.
Found(f, reach) ==
    {[to |-> f.at[d], depth |-> d] : d \in {d \in DOMAIN f.at : d <= reach /\ f.at[d] # None}}

LEMMA RewardsOfFound ==
    ASSUME FamiliesKnown, NEW f \in Families, NEW c, Reach(c) \in 3..10, NEW amount
    PROVE  Term!ComputeRewards(c, f, amount) =
               IF ~Term!Accepted(c) \/ ~c.enabled THEN {}
               ELSE UNION {{[to |-> r.to, depth |-> r.depth, amount |-> Term!ApplyTier(amount, t)] :
                               t \in {t \in Term!TierOf(c, r.depth) :
                                         Term!ApplyTier(amount, t) > 0}} :
                           r \in Found(f, Reach(c))}
  <1>1. {r \in Term!EffectiveChain(f, Reach(c)) : f.home[r.to] = f.home[f.buyer]}
        = Found(f, Reach(c))
    BY DEF FamiliesKnown, Found
  <1> QED BY <1>1 DEF Term!ComputeRewards, Reach

\* Rows numbered by their places: the tier of a depth is the row in that place.
LEMMA TierInPlace ==
    ASSUME NEW c, c.tiers \in Seq(Term!Tier), InPlace(c.tiers), NEW d
    PROVE  Term!TierOf(c, d) =
               IF d \in DOMAIN c.tiers /\ c.tiers[d].enabled THEN {c.tiers[d]} ELSE {}
  <1> PICK s \in Seq(Term!Tier) : s = c.tiers
    OBVIOUS
  <1> PICK fit : fit = {i \in DOMAIN s : s[i].depth = d /\ s[i].enabled}
    OBVIOUS
  <1>1. fit = IF d \in DOMAIN s /\ s[d].enabled THEN {d} ELSE {}
    BY DEF InPlace
  <1>2. d \in DOMAIN s => d <= d
    OBVIOUS
  <1>3. {i \in fit : \A j \in fit : i <= j} = fit
    BY <1>1, <1>2
  <1>4. Term!TierOf(c, d) = {s[i] : i \in fit}
    BY <1>3 DEF Term!TierOf, Term!FirstTier
  <1> QED BY <1>1, <1>4

\* What a configuration of the form pays.
LEMMA PaidRows ==
    ASSUME FamiliesKnown, NEW f \in Families, NEW c, NEW amount,
           c.tiers \in Seq(Term!Tier), Len(c.tiers) <= 10, InPlace(c.tiers), Term!Accepted(c)
    PROVE  \A p : p \in Term!ComputeRewards(c, f, amount) <=>
               /\ c.enabled
               /\ \E d \in DOMAIN c.tiers \cap DOMAIN f.at :
                     /\ c.tiers[d].enabled /\ f.at[d] # None
                     /\ Term!ApplyTier(amount, c.tiers[d]) > 0
                     /\ p = [to |-> f.at[d], depth |-> d,
                             amount |-> Term!ApplyTier(amount, c.tiers[d])]
  <1> PICK paid : paid = Term!ComputeRewards(c, f, amount)
    OBVIOUS
  <1>1. Len(c.tiers) \in Nat /\ DOMAIN c.tiers = 1..Len(c.tiers)
    OBVIOUS
  <1>2. Reach(c) \in 3..10 /\ \A d \in DOMAIN c.tiers : d <= Reach(c)
    <2>1. PICK n \in Nat : n = Len(c.tiers)
      BY <1>1
    <2>2. n <= 10 /\ Reach(c) = IF n > 3 THEN n ELSE 3
      BY <2>1 DEF Reach
    <2>3. (IF n > 3 THEN n ELSE 3) \in 3..10 /\ \A d \in 1..n : d <= (IF n > 3 THEN n ELSE 3)
      BY <2>2
    <2> QED BY <1>1, <2>1, <2>2, <2>3
  <1>3. CASE ~c.enabled
    BY <1>2, <1>3, RewardsOfFound
  <1>4. CASE c.enabled
    <2>1. paid = UNION {{[to |-> r.to, depth |-> r.depth, amount |-> Term!ApplyTier(amount, t)] :
                            t \in {t \in Term!TierOf(c, r.depth) :
                                      Term!ApplyTier(amount, t) > 0}} :
                        r \in Found(f, Reach(c))}
      BY <1>2, <1>4, RewardsOfFound
    <2>2. ASSUME NEW p \in paid
          PROVE  \E d \in DOMAIN c.tiers \cap DOMAIN f.at :
                     /\ c.tiers[d].enabled /\ f.at[d] # None
                     /\ Term!ApplyTier(amount, c.tiers[d]) > 0
                     /\ p = [to |-> f.at[d], depth |-> d,
                             amount |-> Term!ApplyTier(amount, c.tiers[d])]
      <3>1. PICK r \in Found(f, Reach(c)) : \E t \in Term!TierOf(c, r.depth) :
                /\ Term!ApplyTier(amount, t) > 0
                /\ p = [to |-> r.to, depth |-> r.depth, amount |-> Term!ApplyTier(amount, t)]
        BY <2>1
      <3>2. PICK d \in DOMAIN f.at : f.at[d] # None /\ r = [to |-> f.at[d], depth |-> d]
        BY DEF Found
      <3>3. r.to = f.at[d] /\ r.depth = d
        BY <3>2
      <3>4. d \in DOMAIN c.tiers /\ c.tiers[d].enabled /\ Term!TierOf(c, d) = {c.tiers[d]}
        BY <3>1, <3>3, TierInPlace
      <3> QED BY <3>1, <3>2, <3>3, <3>4
    <2>3. ASSUME NEW d \in DOMAIN c.tiers \cap DOMAIN f.at,
                 c.tiers[d].enabled, f.at[d] # None, Term!ApplyTier(amount, c.tiers[d]) > 0
          PROVE  [to |-> f.at[d], depth |-> d,
                  amount |-> Term!ApplyTier(amount, c.tiers[d])] \in paid
      <3>1. PICK r : r = [to |-> f.at[d], depth |-> d]
        OBVIOUS
      <3>2. r \in Found(f, Reach(c)) /\ r.to = f.at[d] /\ r.depth = d
        BY <1>2, <2>3, <3>1 DEF Found
      <3>3. c.tiers[d] \in Term!TierOf(c, r.depth)
        BY <2>3, <3>2, TierInPlace
      <3> QED BY <2>1, <2>3, <3>2, <3>3
    <2> QED BY <1>4, <2>2, <2>3
  <1> QED BY <1>3, <1>4

\* What the form shows of the terms it has saved is what is stored.
LEMMA SavedIsShown ==
    ASSUME TermsKnown, TermInv, saved.made = "form", text = saved
    PROVE  /\ Term!Draft.tiers = saved.tiers
           /\ \A d \in DOMAIN saved.tiers : saved.tiers[d].value \in Numerals
  <1> PICK s \in Seq(Term!Tier) : s = saved.tiers
    BY DEF TermInv, Term!Terms
  <1>1. \A d \in DOMAIN s : s[d].depth = d /\ s[d].value \notin {Blank, Junk}
    BY DEF TermInv, InPlace, Term!Accepted
  <1>2. \A d \in DOMAIN s : s[d] \in Term!Tier
    OBVIOUS
  <1> PICK n \in Nat : n = Len(s)
    OBVIOUS
  <1> PICK f : f = [i \in 1..n |-> ShownTier(s[i], i)]
    OBVIOUS
  <1>3. \A i \in 1..n : f[i] = s[i]
    <2> SUFFICES ASSUME NEW i \in 1..n PROVE f[i] = s[i]
      OBVIOUS
    <2>1. PICK tier \in Term!Tier : tier = s[i] /\ tier.depth = i /\ tier.value # Blank
      BY <1>1, <1>2
    <2>2. ShownTier(tier, i) = tier
      BY <2>1 DEF ShownTier, Term!Tier
    <2> QED BY <2>1, <2>2
  <1>4. f = s
    <2>1. s = [i \in 1..n |-> s[i]]
      OBVIOUS
    <2> QED BY <1>3, <2>1
  <1>5. Term!Draft.tiers = s
    <2>1. Term!Draft = [text EXCEPT !.tiers = f]
      <3>1. DOMAIN text.tiers = 1..n
        OBVIOUS
      <3> QED BY <3>1 DEF Term!Draft, Term!ToDraft, ShownTier
    <2>2. text \in Term!Terms
      BY DEF TermInv
    <2> QED BY <1>4, <2>1, <2>2 DEF Term!Terms
  <1>6. Term!Zero \in Numerals
    <2>1. <<>> \in Seq(0..9)
      OBVIOUS
    <2> QED BY <2>1 DEF Term!Zero, Numerals
  <1>7. \A d \in DOMAIN s : s[d].value \in Numerals
    BY <1>1, <1>2, <1>6 DEF Term!Tier, TermsKnown
  <1> QED BY <1>5, <1>7

LEMMA FormPays ==
    ASSUME TermsKnown, FamiliesKnown, AmountsKnown, TermInv
    PROVE  Term!PaysWhatTheFormShows
  <1> SUFFICES ASSUME saved.made = "form", text = saved, NEW f \in Families, NEW amount \in Amounts
               PROVE  LET paid == Term!ComputeRewards(saved, f, amount)
                          shown(d) == d \in DOMAIN Term!Draft.tiers /\ Term!Draft.tiers[d].enabled
                      IN /\ \A p \in paid :
                               /\ saved.enabled /\ shown(p.depth)
                               /\ f.at[p.depth] = p.to
                               /\ LET t == Term!Draft.tiers[p.depth]
                                  IN IF t.type = "flat"
                                     THEN Term!IsFloor(p.amount, Term!Units(t.value), 100)
                                     ELSE Term!IsFloor(p.amount, amount * Term!Units(t.value),
                                                       1000000)
                         /\ \A d \in DOMAIN f.at :
                               (saved.enabled /\ shown(d) /\ f.at[d] # None) =>
                                  LET t == Term!Draft.tiers[d]
                                      due == IF t.type = "flat" THEN Term!Units(t.value) >= 100
                                             ELSE amount * Term!Units(t.value) >= 1000000
                                  IN due => \E p \in paid : p.depth = d /\ p.to = f.at[d]
    BY DEF Term!PaysWhatTheFormShows
  <1> PICK s : s = saved.tiers
    OBVIOUS
  <1> PICK paid : paid = Term!ComputeRewards(saved, f, amount)
    OBVIOUS
  <1>1. Term!Draft.tiers = s /\ \A d \in DOMAIN s : s[d].value \in Numerals
    BY SavedIsShown
  <1>2. \A p : p \in paid <=>
               /\ saved.enabled
               /\ \E d \in DOMAIN s \cap DOMAIN f.at :
                     /\ s[d].enabled /\ f.at[d] # None
                     /\ Term!ApplyTier(amount, s[d]) > 0
                     /\ p = [to |-> f.at[d], depth |-> d,
                             amount |-> Term!ApplyTier(amount, s[d])]
    <2>1. s \in Seq(Term!Tier) /\ Len(s) <= 10 /\ InPlace(s) /\ Term!Accepted(saved)
      BY DEF TermInv, Term!Terms, TermsKnown
    <2> QED BY <2>1, PaidRows
  <1>3. amount \in Nat
    BY DEF AmountsKnown
  <1>4. ASSUME NEW p \in paid
        PROVE  /\ saved.enabled /\ p.depth \in DOMAIN s /\ s[p.depth].enabled
               /\ f.at[p.depth] = p.to
               /\ IF s[p.depth].type = "flat"
                  THEN Term!IsFloor(p.amount, Term!Units(s[p.depth].value), 100)
                  ELSE Term!IsFloor(p.amount, amount * Term!Units(s[p.depth].value), 1000000)
    <2>1. PICK d \in DOMAIN s : /\ saved.enabled /\ s[d].enabled
                                /\ p.to = f.at[d] /\ p.depth = d
                                /\ p.amount = Term!ApplyTier(amount, s[d])
      BY <1>2, <1>4
    <2>2. IF s[d].type = "flat" THEN Term!IsFloor(p.amount, Term!Units(s[d].value), 100)
          ELSE Term!IsFloor(p.amount, amount * Term!Units(s[d].value), 1000000)
      BY <1>1, <1>3, <2>1, TierPays
    <2> QED BY <2>1, <2>2
  <1>5. ASSUME NEW d \in DOMAIN f.at, saved.enabled, d \in DOMAIN s, s[d].enabled,
               f.at[d] # None,
               IF s[d].type = "flat" THEN Term!Units(s[d].value) >= 100
               ELSE amount * Term!Units(s[d].value) >= 1000000
        PROVE  \E p \in paid : p.depth = d /\ p.to = f.at[d]
    <2>1. Term!ApplyTier(amount, s[d]) > 0
      BY <1>1, <1>3, <1>5, TierPays
    <2> PICK p : p = [to |-> f.at[d], depth |-> d, amount |-> Term!ApplyTier(amount, s[d])]
      OBVIOUS
    <2>2. p \in paid
      BY <1>2, <1>5, <2>1
    <2> QED BY <2>2
  <1> QED BY <1>1, <1>4, <1>5

-----------------------------------------------------------------------------
(* Calculations.                                                           *)

LEMMA NearestQuotient ==
    ASSUME NEW x \in Int
    PROVE  LET rest == x - ((x + 500000) \div 1000000) * 1000000
           IN  -500000 <= rest /\ rest < 500000
  OBVIOUS

\* normalizeToCredits, for any amount and rate.
LEMMA CreditsAreNearest ==
    ASSUME AmountsKnown, NEW m \in Sum!Money
    PROVE  Sum!CreditsAreNearest(m)
  <1>1. CASE m.currency = "EUR" \/ m.rate = None
    BY <1>1 DEF Sum!CreditsAreNearest, Sum!NormalizeToCredits
  <1>2. CASE m.currency # "EUR" /\ m.rate # None
    <2>1. m.minor \in Int /\ m.rate \in Int
      BY <1>2 DEF Sum!Money, AmountsKnown
    <2>2. PICK x \in Int : x = m.minor * m.rate
      BY <2>1
    <2>3. Sum!NormalizeToCredits(m) = (x + 500000) \div 1000000
      BY <1>2, <2>2 DEF Sum!NormalizeToCredits, Sum!MultiplyMinorByDecimal
    <2> QED BY <1>2, <2>2, <2>3, NearestQuotient DEF Sum!CreditsAreNearest
  <1> QED BY <1>1, <1>2

\* g holds what the events of each set of instants leave of the row.
HoldsRows(g, said) ==
    g = [T \in SUBSET Instants |->
            IF T = {} THEN Sum!NoRow
            ELSE Sum!Applied(g[T \ {Sum!Latest(T)}], said[Sum!Latest(T)], Sum!Latest(T))]

LEMMA SummaryIsChosen ==
    ASSUME NEW said
    PROVE  Sum!Summary(said) = (CHOOSE g : HoldsRows(g, said))[Instants]
  BY DEF Sum!Summary, Sum!MapThenFoldSet, HoldsRows

TotalOrder(R, S) ==
    /\ \A a, b \in S : <<a, b>> \in R \/ <<b, a>> \in R
    /\ \A a, b, c \in S : <<a, b>> \in R /\ <<b, c>> \in R => <<a, c>> \in R

\* A finite set has a last element in any total order.
LEMMA LastInOrder ==
    ASSUME NEW S, IsFiniteSet(S), NEW R, TotalOrder(R, S), NEW T \in SUBSET S, T # {}
    PROVE  \E t \in T : \A u \in T : <<u, t>> \in R
  <1> DEFINE Bad == {U \in SUBSET S : U # {} /\ \A t \in U : \E u \in U : <<u, t>> \notin R}
  <1> SUFFICES ASSUME Bad # {} PROVE FALSE
    OBVIOUS
  <1>1. PICK U \in Bad : \A V \in Bad : V \subseteq U => V = U
    <2>1. Bad \subseteq SUBSET S
      OBVIOUS
    <2> HIDE DEF Bad
    <2> QED BY <2>1, SmallestBad
  <1>2. PICK a \in U : U \in SUBSET S
    OBVIOUS
  <1>3. CASE U = {a}
    BY <1>2, <1>3 DEF TotalOrder
  <1>4. CASE U # {a}
    <2>1. U \ {a} # {} /\ U \ {a} \in SUBSET S
      BY <1>2, <1>4
    <2>2. PICK t \in U \ {a} : \A u \in U \ {a} : <<u, t>> \in R
      <3>1. U \ {a} \notin Bad
        <4> HIDE DEF Bad
        <4> QED BY <1>1, <1>2
      <3> QED BY <2>1, <3>1
    <2>3. PICK y \in {t, a} : <<t, y>> \in R /\ <<a, y>> \in R
      BY <1>2, <2>2 DEF TotalOrder
    <2>4. \A u \in U : <<u, y>> \in R
      BY <1>2, <2>2, <2>3 DEF TotalOrder
    <2> QED BY <1>2, <2>2, <2>3, <2>4
  <1> QED BY <1>3, <1>4

LEMMA LatestExists ==
    ASSUME IsFiniteSet(Instants), Instants \subseteq Int, NEW T \in SUBSET Instants, T # {}
    PROVE  Sum!Latest(T) \in T /\ \A t \in T : t <= Sum!Latest(T)
  <1>r. PICK R : R = {p \in Instants \X Instants : p[1] <= p[2]}
    OBVIOUS
  <1>1. TotalOrder(R, Instants)
    BY <1>r DEF TotalOrder
  <1>2. PICK t \in T : \A u \in T : <<u, t>> \in R
    BY <1>1, LastInOrder
  <1>3. \A u \in T : u <= t
    BY <1>r, <1>2
  <1> QED BY <1>3 DEF Sum!Latest

LEMMA LeastExists ==
    ASSUME IsFiniteSet(Instants), Instants \subseteq Int, NEW T \in SUBSET Instants, T # {}
    PROVE  \E t \in T : \A u \in T : t <= u
  <1>r. PICK R : R = {p \in Instants \X Instants : p[2] <= p[1]}
    OBVIOUS
  <1>1. TotalOrder(R, Instants)
    BY <1>r DEF TotalOrder
  <1>2. PICK t \in T : \A u \in T : <<u, t>> \in R
    BY <1>1, LastInOrder
  <1> QED BY <1>r, <1>2

LEMMA LatestIs ==
    ASSUME IsFiniteSet(Instants), Instants \subseteq Int, NEW T \in SUBSET Instants,
           NEW t \in T, \A u \in T : u <= t
    PROVE  Sum!Latest(T) = t
  <1>1. Sum!Latest(T) \in T /\ \A u \in T : u <= Sum!Latest(T)
    BY LatestExists
  <1> PICK u : u = Sum!Latest(T)
    OBVIOUS
  <1>2. u \in Int /\ t \in Int /\ u <= t /\ t <= u
    BY <1>1
  <1> QED BY <1>2

Least(T) == CHOOSE t \in T : \A u \in T : t <= u
StartsIn(said, T) == {t \in T : said[t] = "subscription_started"}
EventsIn(said, T) == StartsIn(said, T) \cup {t \in T : said[t] = "subscription_cancelled"}

\* What SummaryIsHistory says, of the events of some instants.
History(said, T) ==
    LET starts == StartsIn(said, T)
        all == EventsIn(said, T)
        ended == Sum!Latest(all) \notin starts
    IN IF all = {} THEN Sum!NoRow
       ELSE [status |-> IF ended THEN "cancelled" ELSE "active",
             startedAt |-> IF starts = {} THEN Least(all) ELSE Sum!Latest(starts),
             cancelledAt |-> IF ended THEN Sum!Latest(all) ELSE None]

LEMMA HistoryOfAll ==
    ASSUME NEW said
    PROVE  Sum!SummaryIsHistory(said) <=> Sum!Summary(said) = History(said, Instants)
  BY DEF Sum!SummaryIsHistory, History, StartsIn, EventsIn, Least

\* The row of a history that is not empty.
LEMMA HistoryIsRow ==
    ASSUME NEW said, NEW T, EventsIn(said, T) # {}
    PROVE  History(said, T) # Sum!NoRow
  BY DEF History, Sum!NoRow

\* An event after all others is not the first.
LEMMA LeastStays ==
    ASSUME IsFiniteSet(Instants), Instants \subseteq Int, NEW V \in SUBSET Instants, V # {},
           NEW t \in Instants, \A u \in V : u <= t
    PROVE  Least(V \cup {t}) = Least(V)
  <1>1. PICK v \in V : \A u \in V : v <= u
    BY LeastExists
  <1>2. \A u \in V \cup {t} : v <= u
    BY <1>1
  <1>3. ASSUME NEW W \in SUBSET Instants, v \in W, \A u \in W : v <= u
        PROVE  Least(W) = v
    <2> PICK u : u = Least(W)
      OBVIOUS
    <2>1. u \in W /\ u <= v
      BY <1>3 DEF Least
    <2> QED BY <1>3, <2>1
  <1> QED BY <1>1, <1>2, <1>3

LEMMA LatestApplied ==
    ASSUME IsFiniteSet(Instants), Instants \subseteq Int,
           NEW said \in [Instants -> {"none", "subscription_started", "subscription_cancelled"}],
           NEW T \in SUBSET Instants, T # {}
    PROVE  History(said, T) =
               Sum!Applied(History(said, T \ {Sum!Latest(T)}), said[Sum!Latest(T)], Sum!Latest(T))
  <1> PICK t : t = Sum!Latest(T)
    OBVIOUS
  <1> PICK U : U = T \ {t}
    OBVIOUS
  <1>1. t \in T /\ U \in SUBSET Instants /\ \A u \in T : u <= t
    BY LatestExists
  <1>2. CASE said[t] = "none"
    <2>1. StartsIn(said, T) = StartsIn(said, U) /\ EventsIn(said, T) = EventsIn(said, U)
      BY <1>2 DEF StartsIn, EventsIn
    <2> QED BY <1>2, <2>1 DEF History, Sum!Applied
  <1>3. CASE said[t] = "subscription_started"
    <2>1. t \in StartsIn(said, T) /\ StartsIn(said, T) \in SUBSET Instants
          /\ \A u \in StartsIn(said, T) : u <= t
      BY <1>1, <1>3 DEF StartsIn
    <2>2. t \in EventsIn(said, T) /\ EventsIn(said, T) \in SUBSET Instants
          /\ \A u \in EventsIn(said, T) : u <= t
      BY <1>1, <2>1 DEF StartsIn, EventsIn
    <2>3. Sum!Latest(StartsIn(said, T)) = t /\ Sum!Latest(EventsIn(said, T)) = t
      BY <2>1, <2>2, LatestIs
    <2>4. History(said, T) = [status |-> "active", startedAt |-> t, cancelledAt |-> None]
      BY <2>1, <2>2, <2>3 DEF History
    <2> QED BY <1>3, <2>4 DEF Sum!Applied
  <1>4. CASE said[t] = "subscription_cancelled"
    <2>1. StartsIn(said, T) = StartsIn(said, U) /\ EventsIn(said, T) = EventsIn(said, U) \cup {t}
          /\ t \notin EventsIn(said, U)
      BY <1>1, <1>4 DEF StartsIn, EventsIn
    <2>2. t \in EventsIn(said, T) /\ EventsIn(said, T) \in SUBSET Instants
          /\ \A u \in EventsIn(said, T) : u <= t
      BY <1>1, <2>1 DEF StartsIn, EventsIn
    <2>3. Sum!Latest(EventsIn(said, T)) = t /\ t \notin StartsIn(said, T)
      BY <1>4, <2>2, LatestIs DEF StartsIn
    <2> PICK row : row = History(said, U)
      OBVIOUS
    <2>4. CASE EventsIn(said, U) = {}
      <3>1. StartsIn(said, T) = {} /\ EventsIn(said, T) = {t}
        BY <2>1, <2>4 DEF EventsIn
      <3>2. Least({t}) = t
        BY <1>1 DEF Least
      <3>3. History(said, T) = [status |-> "cancelled", startedAt |-> t, cancelledAt |-> t]
        BY <2>3, <3>1, <3>2 DEF History
      <3>4. row = Sum!NoRow
        BY <2>4 DEF History
      <3> QED BY <1>4, <3>3, <3>4 DEF Sum!Applied
    <2>5. CASE EventsIn(said, U) # {}
      <3> PICK started : started = IF StartsIn(said, T) = {} THEN Least(EventsIn(said, T))
                                   ELSE Sum!Latest(StartsIn(said, T))
        OBVIOUS
      <3>1. Least(EventsIn(said, T)) = Least(EventsIn(said, U))
        <4> PICK V : V = EventsIn(said, U)
          OBVIOUS
        <4>1. V \in SUBSET Instants /\ \A u \in V : u <= t
          BY <1>1 DEF EventsIn, StartsIn
        <4> QED BY <1>1, <2>1, <2>5, <4>1, LeastStays
      <3>2. History(said, T) = [status |-> "cancelled", startedAt |-> started, cancelledAt |-> t]
        BY <2>2, <2>3 DEF History
      <3>3. row # Sum!NoRow /\ \E a, b : row = [status |-> a, startedAt |-> started, cancelledAt |-> b]
        BY <2>1, <2>5, <3>1, HistoryIsRow DEF History
      <3>4. row.startedAt = started
        BY <3>3
      <3>5. Sum!Applied(row, said[t], t)
            = [status |-> "cancelled", startedAt |-> row.startedAt, cancelledAt |-> t]
        BY <1>4, <3>3 DEF Sum!Applied
      <3> QED BY <3>2, <3>4, <3>5
    <2> QED BY <2>4, <2>5
  <1> QED BY <1>1, <1>2, <1>3, <1>4

Agree(g, h, T) == g[T] = h[T]

\* Of the sets on which two functions differ one is smallest.
LEMMA SmallestDifference ==
    ASSUME NEW S, IsFiniteSet(S), NEW g, NEW h, ~Agree(g, h, S)
    PROVE  \E T \in SUBSET S :
               ~Agree(g, h, T) /\ \A V \in SUBSET T : V # T => Agree(g, h, V)
  <1> DEFINE Bad == {T \in SUBSET S : ~Agree(g, h, T)}
  <1>1. PICK T \in Bad : \A V \in Bad : V \subseteq T => V = T
    <2>1. Bad \subseteq SUBSET S /\ Bad # {}
      OBVIOUS
    <2> HIDE DEF Bad
    <2> QED BY <2>1, SmallestBad
  <1> QED BY <1>1

LEMMA RowsAreUnique ==
    ASSUME IsFiniteSet(Instants), Instants \subseteq Int, NEW said,
           NEW g, HoldsRows(g, said), NEW h, HoldsRows(h, said)
    PROVE  g[Instants] = h[Instants]
  <1> SUFFICES ASSUME ~Agree(g, h, Instants) PROVE FALSE
    BY DEF Agree
  <1>1. PICK T \in SUBSET Instants :
            ~Agree(g, h, T) /\ \A V \in SUBSET T : V # T => Agree(g, h, V)
    BY SmallestDifference
  <1>2. T # {}
    BY <1>1 DEF HoldsRows, Agree
  <1>3. Sum!Latest(T) \in T
    BY <1>2, LatestExists
  <1> PICK U : U = T \ {Sum!Latest(T)}
    OBVIOUS
  <1>4. g[U] = h[U]
    BY <1>1, <1>3 DEF Agree
  <1>5. /\ g[T] = Sum!Applied(g[U], said[Sum!Latest(T)], Sum!Latest(T))
        /\ h[T] = Sum!Applied(h[U], said[Sum!Latest(T)], Sum!Latest(T))
    BY <1>2 DEF HoldsRows
  <1> QED BY <1>1, <1>4, <1>5 DEF Agree

\* The events in their order leave what the history says.
LEMMA RowsAreHistories ==
    ASSUME IsFiniteSet(Instants), Instants \subseteq Int,
           NEW said \in [Instants -> {"none", "subscription_started", "subscription_cancelled"}]
    PROVE  Sum!SummaryIsHistory(said)
  <1> DEFINE h == [T \in SUBSET Instants |-> History(said, T)]
  <1>1. HoldsRows(h, said)
    <2> SUFFICES ASSUME NEW T \in SUBSET Instants
                 PROVE  h[T] = IF T = {} THEN Sum!NoRow
                               ELSE Sum!Applied(h[T \ {Sum!Latest(T)}], said[Sum!Latest(T)],
                                                Sum!Latest(T))
      BY DEF HoldsRows
    <2>1. CASE T = {}
      BY <2>1 DEF History, EventsIn, StartsIn
    <2>2. CASE T # {}
      BY <2>2, LatestApplied
    <2> QED BY <2>1, <2>2
  <1>g. PICK g : g = CHOOSE k : HoldsRows(k, said)
    OBVIOUS
  <1>2. HoldsRows(g, said)
    BY <1>1, <1>g
  <1> HIDE DEF h
  <1>3. g[Instants] = h[Instants]
    BY <1>1, <1>2, RowsAreUnique
  <1>4. Sum!Summary(said) = h[Instants]
    BY <1>g, <1>3, SummaryIsChosen
  <1>5. h[Instants] = History(said, Instants)
    BY DEF h
  <1> QED BY <1>4, <1>5, HistoryOfAll

-----------------------------------------------------------------------------
(* Behaviours.                                                             *)

Parts ==
    part \in {"graph", "page", "tenancy", "book", "fraud", "report", "stripe", "term", "sum"}

\* A behaviour is of one part from its first step to its last.
LEMMA PartsBegin ==
    ASSUME BackOfficeInit
    PROVE  /\ part = "graph" => Graph!Init
           /\ part = "page" => Page!Init
           /\ part = "book" => Book!Init
           /\ part = "fraud" => Init
           /\ part = "tenancy" => Tenancy!Init
           /\ part = "stripe" => Stripe!Init
           /\ part = "report" => Report!Init
           /\ part = "term" => Term!Init
           /\ part = "sum" => Sum!Init
  BY DEF BackOfficeInit

LEMMA PartsGoOn ==
    ASSUME [BackOfficeNext]_backOfficeVars
    PROVE  /\ part' = part
           /\ part = "graph" => [Graph!Next]_Graph!vars
           /\ part = "page" => [Page!Next]_Page!vars
           /\ part = "book" => [Book!Next]_Book!vars
           /\ part = "fraud" => [Next]_vars
           /\ part = "tenancy" => [Tenancy!Next]_Tenancy!vars
           /\ part = "stripe" => [Stripe!Next]_Stripe!vars
           /\ part = "report" => [Report!Next]_Report!vars
           /\ part = "term" => [Term!Next]_Term!vars
           /\ part = "sum" => input' = input
  <1>1. CASE UNCHANGED backOfficeVars
    BY <1>1 DEF backOfficeVars, FraudVars, TenancyVars, StripeVars, vars, rowVars, caseVars,
       historyVars, Tenancy!vars, Tenancy!rowVars, Tenancy!configVars, Stripe!vars, GraphVars,
       Graph!vars, Graph!edgeVars, PageVars, Page!vars, Page!data, Page!session, BookVars,
       Book!vars, Book!ledgerVars, Book!walletVars, ReportVars, Report!vars,
       Report!sourceVars, TermVars, Term!vars, SumVars
  <1>2. CASE BackOfficeNext
    BY <1>2 DEF BackOfficeNext, Sum!Next
  <1> QED BY <1>1, <1>2

-----------------------------------------------------------------------------
(* The theorems.                                                           *)

LEMMA FraudInvariance ==
    BackOfficeSpec => [](part = "fraud" => FraudInv /\ FraudTypesInv)
  <1> DEFINE Inv == part = "fraud" => FraudInv /\ FraudTypesInv
  <1>1. BackOfficeInit => Inv
    BY PartsBegin, FraudInitially, FraudTypesInitially, BackOfficeAssumption
  <1>2. Inv /\ [BackOfficeNext]_backOfficeVars => Inv'
    BY PartsGoOn, FraudInductive, FraudTypesInductive, BackOfficeAssumption
  <1> QED BY <1>1, <1>2, PTL DEF BackOfficeSpec

\* recordSignal's order - insert, read the score, look for a case - opens a case
\* for every user who reaches the threshold, however many requests run at once,
\* unless one of them fails in between.  And of the requests of two events of one
\* card, the one that checks later sees the other's event, since both events were
\* stored before their checks began.
THEOREM CasesAndCardsAreNoticed == BackOfficeSpec => []SuspicionIsNoticed
  <1>1. FraudInv => SharedCardIsSignalled
    <2> SUFFICES ASSUME CardsInv, FraudLocalsInv, NEW e \in events, NEW f \in events, Pair(e, f),
                        \A h \in Screeners : screen[h].event \notin {e, f}
                 PROVE  Noticed(Facts[e].card)
      BY DEF FraudInv, SharedCardIsSignalled, Pair, Noticed
    <2> QED BY DEF CardsInv
  <1>2. FraudInv => CrossingOpensCase
    BY DEF FraudInv, CasesInv
  <1>3. (part = "fraud" => FraudInv /\ FraudTypesInv) => SuspicionIsNoticed
    BY <1>1, <1>2 DEF SuspicionIsNoticed
  <1> QED BY <1>3, FraudInvariance, PTL

LEMMA TenancyInvariance ==
    BackOfficeSpec => [](part = "tenancy" => TenancyInv)
  <1> DEFINE Inv == part = "tenancy" => TenancyInv
  <1>1. BackOfficeInit => Inv
    BY PartsBegin, TenancyInitially, BackOfficeAssumption
  <1>2. Inv /\ [BackOfficeNext]_backOfficeVars => Inv'
    BY PartsGoOn, TenancyInductive, BackOfficeAssumption
  <1> QED BY <1>1, <1>2, PTL DEF BackOfficeSpec

\* Every user descends from user0 although a source is looked up a statement
\* before the row that names it is written, and no tenant has users before its
\* owner (TenantsController.create, IdentityService.findOrCreateTenantUser).
THEOREM UsersAreRooted == BackOfficeSpec => []MembersAreRooted
  <1>1. (part = "tenancy" => TenancyInv) => MembersAreRooted
    BY DEF TenancyInv, RootInv, MembersAreRooted
  <1> QED BY <1>1, TenancyInvariance, PTL

\* A product stays as it was registered whatever else of the tenant is written,
\* for any number of products and requests, as long as no two requests of one
\* tenant overlap (TenantService.registerCheckoutProduct, updateWebhookConfig).
THEOREM ProductsStay == BackOfficeSpec => []RegisteredStaysOffered
  <1>1. (part = "tenancy" => TenancyInv) => RegisteredStaysOffered
    BY DEF TenancyInv, ConfigInv, RegisteredStaysOffered, Tenancy!RegisteredStaysOffered
  <1> QED BY <1>1, TenancyInvariance, PTL

LEMMA StripeInvariance == BackOfficeSpec => [](part = "stripe" => StripeInv /\ StripeTypesInv)
  <1> DEFINE Inv == part = "stripe" => StripeInv /\ StripeTypesInv
  <1>1. BackOfficeInit => Inv
    BY PartsBegin, StripeInitially, StripeTypesInitially, BackOfficeAssumption
  <1>2. Inv /\ [BackOfficeNext]_backOfficeVars => Inv'
    BY PartsGoOn, StripeInductive, StripeTypesInductive, BackOfficeAssumption
  <1> QED BY <1>1, <1>2, PTL DEF BackOfficeSpec

\* Whatever Stripe delivers, in whatever order, to any number of requests that
\* fail anywhere, resolveRefundOrChargebackContext and
\* resolveDisputeResolutionContext tie a compensation to a stored payment or
\* dispute of its own.
THEOREM LinksAreOwn == BackOfficeSpec => []CompensatesItsOwn
  <1>1. (part = "stripe" => StripeInv /\ StripeTypesInv) => CompensatesItsOwn
    BY DEF StripeInv, StoredInv, Tied, CompensatesItsOwn, Stripe!CompensatesItsOwn
  <1> QED BY <1>1, StripeInvariance, PTL

\* What StripeWebhooksController answers without an error, and so will not get
\* again, has its row and has reached the wallet, unless it came before what it
\* refers to.
THEOREM AnswersAreDone == BackOfficeSpec => []AnsweredIsDone
  <1>1. (part = "stripe" => StripeInv /\ StripeTypesInv) => AnsweredIsDone
    BY DEF StripeInv, AnsweredIsDone
  <1> QED BY <1>1, StripeInvariance, PTL

\* Who applied a code while the referrer had one is below all that the referrer is
\* below, one level deeper, for any number of calls at once, users and edges locked
\* or applied again; but for a user whose referrer got an edge between the read and
\* the commit of the call (ReferralService.applyCode, createEdgeWithAncestry).
THEOREM AncestryIsInherited == BackOfficeSpec => []InheritsAncestry
  <1> DEFINE Sound == part = "graph" => GraphInv
             Fresh == part = "graph" => FreshInv
  <1>1. GraphAssumption
    BY BackOfficeAssumption DEF GraphAssumption
  <1>2. BackOfficeInit => Sound /\ Fresh
    BY <1>1, PartsBegin, GraphInitially
  <1>3. Sound /\ Fresh /\ [BackOfficeNext]_backOfficeVars => Sound' /\ Fresh'
    BY <1>1, PartsGoOn, GraphInductive
  <1>4. Fresh => InheritsAncestry
    BY DEF FreshInv, InheritsAncestry
  <1> QED BY <1>2, <1>3, <1>4, PTL DEF BackOfficeSpec

LEMMA PageInvariance == BackOfficeSpec => [](part = "page" => PageInv)
  <1> DEFINE Inv == part = "page" => PageInv
  <1>1. PagesListRows
    BY BackOfficeAssumption
  <1>2. BackOfficeInit => Inv
    BY <1>1, PartsBegin, PageInitially
  <1>3. Inv /\ [BackOfficeNext]_backOfficeVars => Inv'
    BY <1>1, PartsGoOn, PageInductive
  <1> QED BY <1>2, <1>3, PTL DEF BackOfficeSpec

\* Whatever order answers arrive in and whatever the admin clicks, for any number
\* of calls in flight and any rows: an adjustment goes to the user on the screen,
\* for an admin who waits for the calls that set loading (App.tsx).
THEOREM AdjustmentsAreShown == BackOfficeSpec => []AdjustsShownUser
  <1>1. (part = "page" => PageInv) => AdjustsShownUser
    BY PatientShowsUser DEF AdjustsShownUser
  <1> QED BY <1>1, PageInvariance, PTL

\* No answer takes a selection away that it still lists, by the functional updates
\* of setSelectedFraudCaseId, setSelectedPromoterApplicationId and
\* setSelectedSettlementCycleId.
THEOREM SelectionsAreKept == BackOfficeSpec => KeepsSelection
  <1>1. (part = "page" => PageInv) /\ [BackOfficeNext]_backOfficeVars
            => (part = "page" => Page!KeepsSelection)
    BY PartsGoOn, ListingKeepsSelection DEF PageInv
  <1>2. [](part = "page" => PageInv) /\ [][BackOfficeNext]_backOfficeVars => KeepsSelection
    BY <1>1, PTL DEF KeepsSelection
  <1> QED BY <1>2, PageInvariance, PTL DEF BackOfficeSpec

LEMMA BookInvariance == BackOfficeSpec => [](part = "book" => BookInv)
  <1> DEFINE Inv == part = "book" => BookInv
  <1>1. BooksKnown
    BY BackOfficeAssumption
  <1>2. BackOfficeInit => Inv
    BY <1>1, PartsBegin, BooksInitially
  <1>3. Inv /\ [BackOfficeNext]_backOfficeVars => Inv'
    BY <1>1, PartsGoOn, BooksInductive
  <1> QED BY <1>2, <1>3, PTL DEF BackOfficeSpec

\* However many requests adjust, post and settle at once and wherever they fail, a
\* cycle is stored with what each user is owed, and no user's debt lowers it,
\* unless an adjustment was posted since the accounts were listed: accounts opened
\* meanwhile are missing from the list, but only a posting makes them count
\* (SettlementService.computeSnapshot, openCycle, closeCycle).
THEOREM CyclesStoreLiability == BackOfficeSpec => StoresLiability
  <1>1. BooksKnown
    BY BackOfficeAssumption
  <1>2. (part = "book" => BookInv) /\ [BackOfficeNext]_backOfficeVars
            => (part = "book" => Book!StoresLiability)
    BY <1>1, PartsGoOn, BooksInductive
  <1>3. [](part = "book" => BookInv) /\ [][BackOfficeNext]_backOfficeVars => StoresLiability
    BY <1>2, PTL DEF StoresLiability
  <1> QED BY <1>3, BookInvariance, PTL DEF BackOfficeSpec

LEMMA ReportInvariance == BackOfficeSpec => [](part = "report" => ReportInv)
  <1> DEFINE Inv == part = "report" => ReportInv
  <1>1. WindowKnown
    BY BackOfficeAssumption
  <1>2. BackOfficeInit => Inv
    BY <1>1, PartsBegin, ReportInitially
  <1>3. Inv /\ [BackOfficeNext]_backOfficeVars => Inv'
    BY <1>1, PartsGoOn, ReportInductive
  <1> QED BY <1>2, <1>3, PTL DEF BackOfficeSpec

\* For any number of events, users and rewards, any length of day and any
\* lookback: after a run that is complete and after which nothing has come, the
\* dashboard shows what a count over all the sources gives, although the run read
\* a window that begins within a day and kept the rows of other days
\* (ReportingService.rebuildAll, getDashboardSeries).
THEOREM DashboardIsExact == BackOfficeSpec => []RollupIsExact
  <1>1. WindowKnown
    BY BackOfficeAssumption
  <1>2. (part = "report" => ReportInv) => RollupIsExact
    BY <1>1, ExactRollup DEF RollupIsExact
  <1> QED BY <1>2, ReportInvariance, PTL

\* A run that reads while events and rewards come never lowers the figure of a day
\* but of the one in the middle of which its window begins: what a row shows was
\* in the sources, and the sources only grow (ReportingService.rebuildAll).
THEOREM OldDaysStay == BackOfficeSpec => KeepsOldDays
  <1>1. WindowKnown
    BY BackOfficeAssumption
  <1>2. (part = "report" => ReportInv) /\ [BackOfficeNext]_backOfficeVars
            => (part = "report" => Report!KeepsOldDays)
    BY <1>1, PartsGoOn, ReportInductive
  <1>3. [](part = "report" => ReportInv) /\ [][BackOfficeNext]_backOfficeVars => KeepsOldDays
    BY <1>2, PTL DEF KeepsOldDays
  <1> QED BY <1>3, ReportInvariance, PTL DEF BackOfficeSpec

LEMMA TermInvariance == BackOfficeSpec => [](part = "term" => TermInv)
  <1> DEFINE Inv == part = "term" => TermInv
  <1>1. TermsKnown
    BY BackOfficeAssumption
  <1>2. BackOfficeInit => Inv
    BY <1>1, PartsBegin, TermsInitially
  <1>3. Inv /\ [BackOfficeNext]_backOfficeVars => Inv'
    BY <1>1, PartsGoOn, TermsInductive
  <1> QED BY <1>2, <1>3, PTL DEF BackOfficeSpec

\* What Referrals' calls know needs no calm.
LEMMA GraphInvariance == BackOfficeSpec => [](part = "graph" => GraphInv)
  <1> DEFINE Inv == part = "graph" => GraphInv
  <1>1. GraphAssumption
    BY BackOfficeAssumption DEF GraphAssumption
  <1>2. BackOfficeInit => Inv
    BY <1>1, PartsBegin, GraphInitially
  <1>3. Inv /\ [BackOfficeNext]_backOfficeVars => Inv'
    BY <1>1, PartsGoOn, GraphInductive
  <1> QED BY <1>2, <1>3, PTL DEF BackOfficeSpec

LEMMA SumInvariance == BackOfficeSpec => [](part = "sum" => Sum!TypeOK)
  <1> DEFINE Inv == part = "sum" => Sum!TypeOK
  <1>1. BackOfficeInit => Inv
    BY PartsBegin DEF Sum!Init, Sum!TypeOK
  <1>2. Inv /\ [BackOfficeNext]_backOfficeVars => Inv'
    BY PartsGoOn DEF Sum!TypeOK, Sum!Money, Sum!Histories
  <1> QED BY <1>1, <1>2, PTL DEF BackOfficeSpec

\* Every reachable state of every part is of its types, for any number of users,
\* rows, requests and events: the page holds rows it was sent, no roll-up row is
\* of a day to come, no ancestor is deeper than createEdgeWithAncestry writes,
\* stored Stripe events have a type and a user, and a form has at most the tiers
\* that parseRewardConfig accepts.
THEOREM PartsAreTyped == BackOfficeSpec => []PartsTypeOK
  <1> DEFINE Sound ==
        /\ part = "graph" => GraphInv
        /\ part = "page" => PageInv
        /\ part = "tenancy" => TenancyInv
        /\ part = "book" => BookInv
        /\ part = "fraud" => FraudInv /\ FraudTypesInv
        /\ part = "report" => ReportInv
        /\ part = "stripe" => StripeInv /\ StripeTypesInv
        /\ part = "term" => TermInv
        /\ part = "sum" => Sum!TypeOK
  <1>1. BackOfficeSpec => []Sound
    BY GraphInvariance, PageInvariance, TenancyInvariance, BookInvariance, FraudInvariance,
       ReportInvariance, StripeInvariance, TermInvariance, SumInvariance, PTL
  <1>2. MaxEdges \in Nat /\ PagesListRows
    BY BackOfficeAssumption
  <1>3. Parts /\ Sound => PartsTypeOK
    BY <1>2, GraphTypeParts, PageTypeParts, TypeParts, BookTypeParts, FraudTypeParts,
       ReportTypeParts, StripeTypeParts, TermTypeParts DEF PartsTypeOK, Parts, TenancyInv
  <1>4. BackOfficeSpec => []Parts
    <2>1. BackOfficeInit => Parts
      BY DEF BackOfficeInit, Parts
    <2>2. Parts /\ [BackOfficeNext]_backOfficeVars => Parts'
      BY PartsGoOn DEF Parts
    <2> QED BY <2>1, <2>2, PTL DEF BackOfficeSpec
  <1> QED BY <1>1, <1>3, <1>4, PTL

\* For any terms, amounts and families whose ancestors EffectiveChain finds: terms
\* that the form has saved and shows pay what it shows, each sum rounded down
\* from its digits, because the form numbers its rows by their places and the API
\* refuses what is no number (computeRewards, parseRewardConfig).  For any amount
\* and rate normalizeToCredits gives the nearest number of Credits, and for any
\* history of events the rows applied in order end as its last event says
\* (multiplyMinorByDecimal, getSubscriptionSummariesByExternalUserId).
THEOREM AmountsStayExact == BackOfficeSpec => []AmountsAreExact
  <1>1. (part = "term" => TermInv) => (part = "term" => Term!PaysWhatTheFormShows)
    BY FormPays, BackOfficeAssumption
  <1>2. Sum!TypeOK => Sum!CalculationsAgree
    <2>1. IsFiniteSet(Instants) /\ Instants \subseteq Int
      BY BackOfficeAssumption DEF AmountsKnown
    <2>2. ASSUME input \in Sum!Money PROVE Sum!CalculationsAgree
      <3>1. Sum!CreditsAreNearest(input)
        BY <2>2, CreditsAreNearest, BackOfficeAssumption
      <3>2. input.kind = "money"
        BY <2>2 DEF Sum!Money
      <3> QED BY <3>1, <3>2 DEF Sum!CalculationsAgree
    <2>3. ASSUME input \in Sum!Histories PROVE Sum!CalculationsAgree
      <3>1. input.kind # "money" /\ input.log \in
                [Instants -> {"none", "subscription_started", "subscription_cancelled"}]
        BY <2>3 DEF Sum!Histories
      <3>2. Sum!SummaryIsHistory(input.log)
        BY <2>1, <3>1, RowsAreHistories
      <3> QED BY <3>1, <3>2 DEF Sum!CalculationsAgree
    <2> QED BY <2>2, <2>3 DEF Sum!TypeOK
  <1> QED BY <1>1, <1>2, TermInvariance, SumInvariance, PTL DEF AmountsAreExact

=============================================================================
