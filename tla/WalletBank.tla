----------------------------- MODULE WalletBank -----------------------------
(***************************************************************************)
(* Proofs that the wallet keeps its Credits and is a bank, around whatever *)
(* its handlers do to each other: what is issued, held and spent adds up,  *)
(* a settled hold stays settled, the tables of a payout agree and every    *)
(* statement is one operation of CreditBank or none.                       *)
(*                                                                         *)
(* A step is either of a handler on an undisturbed hold, of which nobody   *)
(* else is at work, so that its locals still fit the rows (CalmInv), or of *)
(* one on a disturbed hold, which touches no other hold and only grants    *)
(* that this hold took from (RowsInv).                                     *)
(***************************************************************************)
EXTENDS WalletCreditsProofs

-----------------------------------------------------------------------------
(* What holds of the undisturbed holds.                                    *)

\* No two handlers work on one undisturbed hold at once.
Apart ==
    \A v, w \in Handlers :
        v # w /\ Busy(v) /\ Busy(w) /\ at[v].hold = at[w].hold => at[v].hold \in disturbed

\* What is disturbed stays so.
Grows == disturbed \subseteq disturbed' /\ disturbed' \subseteq Holds

\* Slot w works on an undisturbed hold, if on any, before and after the step.
Clean(w) ==
    /\ Busy(w) => at[w].hold \notin disturbed'
    /\ at'[w].pc # "idle" => at'[w].hold \notin disturbed'

\* What a slot s knows of the rows of its hold.
SlotOK(s) ==
    s.pc # "idle" =>
        /\ s.hold \in Holds
        /\ s.hold \in Payouts => payout[s.hold] \in {"requested", "approved"}
        /\ s.hold \in Payouts => (s.hold \in ledger <=> s.pc = "sent")
        /\ s.pc = "list" => row[s.hold] = "absent" /\ s.amount \in UNION {1..a : a \in Amounts}
        /\ s.pc \in {"allocate", "drain", "session", "post", "restore"} =>
              row[s.hold] = "reserved"
        /\ s.pc = "allocate" =>
              \A g \in Grants : s.todo[g] > 0 => alloc[s.hold][g] = 0
        /\ s.pc = "drain" =>
              \A g \in Grants : s.todo[g] > 0 =>
                  alloc[s.hold][g] = IF Oldest(s.todo, g) THEN s.todo[g] ELSE 0
        /\ s.pc = "post" => s.hold \in Redemptions
        /\ s.pc = "restore" => (s.job = "release" <=> s.hold \in Redemptions)
        /\ s.pc \in {"approve", "lookup"} =>
              s.hold \in Payouts /\ row[s.hold] \in {"absent", "reserved"}
        /\ s.pc = "close" => s.hold \in Payouts /\ row[s.hold] = "released"
        /\ s.pc \in {"entry", "sent"} => s.hold \in Payouts /\ row[s.hold] = "sent"

\* What the tables tell of a payout: the whole story when nobody works on it.
PayoutOK(p) ==
    /\ payout[p] = "absent" => row[p] = "absent" /\ p \notin ledger
    /\ payout[p] = "sent" => row[p] = "sent" /\ p \in ledger
    /\ payout[p] \in {"failed", "cancelled"} => row[p] = "released" /\ p \notin ledger
    /\ payout[p] \in {"requested", "approved"} =>
          \/ row[p] \in {"absent", "reserved"} /\ p \notin ledger
          \/ \E w \in Handlers : Busy(w) /\ at[w].hold = p

\* What the tables and the slots tell of the undisturbed holds.
CalmInv ==
    /\ \A h \in Holds \ disturbed : row[h] = "absent" => alloc[h] = Nothing
    /\ \A w \in Handlers : at[w].hold \notin disturbed => SlotOK(at[w])
    /\ \A p \in Payouts \ disturbed : PayoutOK(p)

LEMMA SlotKnown ==
    ASSUME CalmInv, Grows, NEW w \in Handlers, Clean(w)
    PROVE  SlotOK(at[w])
  BY DEF CalmInv, Grows, Clean, SlotOK, Busy

LEMMA MovesApart ==
    ASSUME TypeInv, Apart, Apart', Grows, NEW w \in Handlers, Clean(w), NEW s, NEW h,
           Moves(w, s, h)
    PROVE  /\ at'[w] = s
           /\ \A v \in Handlers \ {w} : at'[v] = at[v] /\ (Busy(v) => at[v].hold # h)
           /\ h \notin disturbed /\ h \notin disturbed'
  <1>1. at \in [Handlers -> HandlerState]
    BY DEF TypeInv, TypeOK
  <1>2. at'[w] = s /\ \A v \in Handlers \ {w} : at'[v] = at[v]
    BY <1>1 DEF Moves
  <1>h. h \notin disturbed /\ h \notin disturbed'
    BY <1>2 DEF Moves, Clean, Grows
  <1>3. ASSUME NEW v \in Handlers \ {w}, Busy(v) PROVE at[v].hold # h
    <2>1. CASE Busy(w)
      BY <1>3, <1>h, <2>1 DEF Apart, Moves
    <2>2. CASE s.pc # "idle"
      BY <1>2, <1>3, <1>h, <2>2 DEF Apart, Moves, Busy
    <2> QED BY <2>1, <2>2 DEF Moves
  <1> QED BY <1>2, <1>3, <1>h

LEMMA CalmMove ==
    ASSUME TypeInv, CalmInv, Apart, Apart', Grows, NEW w \in Handlers, Clean(w), NEW s,
           NEW h \in Holds, Moves(w, s, h), row'[h] = "absent" => alloc'[h] = Nothing,
           SlotOK(s)', h \in Payouts => PayoutOK(h)'
    PROVE  CalmInv'
  <1>a. /\ at'[w] = s
        /\ \A v \in Handlers \ {w} : at'[v] = at[v] /\ (Busy(v) => at[v].hold # h)
    BY MovesApart
  <1>d. disturbed \subseteq disturbed'
    BY DEF Grows
  <1>1. \A x \in Holds \ disturbed' : row'[x] = "absent" => alloc'[x] = Nothing
    BY <1>d DEF Moves, CalmInv
  <1>2. ASSUME NEW v \in Handlers, at'[v].hold \notin disturbed' PROVE SlotOK(at[v])'
    <2>1. CASE v = w
      <3>1. at'[v] = s
        BY <1>a, <2>1
      <3> QED BY <3>1 DEF SlotOK
    <2>2. CASE v # w /\ ~Busy(v)
      BY <1>a, <2>2 DEF SlotOK, Busy
    <2>3. CASE v # w /\ Busy(v)
      <3> PICK t : t = at[v]
        OBVIOUS
      <3>1. at'[v] = t /\ t.hold # h /\ SlotOK(t) /\ t.pc # "idle"
        BY <1>a, <1>d, <1>2, <2>3 DEF CalmInv, Busy
      <3>2. t.hold \in Holds
        BY <3>1 DEF SlotOK
      <3>3. row'[t.hold] = row[t.hold] /\ alloc'[t.hold] = alloc[t.hold]
        BY <3>1, <3>2 DEF Moves
      <3>4. t.hold \in Payouts =>
              payout'[t.hold] = payout[t.hold] /\ (t.hold \in ledger' <=> t.hold \in ledger)
        BY <3>1 DEF Moves
      <3> QED BY <3>1, <3>3, <3>4 DEF SlotOK
    <2> QED BY <2>1, <2>2, <2>3
  <1>3. ASSUME NEW p \in Payouts, p \notin disturbed' PROVE PayoutOK(p)'
    <2>1. CASE p = h
      BY <2>1
    <2>2. CASE p # h
      <3>1. /\ row'[p] = row[p] /\ payout'[p] = payout[p]
            /\ p \in ledger' <=> p \in ledger
        BY <2>2, ConstantTypes DEF Moves
      <3>2. ASSUME NEW v \in Handlers, Busy(v), at[v].hold = p
            PROVE  Busy(v)' /\ at'[v].hold = p
        BY <1>a, <2>2, <3>2 DEF Moves, Busy
      <3>3. PayoutOK(p)
        BY <1>d, <1>3 DEF CalmInv
      <3> QED BY <3>1, <3>2, <3>3 DEF PayoutOK
    <2> QED BY <2>1, <2>2
  <1> QED BY <1>1, <1>2, <1>3 DEF CalmInv

\* What slot w has drained too late or restored too early of grant g.
Flight(w, g) == Undrained(w, g) + Restored(w, g)

Finite == IsFiniteSet(Holds) /\ IsFiniteSet(Handlers)

LEMMA GrantsFinite == IsFiniteSet(Grants)
  <1>1. 1 \in Int /\ GrantLimit \in Int
    BY WalletAssumption
  <1> QED BY <1>1, FS_Interval DEF Grants

HeldTyped ==
    /\ \A h \in Holds, g \in Grants : Held(h, g) \in Int
    /\ \A w \in Handlers, g \in Grants : Flight(w, g) \in Int

LEMMA HeldTypes == TypeInv /\ RowsInv => HeldTyped
  <1> SUFFICES ASSUME TypeInv, RowsInv PROVE HeldTyped
    OBVIOUS
  <1>1. \A h \in Holds, g \in Grants : Held(h, g) \in Int
    BY DEF TypeInv, TypeOK, Held
  <1>2. ASSUME NEW w \in Handlers, NEW g \in Grants PROVE Flight(w, g) \in Int
    <2>1. at[w].todo[g] \in Nat
      BY DEF TypeInv, TypeOK, HandlerState
    <2>2. at[w].pc = "restore" => alloc[at[w].hold][g] \in Nat
      BY DEF TypeInv, TypeOK, RowsInv, Busy
    <2> QED BY <2>1, <2>2 DEF Flight, Undrained, Restored
  <1> QED BY <1>1, <1>2 DEF HeldTyped

LEMMA HeldTypesNext == TypeInv' /\ RowsInv' => HeldTyped'
  BY HeldTypes, PTL

\* A move conserves Credits if what w and h hold of every grant does.
LEMMA ConservedMove ==
    ASSUME Finite, TypeInv, TypeInv', RowsInv, RowsInv', CalmInv, CalmInv',
           Apart, Apart', Grows, NEW w \in Handlers, Clean(w), NEW s, NEW h \in Holds, Moves(w, s, h),
           CreditsConserved, issued' = issued,
           \A g \in Grants :
              remaining'[g] + Held(h, g)' - Flight(w, g)' =
                 remaining[g] + Held(h, g) - Flight(w, g)
    PROVE  CreditsConserved'
  <1> SUFFICES ASSUME NEW g \in Grants, Sound(g)'
               PROVE  issued'[g] =
                        remaining'[g] + SumFunction([x \in Holds |-> Held(x, g)])'
                        - SumFunction([v \in Handlers |-> Flight(v, g)])'
    BY DEF CreditsConserved, Flight
  <1>a. /\ at'[w] = s
        /\ \A v \in Handlers \ {w} : at'[v] = at[v] /\ (Busy(v) => at[v].hold # h)
        /\ h \notin disturbed
    BY MovesApart
  <1>s. Sound(g)
    BY <1>a DEF Sound, Grows, Moves
  <1> PICK H, H1, F, F1 :
        /\ H = [x \in Holds |-> Held(x, g)] /\ H1 = [x \in Holds |-> Held(x, g)']
        /\ F = [v \in Handlers |-> Flight(v, g)] /\ F1 = [v \in Handlers |-> Flight(v, g)']
    OBVIOUS
  <1>1. H \in [Holds -> Int] /\ H1 \in [Holds -> Int]
    BY HeldTypes, HeldTypesNext DEF HeldTyped
  <1>2. F \in [Handlers -> Int] /\ F1 \in [Handlers -> Int]
    BY HeldTypes, HeldTypesNext DEF HeldTyped
  <1>3. \A x \in Holds \ {h} : H1[x] = H[x]
    BY DEF Moves, Held
  <1>4. ASSUME NEW v \in Handlers \ {w} PROVE F1[v] = F[v]
    <2> PICK t : t = at[v]
      OBVIOUS
    <2>1. at'[v] = t /\ (t.pc # "idle" => t.hold # h)
      BY <1>a DEF Busy
    <2>2. t.pc = "restore" => t.hold \in Holds
      BY DEF RowsInv, Busy
    <2>3. t.pc = "restore" => alloc'[t.hold] = alloc[t.hold]
      BY <2>1, <2>2 DEF Moves
    <2> QED BY <2>1, <2>3 DEF Flight, Undrained, Restored, IsNext
  <1>5. /\ SumFunction(H) \in Int /\ SumFunction(H1) \in Int
        /\ SumFunction(H1) = SumFunction(H) + (H1[h] - H[h])
    BY <1>1, <1>3, SumChanges DEF Finite
  <1>6. /\ SumFunction(F) \in Int /\ SumFunction(F1) \in Int
        /\ SumFunction(F1) = SumFunction(F) + (F1[w] - F[w])
    BY <1>2, <1>4, SumChanges DEF Finite
  <1>7. issued[g] = remaining[g] + SumFunction(H) - SumFunction(F)
    BY <1>s DEF CreditsConserved, Flight
  <1>8. remaining'[g] + H1[h] - F1[w] = remaining[g] + H[h] - F[w]
    OBVIOUS
  <1>9. /\ remaining[g] \in Int /\ remaining'[g] \in Int
        /\ H1[h] \in Int /\ H[h] \in Int /\ F1[w] \in Int /\ F[w] \in Int
    BY <1>1, <1>2 DEF TypeInv, TypeOK
  <1>10. issued'[g] = remaining'[g] + SumFunction(H1) - SumFunction(F1)
    BY <1>5, <1>6, <1>7, <1>8, <1>9
  <1> QED BY <1>10

-----------------------------------------------------------------------------
(* The bank.                                                               *)

FloatTyped == \A w \in Handlers : Float(w) \in Int

LEMMA FloatTypes == TypeInv /\ RowsInv => FloatTyped
  <1> SUFFICES ASSUME TypeInv, RowsInv, NEW w \in Handlers PROVE Float(w) \in Int
    BY DEF FloatTyped
  <1>1. at[w].todo \in [Grants -> Nat]
    BY DEF TypeInv, TypeOK, HandlerState
  <1>2. SumFunction(at[w].todo) \in Int
    BY <1>1, GrantsFinite, SumOfFunction, SumIsInteger
  <1>3. at[w].pc = "restore" => alloc[at[w].hold] \in [Grants -> Nat]
    BY DEF TypeInv, TypeOK, RowsInv, Busy
  <1>4. at[w].pc = "restore" => SumFunction(alloc[at[w].hold]) \in Int
    BY <1>3, GrantsFinite, SumOfFunction, SumIsInteger
  <1> QED BY <1>2, <1>4 DEF Float, ToDrain, RestoredSoFar

\* A hold has the Credits of its allocation rows, and its reservation's to come.
CreditsKnown ==
    \A h \in Holds \ disturbed, g \in Grants :
        /\ \A w \in Handlers : Pending(w) /\ at[w].hold = h =>
              HoldCredits(h, g) =
                 IF at[w].todo[g] > 0 THEN at[w].todo[g] ELSE alloc[h][g]
        /\ (\A w \in Handlers : Pending(w) => at[w].hold # h)
              => HoldCredits(h, g) = alloc[h][g]

LEMMA CreditsOf == TypeInv /\ CalmInv /\ Apart => CreditsKnown
  <1> SUFFICES ASSUME TypeInv, CalmInv, Apart, NEW h \in Holds, h \notin disturbed, NEW g \in Grants
               PROVE  /\ \A w \in Handlers : Pending(w) /\ at[w].hold = h =>
                             HoldCredits(h, g) =
                                IF at[w].todo[g] > 0 THEN at[w].todo[g] ELSE alloc[h][g]
                      /\ (\A w \in Handlers : Pending(w) => at[w].hold # h)
                             => HoldCredits(h, g) = alloc[h][g]
    BY DEF CreditsKnown
  <1>1. alloc[h][g] \in Nat
    BY DEF TypeInv, TypeOK
  <1>2. ASSUME NEW w \in Handlers, Pending(w), at[w].hold = h
        PROVE  HoldCredits(h, g) =
                  IF at[w].todo[g] > 0 THEN at[w].todo[g] ELSE alloc[h][g]
    <2> PICK t : t = at[w].todo[g]
      OBVIOUS
    <2>1. t \in Nat
      BY DEF TypeInv, TypeOK, HandlerState
    <2>2. Planned(h, g) = {t}
      BY <1>2 DEF Planned, Apart, Pending, Busy
    <2>3. t > 0 => alloc[h][g] \in {0, t}
      BY <1>2 DEF Pending, CalmInv, SlotOK
    <2>4. {alloc[h][g]} \cup Planned(h, g) = {alloc[h][g], t}
      BY <2>2
    <2> PICK a, m : a = alloc[h][g] /\ m = IF t > 0 THEN t ELSE a
      OBVIOUS
    <2>5. m \in {a, t} /\ \A y \in {a, t} : m >= y
      BY <1>1, <2>1, <2>3
    <2>6. \A x \in {a, t} : (\A y \in {a, t} : x >= y) => x = m
      BY <1>1, <2>1, <2>5
    <2>7. Max({a, t}) = m
      BY <2>5, <2>6 DEF Max
    <2> QED BY <2>4, <2>7 DEF HoldCredits
  <1>3. ASSUME \A w \in Handlers : Pending(w) => at[w].hold # h
        PROVE  HoldCredits(h, g) = alloc[h][g]
    <2> PICK a : a = alloc[h][g]
      OBVIOUS
    <2>1. {alloc[h][g]} \cup Planned(h, g) = {a}
      BY <1>3 DEF Planned
    <2>2. Max({a}) = a
      BY <1>1 DEF Max
    <2> QED BY <2>1, <2>2 DEF HoldCredits
  <1> QED BY <1>2, <1>3

LEMMA CreditsOfNext == TypeInv' /\ CalmInv' /\ Apart' => CreditsKnown'
  BY CreditsOf, PTL

LEMMA FloatTypesNext == TypeInv' /\ RowsInv' => FloatTyped'
  BY FloatTypes, PTL

\* A move leaves what the bank knows of every other hold, and changes what is
\* free by what the grants and the slot change.
LEMMA BankMove ==
    ASSUME Finite, TypeInv, TypeInv', RowsInv, RowsInv', CalmInv, CalmInv',
           Apart, Apart', Grows, NEW w \in Handlers, Clean(w), NEW s, NEW h \in Holds, Moves(w, s, h)
    PROVE  /\ \A x \in Holds \ {h} : Stage(x)' = Stage(x) /\ HoldAmount(x)' = HoldAmount(x)
           /\ FreeBalance \in Int
           /\ FreeBalance' = FreeBalance + (SumFunction(remaining') - SumFunction(remaining))
                               - (Float(w)' - Float(w))
  <1>a. /\ at'[w] = s
        /\ \A v \in Handlers \ {w} : at'[v] = at[v] /\ (Busy(v) => at[v].hold # h)
    BY MovesApart
  <1>1. ASSUME NEW x \in Holds \ {h}
        PROVE  Stage(x)' = Stage(x) /\ HoldAmount(x)' = HoldAmount(x)
    <2>1. Stage(x)' = Stage(x)
      BY DEF Moves, Stage
    <2>2. {v \in Handlers : Pending(v) /\ at[v].hold = x}'
             = {v \in Handlers : Pending(v) /\ at[v].hold = x} \ {w}
      BY <1>a DEF Moves, Pending
    <2>3. w \notin {v \in Handlers : Pending(v) /\ at[v].hold = x}
      BY DEF Moves, Pending, Busy
    <2>4. \A g \in Grants : Planned(x, g)' = Planned(x, g)
      BY <1>a, <2>2, <2>3 DEF Planned
    <2>5. \A g \in Grants : HoldCredits(x, g)' = HoldCredits(x, g)
      BY <2>4 DEF HoldCredits, Moves
    <2> QED BY <2>1, <2>5 DEF HoldAmount
  <1> PICK F, F1 :
        /\ F = [v \in Handlers |-> Float(v)]
        /\ F1 = [v \in Handlers |-> Float(v)']
    OBVIOUS
  <1>2. F \in [Handlers -> Int] /\ F1 \in [Handlers -> Int]
    BY FloatTypes, FloatTypesNext DEF FloatTyped
  <1>4. ASSUME NEW v \in Handlers \ {w} PROVE F1[v] = F[v]
    <2> PICK t : t = at[v]
      OBVIOUS
    <2>1. at'[v] = t /\ (t.pc # "idle" => t.hold # h)
      BY <1>a DEF Busy
    <2>2. t.pc = "restore" => t.hold \in Holds
      BY DEF RowsInv, Busy
    <2>3. t.pc = "restore" => alloc'[t.hold] = alloc[t.hold]
      BY <2>1, <2>2 DEF Moves
    <2> QED BY <2>1, <2>3 DEF Float, ToDrain, RestoredSoFar, Pending
  <1>6. /\ SumFunction(F) \in Int /\ SumFunction(F1) \in Int
        /\ SumFunction(F1) = SumFunction(F) + (F1[w] - F[w])
    BY <1>2, <1>4, SumChanges DEF Finite
  <1>7. SumFunction(remaining) \in Int /\ SumFunction(remaining') \in Int
    BY GrantsFinite, SumOfFunction, SumIsInteger DEF TypeInv, TypeOK
  <1>8. F1[w] \in Int /\ F[w] \in Int
    BY <1>2
  <1>9. /\ FreeBalance = SumFunction(remaining) - SumFunction(F)
        /\ FreeBalance' = SumFunction(remaining') - SumFunction(F1)
    BY DEF FreeBalance
  <1> QED BY <1>1, <1>6, <1>7, <1>8, <1>9

\* The bank does nothing, or one of its operations.
BankStep == [Bank!Next]_(Bank!bankVars)

LEMMA BankStutters ==
    ASSUME issued' = issued, FreeBalance' = FreeBalance,
           \A x \in Holds : Stage(x)' = Stage(x) /\ HoldAmount(x)' = HoldAmount(x)
    PROVE  BankStep
  BY DEF BankStep, Bank!bankVars

LEMMA BankSpends ==
    ASSUME issued' = issued, FreeBalance' = FreeBalance, NEW h \in Holds,
           Stage(h) = "held", Stage(h)' = "spent",
           \A x \in Holds : HoldAmount(x)' = HoldAmount(x),
           \A x \in Holds \ {h} : Stage(x)' = Stage(x)
    PROVE  BankStep
  BY DEF BankStep, Bank!bankVars, Bank!Next, Bank!Spend

LEMMA BankSetsAside ==
    ASSUME issued' = issued, NEW h \in Holds, NEW a \in UNION {1..b : b \in Amounts},
           Stage(h) = "free", Stage(h)' = "held", HoldAmount(h)' = a,
           FreeBalance' = FreeBalance - a,
           \A x \in Holds \ {h} : Stage(x)' = Stage(x) /\ HoldAmount(x)' = HoldAmount(x)
    PROVE  BankStep
  BY DEF BankStep, Bank!bankVars, Bank!Next, Bank!SetAside

LEMMA BankGivesBack ==
    ASSUME issued' = issued, NEW h \in Holds,
           Stage(h) = "held", Stage(h)' = "returned",
           FreeBalance' = FreeBalance + HoldAmount(h),
           \A x \in Holds : HoldAmount(x)' = HoldAmount(x),
           \A x \in Holds \ {h} : Stage(x)' = Stage(x)
    PROVE  BankStep
  BY DEF BankStep, Bank!bankVars, Bank!Next, Bank!GiveBack

-----------------------------------------------------------------------------
(* The steps, each for the invariant, the conservation and the bank.       *)

\* A move that touches no grant and no allocation, and is neither in the middle
\* of a reservation nor of a release.
Quiet(w, s, h) ==
    /\ Moves(w, s, h)
    /\ UNCHANGED <<grantVars, alloc>>
    /\ at[w].pc \notin {"allocate", "drain", "restore"}
    /\ s.pc \notin {"allocate", "drain"}
    /\ s.todo \in {Nothing, at[w].todo, alloc[h]}
    /\ s.pc = "restore" => s.todo = alloc[h]
    /\ row[h] \in {"reserved", "posted", "sent"} <=> row'[h] \in {"reserved", "posted", "sent"}
    /\ row'[h] = "absent" => row[h] = "absent"

LEMMA QuietMove ==
    ASSUME Finite, TypeInv, TypeInv', RowsInv, RowsInv', CalmInv, CreditsConserved,
           Apart, Apart', Grows, NEW w \in Handlers, Clean(w), NEW s, NEW h \in Holds, Quiet(w, s, h),
           SlotOK(s)', h \in Payouts => PayoutOK(h)'
    PROVE  /\ CalmInv' /\ CreditsConserved' /\ FreeBalance' = FreeBalance
           /\ \A x \in Holds : HoldAmount(x)' = HoldAmount(x)
           /\ \A x \in Holds \ {h} : Stage(x)' = Stage(x)
  <1> USE DEF Quiet
  <1>a. /\ at'[w] = s
        /\ \A v \in Handlers \ {w} : at'[v] = at[v] /\ (Busy(v) => at[v].hold # h)
    BY MovesApart
  <1>t. alloc[h] \in [Grants -> Nat]
    BY DEF TypeInv, TypeOK
  <1>2. row'[h] = "absent" => alloc'[h] = Nothing
    BY MovesApart DEF CalmInv
  <1>3. CalmInv'
    BY <1>2, CalmMove
  <1>4. \A g \in Grants : Flight(w, g) = 0 /\ Flight(w, g)' = 0
    <2> SUFFICES ASSUME NEW g \in Grants PROVE Flight(w, g) = 0 /\ Flight(w, g)' = 0
      OBVIOUS
    <2>1. Flight(w, g) = 0
      BY DEF Flight, Undrained, Restored
    <2>2. s.pc = "restore" => alloc'[h][g] - s.todo[g] = 0
      BY <1>t
    <2>3. s.pc = "restore" => s.hold = h
      BY DEF Moves
    <2> QED BY <1>a, <2>1, <2>2, <2>3 DEF Flight, Undrained, Restored
  <1>5. \A g \in Grants : Held(h, g)' = Held(h, g)
    BY DEF Held
  <1>6. CreditsConserved'
    BY <1>3, <1>4, <1>5, ConservedMove DEF grantVars
  <1>7. Float(w) = 0 /\ Float(w)' = 0
    <2>1. Float(w) = 0
      BY DEF Float, ToDrain, RestoredSoFar, Pending
    <2>2. SumFunction(alloc[h]) \in Int
      BY <1>t, GrantsFinite, SumOfFunction, SumIsInteger
    <2>3. s.pc = "restore" => s.hold = h /\ alloc' = alloc /\ s.todo = alloc[h]
      BY DEF Moves
    <2>4. s.pc = "restore" => SumFunction(alloc'[s.hold]) - SumFunction(s.todo) = 0
      BY <2>2, <2>3
    <2> QED BY <1>a, <2>1, <2>4 DEF Float, ToDrain, RestoredSoFar, Pending
  <1>8. SumFunction(remaining) \in Int
    BY GrantsFinite, SumOfFunction, SumIsInteger DEF TypeInv, TypeOK
  <1>9. FreeBalance' = FreeBalance
    BY <1>3, <1>7, <1>8, BankMove DEF grantVars
  <1>10. \A g \in Grants : HoldCredits(h, g)' = HoldCredits(h, g)
    <2> SUFFICES ASSUME NEW g \in Grants
                 PROVE  HoldCredits(h, g)' = HoldCredits(h, g)
      OBVIOUS
    <2>1. Planned(h, g) = {}
      BY <1>a DEF Planned, Pending, Busy
    <2>2. Planned(h, g)' = {}
      BY <1>a DEF Planned, Pending, Busy
    <2> QED BY <2>1, <2>2 DEF HoldCredits
  <1>11. HoldAmount(h)' = HoldAmount(h)
    BY <1>10 DEF HoldAmount
  <1> QED BY <1>3, <1>6, <1>9, <1>11, BankMove

\* What every step gives.
Calmly == CalmInv' /\ CreditsConserved' /\ BankStep

LEMMA QuietStutter ==
    ASSUME Finite, TypeInv, TypeInv', RowsInv, RowsInv', CalmInv, CreditsConserved,
           Apart, Apart', Grows, NEW w \in Handlers, Clean(w), NEW s, NEW h \in Holds, Quiet(w, s, h),
           SlotOK(s)', h \in Payouts => PayoutOK(h)', row'[h] = row[h]
    PROVE  Calmly
  <1>1. Stage(h)' = Stage(h)
    BY DEF Stage
  <1>2. issued' = issued
    BY DEF Quiet, grantVars
  <1> QED BY <1>1, <1>2, QuietMove, BankStutters DEF Calmly

\* A request that starts in a slot, at work on h, and writes nothing but the
\* status of its payout.
LEMMA CalmStart ==
    ASSUME Finite, TypeInv, TypeInv', RowsInv, RowsInv', CalmInv, CreditsConserved,
           Apart, Apart', Grows, NEW w \in Handlers, Clean(w), NEW h \in Holds, NEW pc \in Labels \ {"idle", "allocate", "drain"},
           NEW job, NEW amount, NEW todo \in {Nothing, alloc[h]},
           Start(w, pc, job, h, amount, todo), pc = "restore" => todo = alloc[h],
           UNCHANGED <<grantVars, holdVars, ledger>>,
           \A p \in Payouts \ {h} : payout'[p] = payout[p],
           SlotOK([pc |-> pc, job |-> job, hold |-> h, amount |-> amount, todo |-> todo])',
           h \in Payouts => PayoutOK(h)'
    PROVE  Calmly
  <1> PICK s : s = [pc |-> pc, job |-> job, hold |-> h, amount |-> amount, todo |-> todo]
    OBVIOUS
  <1>1. /\ s.pc = pc /\ s.hold = h /\ s.todo = todo
        /\ at' = [at EXCEPT ![w] = s] /\ at[w].pc = "idle"
    BY DEF Start
  <1>2. Quiet(w, s, h)
    BY <1>1 DEF Quiet, Moves, Busy, holdVars
  <1> QED BY <1>2, QuietStutter DEF holdVars

LEMMA CalmReserving ==
    ASSUME Finite, TypeInv, TypeInv', RowsInv, RowsInv', CalmInv, CreditsConserved,
           Apart, Apart', Grows, NEW w \in Reservers, Clean(w), Reserving(w)
    PROVE  Calmly
  <1> w \in Handlers BY DEF Handlers
  <1> USE ConstantTypes
  <1>1. CASE PrepareCheckout(w)
    <2> PICK h \in Redemptions, want \in Amounts : \E applied \in 1..want :
            /\ Unused(h)
            /\ Start(w, "list", "checkout", h, applied, Nothing)
            /\ UNCHANGED <<grantVars, holdVars, payoutVars>>
      BY <1>1 DEF PrepareCheckout
    <2> PICK applied \in 1..want :
            /\ Unused(h)
            /\ Start(w, "list", "checkout", h, applied, Nothing)
            /\ UNCHANGED <<grantVars, holdVars, payoutVars>>
      OBVIOUS
    <2> PICK s : s = [pc |-> "list", job |-> "checkout", hold |-> h,
                      amount |-> applied, todo |-> Nothing]
      OBVIOUS
    <2>1. h \in Holds /\ h \notin Payouts
      BY WalletAssumption
    <2>2. s.pc = "list" /\ s.hold = h /\ s.amount = applied
      OBVIOUS
    <2>3. row'[h] = "absent"
      BY DEF Unused, holdVars
    <2>4. SlotOK(s)'
      BY <2>1, <2>2, <2>3 DEF SlotOK
    <2>5. UNCHANGED <<grantVars, holdVars, ledger>> /\ payout' = payout
      BY DEF payoutVars
    <2>6. "list" \in Labels \ {"idle", "allocate", "drain"}
      BY DEF Labels
    <2> QED BY <2>1, <2>4, <2>5, <2>6, CalmStart
  <1>2. CASE RequestPayout(w)
    <2> PICK p \in Payouts, amount \in Amounts :
            /\ payout[p] = "absent"
            /\ payout' = [payout EXCEPT ![p] = "requested"]
            /\ Start(w, "list", "payout", p, amount, Nothing)
            /\ UNCHANGED <<grantVars, holdVars, ledger>>
      BY <1>2 DEF RequestPayout
    <2> PICK s : s = [pc |-> "list", job |-> "payout", hold |-> p,
                      amount |-> amount, todo |-> Nothing]
      OBVIOUS
    <2>1. p \in Holds
      OBVIOUS
    <2>2. s.pc = "list" /\ s.hold = p /\ s.amount = amount
      OBVIOUS
    <2>8. p \notin disturbed
      <3>1. at'[w] = s
        BY DEF Start, TypeInv, TypeOK
      <3> QED BY <2>2, <3>1 DEF Clean, Grows
    <2>3. row'[p] = "absent" /\ p \notin ledger'
      BY <2>8 DEF CalmInv, PayoutOK, holdVars
    <2>4. payout'[p] = "requested" /\ \A q \in Payouts \ {p} : payout'[q] = payout[q]
      BY DEF TypeInv, TypeOK
    <2>5. amount \in UNION {1..a : a \in Amounts}
      <3>1. amount \in 1..amount
        BY WalletAssumption
      <3> QED BY <3>1
    <2>6. SlotOK(s)'
      BY <2>1, <2>2, <2>3, <2>4, <2>5 DEF SlotOK
    <2>7. PayoutOK(p)'
      BY <2>3, <2>4 DEF PayoutOK
    <2> QED BY <2>1, <2>4, <2>6, <2>7, CalmStart DEF Labels
  <1> QED BY <1>1, <1>2 DEF Reserving

\* What PayoutOK says of a payout survives a step that changes no table.
LEMMA PayoutKept ==
    ASSUME CalmInv, NEW p \in Payouts \ disturbed, UNCHANGED <<row, payout, ledger>>,
           \E v \in Handlers : Busy(v)' /\ at'[v].hold = p
    PROVE  PayoutOK(p)'
  BY DEF CalmInv, PayoutOK

LEMMA CalmFinishing ==
    ASSUME Finite, TypeInv, TypeInv', RowsInv, RowsInv', CalmInv, CreditsConserved,
           Apart, Apart', Grows, NEW w \in Finishers, Clean(w), Finishing(w)
    PROVE  Calmly
  <1> w \in Handlers BY DEF Handlers
  <1> USE ConstantTypes
  <1>s. ASSUME NEW h \in Holds, NEW pc, pc # "idle", NEW job, NEW todo, Start(w, pc, job, h, 0, todo)
        PROVE  Busy(w)' /\ at'[w].hold = h
    BY <1>s DEF Start, Busy, TypeInv, TypeOK
  <1>1. ASSUME NEW h \in Redemptions, MarkPosted(w, h)
        PROVE  Calmly
    <2> PICK s : s = [pc |-> "post", job |-> "post", hold |-> h,
                      amount |-> 0, todo |-> Nothing]
      OBVIOUS
    <2>1. h \in Holds /\ h \notin Payouts
      BY WalletAssumption
    <2>2. s.pc = "post" /\ s.hold = h
      OBVIOUS
    <2>3. row'[h] = "reserved"
      BY <1>1 DEF MarkPosted, holdVars
    <2>4. SlotOK(s)'
      BY <2>1, <2>2, <2>3 DEF SlotOK
    <2> QED BY <1>1, <2>1, <2>4, CalmStart DEF MarkPosted, Labels, payoutVars
  <1>2. ASSUME NEW h \in Redemptions, ReleaseRedemption(w, h)
        PROVE  Calmly
    <2> PICK s : s = [pc |-> "restore", job |-> "release", hold |-> h,
                      amount |-> 0, todo |-> alloc[h]]
      OBVIOUS
    <2>1. h \in Holds /\ h \notin Payouts
      BY WalletAssumption
    <2>2. s.pc = "restore" /\ s.hold = h /\ s.job = "release"
      OBVIOUS
    <2>3. row'[h] = "reserved"
      BY <1>2 DEF ReleaseRedemption, holdVars
    <2>4. SlotOK(s)'
      BY <2>1, <2>2, <2>3 DEF SlotOK
    <2> QED BY <1>2, <2>1, <2>4, CalmStart DEF ReleaseRedemption, Labels, payoutVars
  <1>3. ASSUME NEW p \in Payouts, NEW allowed, NEW pc \in {"approve", "lookup"}, NEW job,
               allowed \subseteq {"requested", "approved"}, ReadPayout(w, p, allowed, pc, job)
        PROVE  Calmly
    <2> PICK s : s = [pc |-> pc, job |-> job, hold |-> p, amount |-> 0, todo |-> Nothing]
      OBVIOUS
    <2>1. /\ p \in Holds /\ payout[p] \in {"requested", "approved"}
          /\ Start(w, pc, job, p, 0, Nothing)
          /\ UNCHANGED <<grantVars, holdVars, payoutVars>>
      BY <1>3 DEF ReadPayout
    <2>2. s.pc = pc /\ s.hold = p
      OBVIOUS
    <2>3. Busy(w)' /\ at'[w].hold = p
      BY <1>s, <2>1
    <2>4. ~Busy(w)
      BY <2>1 DEF Start, Busy
    <2>n. p \notin disturbed /\ p \notin disturbed'
      BY <2>3 DEF Clean, Grows, Busy
    <2>5. \A v \in Handlers : Busy(v) => at[v].hold # p
      <3>1. \A v \in Handlers \ {w} : at'[v] = at[v]
        BY <2>1 DEF Start, TypeInv, TypeOK
      <3> QED BY <2>3, <2>4, <2>n, <3>1 DEF Apart, Busy
    <2>6. row[p] \in {"absent", "reserved"} /\ p \notin ledger
      BY <2>1, <2>5, <2>n DEF CalmInv, PayoutOK
    <2>7. SlotOK(s)'
      BY <2>1, <2>2, <2>6 DEF SlotOK, holdVars, payoutVars
    <2>8. PayoutOK(p)'
      BY <2>1, <2>3, <2>n, PayoutKept DEF holdVars, payoutVars
    <2>9. pc \in Labels \ {"idle", "allocate", "drain"} /\ pc # "restore"
      BY DEF Labels
    <2> QED BY <2>1, <2>7, <2>8, <2>9, CalmStart DEF payoutVars
  <1>4. ASSUME NEW p \in Payouts,
               \/ ApprovePayout(w, p) \/ MarkSent(w, p)
               \/ FailPayout(w, p) \/ CancelPayout(w, p)
        PROVE  Calmly
    BY <1>3, <1>4 DEF ApprovePayout, MarkSent, FailPayout, CancelPayout
  <1> QED
    BY <1>1, <1>2, <1>4 DEF Finishing, ExpiredWebhook, ReleaseCheckoutReservation

LEMMA CalmReturn ==
    ASSUME Finite, TypeInv, TypeInv', RowsInv, RowsInv', CalmInv, CreditsConserved,
           Apart, Apart', Grows, NEW w \in Handlers, Clean(w), NEW h, at[w].hold = h, Return(w),
           at[w].pc \notin {"idle", "allocate", "drain", "restore"},
           UNCHANGED <<grantVars, holdVars, ledger>>,
           \A p \in Payouts \ {h} : payout'[p] = payout[p],
           h \in Payouts => PayoutOK(h)'
    PROVE  Calmly
  <1> PICK s : s = Idle
    OBVIOUS
  <1>1. s.pc = "idle" /\ s.todo = Nothing /\ at' = [at EXCEPT ![w] = s]
    BY DEF Idle, Return
  <1>2. h \in Holds
    BY DEF RowsInv, Busy
  <1>3. SlotOK(s)'
    BY <1>1 DEF SlotOK
  <1>4. Quiet(w, s, h)
    BY <1>1 DEF Quiet, Moves, Busy, holdVars
  <1> QED BY <1>2, <1>3, <1>4, QuietStutter DEF holdVars

\* Only a slot's own handler writes "allocate", "drain" or "restore" steps; all
\* the others leave the grants and the allocations alone.
LEMMA CalmQuietly ==
    ASSUME Finite, TypeInv, TypeInv', RowsInv, RowsInv', CalmInv, CreditsConserved,
           Apart, Apart', Grows, NEW w \in Handlers, Clean(w),
           \/ InsufficientGrants(w) \/ OpenSession(w) \/ SessionRejected(w)
           \/ FinishPost(w) \/ FinishApprove(w) \/ ReservationMissing(w)
           \/ ReleaseReservation(w) \/ ClosePayout(w) \/ SendReservation(w)
           \/ PostSentEntry(w) \/ FinishSend(w)
    PROVE  Calmly
  <1> USE ConstantTypes
  <1> PICK t : t = at[w]
    OBVIOUS
  <1> PICK h : h = t.hold
    OBVIOUS
  <1>t. /\ t \in HandlerState /\ at \in [Handlers -> HandlerState]
        /\ payout \in [Payouts -> PayoutStatus] /\ row \in [Holds -> RowStatus]
    BY DEF TypeInv, TypeOK
  <1>o. SlotOK(t)
    BY SlotKnown
  <1>b. t.pc # "idle" => Busy(w) /\ h \in Holds
    BY <1>o DEF SlotOK, Busy
  <1>1. CASE InsufficientGrants(w) \/ OpenSession(w) \/ SessionRejected(w) \/ ReservationMissing(w)
    <2>1. /\ t.pc \in {"list", "session", "lookup"} /\ Return(w)
          /\ UNCHANGED <<grantVars, holdVars, payoutVars>>
      BY <1>1 DEF InsufficientGrants, OpenSession, SessionRejected, ReservationMissing
    <2>2. h \in Payouts => row[h] \in {"absent", "reserved"} /\ h \notin ledger
      BY <1>o, <2>1 DEF SlotOK
    <2>3. h \in Payouts => payout[h] \in {"requested", "approved"}
      BY <1>o, <2>1 DEF SlotOK
    <2>4. h \in Payouts => PayoutOK(h)'
      BY <2>1, <2>2, <2>3 DEF PayoutOK, holdVars, payoutVars
    <2> QED BY <2>1, <2>4, CalmReturn DEF payoutVars
  <1>2. CASE FinishApprove(w) \/ ClosePayout(w) \/ FinishSend(w)
    <2> PICK status \in {"approved", "failed", "cancelled", "sent"} :
            /\ payout' = [payout EXCEPT ![h] = status]
            /\ status = "approved" => t.pc = "approve"
            /\ status \in {"failed", "cancelled"} => t.pc = "close"
            /\ status = "sent" => t.pc = "sent"
      BY <1>2 DEF FinishApprove, ClosePayout, FinishSend, WritePayout
    <2>1. /\ t.pc \in {"approve", "close", "sent"} /\ Return(w)
          /\ UNCHANGED <<grantVars, holdVars, ledger>>
      BY <1>2 DEF FinishApprove, ClosePayout, FinishSend, WritePayout
    <2>2. /\ h \in Payouts
          /\ status = "approved" => row[h] \in {"absent", "reserved"} /\ h \notin ledger
          /\ status \in {"failed", "cancelled"} => row[h] = "released" /\ h \notin ledger
          /\ status = "sent" => row[h] = "sent" /\ h \in ledger
      BY <1>o, <2>1 DEF SlotOK
    <2>3. payout'[h] = status /\ \A p \in Payouts \ {h} : payout'[p] = payout[p]
      BY <1>t, <2>2
    <2>4. PayoutOK(h)'
      BY <2>1, <2>2, <2>3 DEF PayoutOK, holdVars
    <2> QED BY <2>1, <2>3, <2>4, CalmReturn
  <1>3. CASE FinishPost(w)
    <2> PICK s : s = Idle
      OBVIOUS
    <2>1. /\ t.pc = "post" /\ row' = [row EXCEPT ![h] = "posted"]
          /\ s.pc = "idle" /\ s.todo = Nothing /\ at' = [at EXCEPT ![w] = s]
          /\ UNCHANGED <<grantVars, alloc, payoutVars>>
      BY <1>3 DEF FinishPost, Return, Idle
    <2>2. h \in Holds /\ h \notin Payouts /\ row[h] = "reserved"
      BY <1>o, <2>1, WalletAssumption DEF SlotOK
    <2>3. row'[h] = "posted" /\ \A x \in Holds \ {h} : row'[x] = row[x]
      BY <1>t, <2>1, <2>2
    <2>4. SlotOK(s)'
      BY <2>1 DEF SlotOK
    <2>5. Quiet(w, s, h)
      BY <2>1, <2>2, <2>3 DEF Quiet, Moves, Busy, payoutVars
    <2>6. Stage(h) = "held" /\ Stage(h)' = "spent"
      BY <2>2, <2>3 DEF Stage
    <2> QED BY <2>2, <2>4, <2>5, <2>6, QuietMove, BankSpends DEF Calmly, Quiet, grantVars
  <1>4. CASE SendReservation(w)
    <2> PICK s : s = [t EXCEPT !.pc = "entry"]
      OBVIOUS
    <2>1. /\ t.pc = "lookup" /\ row[h] # "absent" /\ row' = [row EXCEPT ![h] = "sent"]
          /\ at' = [at EXCEPT ![w] = s]
          /\ UNCHANGED <<grantVars, alloc, payoutVars>>
      BY <1>4, <1>t DEF SendReservation, Goto, HandlerState
    <2>2. s.pc = "entry" /\ s.todo = t.todo /\ s.hold = h
      BY <1>t DEF HandlerState
    <2>3. h \in Payouts /\ h \in Holds /\ row[h] = "reserved" /\ h \notin ledger
          /\ payout[h] \in {"requested", "approved"}
      BY <1>o, <2>1 DEF SlotOK
    <2>4. row'[h] = "sent" /\ \A x \in Holds \ {h} : row'[x] = row[x]
      BY <1>t, <2>1, <2>3
    <2>5. SlotOK(s)'
      BY <2>1, <2>2, <2>3, <2>4 DEF SlotOK, payoutVars
    <2>6. at'[w] = s
      BY <1>t, <2>1
    <2>7. PayoutOK(h)'
      BY <2>1, <2>2, <2>3, <2>6 DEF PayoutOK, Busy, payoutVars
    <2>8. Quiet(w, s, h)
      BY <2>1, <2>2, <2>3, <2>4 DEF Quiet, Moves, Busy, payoutVars
    <2>9. Stage(h) = "held" /\ Stage(h)' = "spent"
      BY <2>3, <2>4 DEF Stage
    <2> QED BY <2>3, <2>5, <2>7, <2>8, <2>9, QuietMove, BankSpends DEF Calmly, Quiet, grantVars
  <1>5. CASE PostSentEntry(w)
    <2> PICK s : s = [t EXCEPT !.pc = "sent"]
      OBVIOUS
    <2>1. /\ t.pc = "entry" /\ ledger' = ledger \cup {h}
          /\ at' = [at EXCEPT ![w] = s]
          /\ UNCHANGED <<grantVars, holdVars, payout>>
      BY <1>5, <1>t DEF PostSentEntry, Goto, HandlerState
    <2>2. s.pc = "sent" /\ s.todo = t.todo /\ s.hold = h
      BY <1>t DEF HandlerState
    <2>3. h \in Payouts /\ h \in Holds /\ row[h] = "sent"
          /\ payout[h] \in {"requested", "approved"}
      BY <1>o, <2>1 DEF SlotOK
    <2>5. SlotOK(s)'
      BY <2>1, <2>2, <2>3 DEF SlotOK, holdVars
    <2>6. at'[w] = s
      BY <1>t, <2>1
    <2>7. PayoutOK(h)'
      BY <2>1, <2>2, <2>3, <2>6 DEF PayoutOK, Busy
    <2>8. Quiet(w, s, h)
      BY <2>1, <2>2, <2>3 DEF Quiet, Moves, Busy, holdVars
    <2> QED BY <2>1, <2>3, <2>5, <2>7, <2>8, QuietStutter DEF holdVars
  <1>6. CASE ReleaseReservation(w)
    <2> PICK s : s = [t EXCEPT !.pc = "restore", !.todo = alloc[h]]
      OBVIOUS
    <2>1. /\ t.pc = "lookup" /\ t.job \in {"fail", "cancel"} /\ row[h] # "absent"
          /\ at' = [at EXCEPT ![w].pc = "restore", ![w].todo = alloc[h]]
          /\ UNCHANGED <<grantVars, holdVars, payoutVars>>
      BY <1>6 DEF ReleaseReservation
    <2>9. at' = [at EXCEPT ![w] = s]
      BY <1>t, <2>1 DEF HandlerState
    <2>2. s.pc = "restore" /\ s.todo = alloc[h] /\ s.hold = h /\ s.job # "release"
      BY <1>t, <2>1 DEF HandlerState
    <2>3. h \in Payouts /\ h \in Holds /\ row[h] = "reserved" /\ h \notin ledger
          /\ payout[h] \in {"requested", "approved"} /\ h \notin Redemptions
      BY <1>o, <2>1, WalletAssumption DEF SlotOK
    <2>5. SlotOK(s)'
      BY <2>1, <2>2, <2>3 DEF SlotOK, holdVars, payoutVars
    <2>6. at'[w] = s
      BY <1>t, <2>9
    <2>7. PayoutOK(h)'
      BY <2>1, <2>2, <2>3, <2>6 DEF PayoutOK, Busy, payoutVars
    <2>8. Quiet(w, s, h)
      BY <2>1, <2>2, <2>3, <2>9 DEF Quiet, Moves, Busy, holdVars, payoutVars
    <2> QED BY <2>1, <2>3, <2>5, <2>7, <2>8, QuietStutter DEF holdVars
  <1> QED BY <1>1, <1>2, <1>3, <1>4, <1>5, <1>6

LEMMA NothingSums == SumFunction(Nothing) = 0
  <1>1. DOMAIN Nothing = Grants /\ \A g \in Grants : Nothing[g] = 0
    BY DEF Nothing
  <1>2. SumFunction(Nothing) = SumFunctionOnSet(Nothing, Grants)
    BY <1>1, SumOfFunction
  <1> QED BY <1>1, <1>2, GrantsFinite, SumOfNothing

LEMMA CalmReserve ==
    ASSUME Finite, TypeInv, TypeInv', RowsInv, RowsInv', CalmInv, CreditsConserved,
           Apart, Apart', Grows, NEW w \in Handlers, Clean(w), Reserve(w)
    PROVE  Calmly
  <1> PICK t : t = at[w]
    OBVIOUS
  <1> PICK h : h = t.hold
    OBVIOUS
  <1>t. /\ t \in HandlerState /\ at \in [Handlers -> HandlerState]
        /\ row \in [Holds -> RowStatus] /\ alloc \in [Holds -> [Grants -> Nat]]
        /\ remaining \in [Grants -> Int]
    BY DEF TypeInv, TypeOK
  <1>1. PICK plan \in [Grants -> 0..t.amount] :
          /\ AllocateFifo(plan, t.amount)
          /\ at' = [at EXCEPT ![w].pc = "allocate", ![w].todo = plan]
    BY DEF Reserve
  <1>2. /\ t.pc = "list" /\ row' = [row EXCEPT ![h] = "reserved"]
        /\ UNCHANGED <<grantVars, alloc, payoutVars>>
    BY DEF Reserve
  <1> PICK s : s = [t EXCEPT !.pc = "allocate", !.todo = plan]
    OBVIOUS
  <1>3. /\ s.pc = "allocate" /\ s.todo = plan /\ s.hold = h
        /\ at' = [at EXCEPT ![w] = s] /\ at'[w] = s
    BY <1>1, <1>t DEF HandlerState
  <1>4. SlotOK(t)
    BY SlotKnown
  <1>n. h \notin disturbed
    BY <1>2 DEF Clean, Grows, Busy
  <1>5. /\ h \in Holds /\ row[h] = "absent" /\ alloc[h] = Nothing
        /\ t.amount \in UNION {1..a : a \in Amounts}
        /\ h \in Payouts => payout[h] \in {"requested", "approved"} /\ h \notin ledger
    BY <1>2, <1>4, <1>n DEF SlotOK, CalmInv
  <1>6. row'[h] = "reserved" /\ \A x \in Holds \ {h} : row'[x] = row[x]
    BY <1>2, <1>5, <1>t
  <1>7. /\ plan \in [Grants -> Nat]
        /\ \A g \in Grants : remaining[g] = 0 => plan[g] = 0
    BY <1>1, <1>t, PlanFits DEF HandlerState
  <1>8. Moves(w, s, h)
    BY <1>2, <1>3, <1>6 DEF Moves, Busy, payoutVars
  <1>a. /\ \A v \in Handlers \ {w} : at'[v] = at[v]
        /\ h \notin disturbed /\ h \notin disturbed'
    BY <1>8, MovesApart
  <1>10. SlotOK(s)'
    BY <1>2, <1>3, <1>5, <1>6 DEF SlotOK, Nothing, payoutVars
  <1>11. h \in Payouts => PayoutOK(h)'
    BY <1>2, <1>3, <1>5 DEF PayoutOK, Busy, payoutVars
  <1>12. CalmInv'
    BY <1>5, <1>6, <1>8, <1>10, <1>11, CalmMove
  <1>13. CreditsConserved'
    <2>1. \A g \in Grants : Held(h, g) = 0 /\ Held(h, g)' = 0
      BY <1>2, <1>5, <1>6 DEF Held, Nothing
    <2>2. \A g \in Grants : Flight(w, g) = 0 /\ Flight(w, g)' = 0
      BY <1>2, <1>3 DEF Flight, Undrained, Restored
    <2> QED BY <1>2, <1>5, <1>8, <1>12, <2>1, <2>2, ConservedMove DEF grantVars
  <1>14. BankStep
    <2>1. SumFunction(plan) = t.amount
      BY <1>1 DEF AllocateFifo
    <2>2. Float(w) = 0 /\ Float(w)' = t.amount
      BY <1>2, <1>3, <1>t, <2>1 DEF Float, ToDrain, RestoredSoFar, Pending, HandlerState
    <2>3. \A g \in Grants : HoldCredits(h, g)' = plan[g]
      <3>1. CreditsKnown'
        BY <1>12, CreditsOfNext
      <3>2. ASSUME NEW g \in Grants
            PROVE  HoldCredits(h, g)' = IF plan[g] > 0 THEN plan[g] ELSE alloc'[h][g]
        <4>1. Pending(w)' /\ at'[w].hold = h /\ at'[w].todo[g] = plan[g]
          BY <1>3 DEF Pending
        <4>2. HoldCredits(h, g)' =
                 IF at'[w].todo[g] > 0 THEN at'[w].todo[g] ELSE alloc'[h][g]
          BY <1>a, <1>5, <3>1, <4>1 DEF CreditsKnown
        <4> QED BY <4>1, <4>2
      <3> QED BY <1>2, <1>5, <1>7, <3>2 DEF Nothing
    <2>4. HoldAmount(h)' = t.amount
      <3>1. [g \in Grants |-> HoldCredits(h, g)]' = plan
        BY <1>7, <2>3
      <3> QED BY <2>1, <3>1 DEF HoldAmount
    <2>5. SumFunction(remaining) \in Int
      BY <1>t, GrantsFinite, SumOfFunction, SumIsInteger
    <2>6. FreeBalance' = FreeBalance - t.amount
      BY <1>2, <1>5, <1>8, <1>12, <1>t, <2>2, <2>5, BankMove DEF grantVars, HandlerState
    <2>7. Stage(h) = "free" /\ Stage(h)' = "held"
      BY <1>5, <1>6 DEF Stage
    <2> QED BY <1>2, <1>5, <1>8, <1>12, <2>4, <2>6, <2>7, BankMove, BankSetsAside DEF grantVars
  <1> QED BY <1>12, <1>13, <1>14 DEF Calmly

LEMMA CalmAllocate ==
    ASSUME Finite, TypeInv, TypeInv', RowsInv, RowsInv', CalmInv, CreditsConserved,
           Apart, Apart', Grows, NEW w \in Handlers, Clean(w), CreateAllocation(w)
    PROVE  Calmly
  <1> PICK t : t = at[w]
    OBVIOUS
  <1> PICK h : h = t.hold
    OBVIOUS
  <1>t. /\ t \in HandlerState /\ at \in [Handlers -> HandlerState]
        /\ alloc \in [Holds -> [Grants -> Nat]]
        /\ remaining \in [Grants -> Int]
    BY DEF TypeInv, TypeOK
  <1>1. PICK k \in Grants :
          /\ IsNext(w, k)
          /\ alloc' = [alloc EXCEPT ![h][k] = t.todo[k]]
    BY DEF CreateAllocation
  <1>2. /\ t.pc = "allocate" /\ Goto(w, "drain")
        /\ UNCHANGED <<grantVars, row, payoutVars>>
    BY DEF CreateAllocation
  <1> PICK s : s = [t EXCEPT !.pc = "drain"]
    OBVIOUS
  <1>3. /\ s.pc = "drain" /\ s.todo = t.todo /\ s.hold = h
        /\ at' = [at EXCEPT ![w] = s] /\ at'[w] = s
    BY <1>2, <1>t DEF HandlerState, Goto
  <1>4. SlotOK(t)
    BY SlotKnown
  <1>5. /\ h \in Holds /\ row[h] = "reserved"
        /\ \A g \in Grants : t.todo[g] > 0 => alloc[h][g] = 0
        /\ h \in Payouts => payout[h] \in {"requested", "approved"} /\ h \notin ledger
    BY <1>2, <1>4 DEF SlotOK
  <1>6. /\ alloc'[h][k] = t.todo[k]
        /\ \A g \in Grants \ {k} : alloc'[h][g] = alloc[h][g]
        /\ \A x \in Holds \ {h} : alloc'[x] = alloc[x]
    BY <1>1, <1>5, <1>t
  <1>7. /\ t.todo \in [Grants -> Nat] /\ t.todo[k] > 0 /\ Oldest(t.todo, k)
        /\ \A g \in Grants \ {k} : ~(t.todo[g] > 0 /\ Oldest(t.todo, g))
    <2>1. t.todo \in [Grants -> Nat] /\ t.todo[k] > 0 /\ Oldest(t.todo, k)
      BY <1>1, <1>t DEF IsNext, Oldest, HandlerState
    <2> QED BY <2>1, OldestIsUnique
  <1>8. Moves(w, s, h)
    BY <1>2, <1>3, <1>6 DEF Moves, Busy, payoutVars
  <1>a. /\ \A v \in Handlers \ {w} : at'[v] = at[v]
        /\ h \notin disturbed /\ h \notin disturbed'
    BY <1>8, MovesApart
  <1>10. SlotOK(s)'
    <2>1. \A g \in Grants : s.todo[g] > 0 =>
             alloc'[h][g] = IF Oldest(s.todo, g) THEN s.todo[g] ELSE 0
      BY <1>3, <1>5, <1>6, <1>7
    <2> QED BY <1>2, <1>3, <1>5, <2>1 DEF SlotOK, payoutVars
  <1>11. h \in Payouts => PayoutOK(h)'
    BY <1>2, <1>3, <1>5 DEF PayoutOK, Busy, payoutVars
  <1>12. CalmInv'
    BY <1>2, <1>5, <1>8, <1>10, <1>11, CalmMove
  <1>13. CreditsConserved'
    <2>1. \A g \in Grants : Flight(w, g) = 0
      BY <1>2 DEF Flight, Undrained, Restored
    <2>2. \A g \in Grants : Flight(w, g)' = IF g = k THEN t.todo[k] ELSE 0
      <3>1. \A g \in Grants : IsNext(w, g)' <=> g = k
        BY <1>3, <1>7 DEF IsNext, Oldest
      <3>2. at'[w].pc = "drain" /\ at'[w].todo = t.todo /\ t.todo[k] \in Nat
        BY <1>3, <1>7
      <3> SUFFICES ASSUME NEW g \in Grants
                   PROVE  Flight(w, g)' = IF g = k THEN t.todo[k] ELSE 0
        OBVIOUS
      <3>3. Undrained(w, g)' = IF g = k THEN t.todo[k] ELSE 0
        BY <3>1, <3>2 DEF Undrained
      <3>4. Restored(w, g)' = 0
        BY <3>2 DEF Restored
      <3> QED BY <3>2, <3>3, <3>4 DEF Flight
    <2>3. \A g \in Grants : Held(h, g)' = Held(h, g) + IF g = k THEN t.todo[k] ELSE 0
      <3>1. \A g \in Grants : Held(h, g) = alloc[h][g] /\ Held(h, g)' = alloc'[h][g]
        BY <1>2, <1>5 DEF Held
      <3> QED BY <1>5, <1>6, <1>7, <1>t, <3>1
    <2>4. \A g \in Grants :
              remaining'[g] + Held(h, g)' - Flight(w, g)' =
                 remaining[g] + Held(h, g) - Flight(w, g)
      <3> SUFFICES ASSUME NEW g \in Grants
                   PROVE  remaining'[g] + Held(h, g)' - Flight(w, g)' =
                             remaining[g] + Held(h, g) - Flight(w, g)
        OBVIOUS
      <3>1. remaining'[g] = remaining[g] /\ remaining[g] \in Int
        BY <1>2, <1>t DEF grantVars
      <3>2. Held(h, g) \in Int
        BY <1>5, HeldTypes DEF HeldTyped
      <3>3. t.todo[k] \in Int
        BY <1>7
      <3> QED BY <2>1, <2>2, <2>3, <3>1, <3>2, <3>3
    <2> QED BY <1>2, <1>5, <1>8, <1>12, <2>4, ConservedMove DEF grantVars
  <1>14. BankStep
    <2>2. Float(w)' = Float(w)
      BY <1>2, <1>3 DEF Float, ToDrain, RestoredSoFar, Pending
    <2>3. \A g \in Grants : HoldCredits(h, g)' = HoldCredits(h, g)
      <3>1. CreditsKnown' /\ CreditsKnown
        BY <1>12, CreditsOf, CreditsOfNext
      <3> SUFFICES ASSUME NEW g \in Grants
                   PROVE  HoldCredits(h, g)' = HoldCredits(h, g)
        OBVIOUS
      <3>2. /\ Pending(w)' /\ at'[w].hold = h /\ at'[w].todo[g] = t.todo[g]
            /\ Pending(w) /\ at[w].hold = h
        BY <1>2, <1>3 DEF Pending
      <3>3. HoldCredits(h, g)' =
                 IF at'[w].todo[g] > 0 THEN at'[w].todo[g] ELSE alloc'[h][g]
        BY <1>a, <1>5, <3>1, <3>2 DEF CreditsKnown
      <3>4. HoldCredits(h, g) = IF at[w].todo[g] > 0 THEN at[w].todo[g] ELSE alloc[h][g]
        BY <1>a, <1>5, <3>1, <3>2 DEF CreditsKnown
      <3> QED BY <1>6, <1>7, <3>2, <3>3, <3>4
    <2>4. HoldAmount(h)' = HoldAmount(h)
      BY <2>3 DEF HoldAmount
    <2>5. SumFunction(remaining) \in Int /\ Float(w) \in Int
      BY <1>t, GrantsFinite, SumOfFunction, SumIsInteger, FloatTypes DEF FloatTyped
    <2>6. FreeBalance' = FreeBalance
      BY <1>2, <1>5, <1>8, <1>12, <2>2, <2>5, BankMove DEF grantVars
    <2>7. Stage(h)' = Stage(h)
      BY <1>2 DEF Stage
    <2> QED BY <1>2, <1>5, <1>8, <1>12, <2>4, <2>6, <2>7, BankMove, BankStutters DEF grantVars
  <1> QED BY <1>12, <1>13, <1>14 DEF Calmly

LEMMA CalmDrain ==
    ASSUME Finite, TypeInv, TypeInv', RowsInv, RowsInv', CalmInv, CreditsConserved,
           Apart, Apart', Grows, NEW w \in Handlers, Clean(w), DrainGrant(w)
    PROVE  Calmly
  <1> PICK t : t = at[w]
    OBVIOUS
  <1> PICK h : h = t.hold
    OBVIOUS
  <1>t. /\ t \in HandlerState /\ at \in [Handlers -> HandlerState]
        /\ alloc \in [Holds -> [Grants -> Nat]]
        /\ remaining \in [Grants -> Int] /\ remaining' \in [Grants -> Int]
    BY DEF TypeInv, TypeOK
  <1>1. PICK k \in Grants :
          /\ IsNext(w, k)
          /\ remaining' = [remaining EXCEPT ![k] = @ - t.todo[k]]
          /\ LET last == \A other \in Grants \ {k} : t.todo[other] = 0
             IN  IF last /\ t.job = "payout" THEN Return(w)
                 ELSE at' = [at EXCEPT ![w].pc = IF last THEN "session" ELSE "allocate",
                                       ![w].todo[k] = 0]
    BY DEF DrainGrant
  <1>2. /\ t.pc = "drain" /\ UNCHANGED <<count, issued, holdVars, payoutVars>>
    BY DEF DrainGrant
  <1>7. /\ t.todo \in [Grants -> Nat] /\ t.todo[k] > 0 /\ Oldest(t.todo, k)
        /\ \A g \in Grants \ {k} : ~(t.todo[g] > 0 /\ Oldest(t.todo, g))
    <2>1. t.todo \in [Grants -> Nat] /\ t.todo[k] > 0 /\ Oldest(t.todo, k)
      BY <1>1, <1>t DEF IsNext, Oldest, HandlerState
    <2> QED BY <2>1, OldestIsUnique
  <1>3. PICK s : /\ at' = [at EXCEPT ![w] = s]
                 /\ s.pc \in {"idle", "session", "allocate"}
                 /\ s.pc # "idle" => s.hold = h
                 /\ s.pc # "allocate" => \A g \in Grants \ {k} : t.todo[g] = 0
                 /\ s.todo = [t.todo EXCEPT ![k] = 0]
    <2> DEFINE rest == [t.todo EXCEPT ![k] = 0]
    <2>1. CASE Return(w)
      <3>1. CASE \A g \in Grants \ {k} : t.todo[g] = 0
        <4>1. Nothing = rest
          BY <1>7, <3>1 DEF Nothing
        <4>2. Idle.pc = "idle" /\ Idle.todo = Nothing /\ at' = [at EXCEPT ![w] = Idle]
          BY <2>1 DEF Return, Idle
        <4> QED BY <3>1, <4>1, <4>2
      <3>2. CASE ~\A g \in Grants \ {k} : t.todo[g] = 0
        <4>1. at' = [at EXCEPT ![w].pc = "allocate", ![w].todo[k] = 0]
          BY <1>1, <3>2
        <4>2. at'[w].pc = "allocate"
          BY <4>1, <1>t DEF HandlerState
        <4>3. at'[w].pc = "idle"
          BY <2>1, <1>t DEF Return, Idle
        <4> QED BY <4>2, <4>3
      <3> QED BY <3>1, <3>2
    <2>2. CASE ~Return(w)
      <3>1. PICK pc \in {"session", "allocate"} :
               /\ at' = [at EXCEPT ![w].pc = pc, ![w].todo[k] = 0]
               /\ pc = "session" => \A g \in Grants \ {k} : t.todo[g] = 0
        BY <1>1, <2>2
      <3> PICK s : s = [t EXCEPT !.pc = pc, !.todo = rest]
        OBVIOUS
      <3>2. s.pc = pc /\ s.todo = rest /\ s.hold = h
        BY <1>t DEF HandlerState
      <3>3. at' = [at EXCEPT ![w] = s]
        BY <1>t, <3>1 DEF HandlerState
      <3> QED BY <3>1, <3>2, <3>3
    <2> QED BY <2>1, <2>2
  <1>b. at'[w] = s
    BY <1>3, <1>t
  <1>c. s.todo[k] = 0 /\ \A g \in Grants \ {k} : s.todo[g] = t.todo[g]
    BY <1>3, <1>7
  <1>4. SlotOK(t)
    BY SlotKnown
  <1>5. /\ h \in Holds /\ row[h] = "reserved"
        /\ alloc[h][k] = t.todo[k]
        /\ \A g \in Grants \ {k} : t.todo[g] > 0 => alloc[h][g] = 0
        /\ h \in Payouts => payout[h] \in {"requested", "approved"} /\ h \notin ledger
    BY <1>2, <1>4, <1>7 DEF SlotOK
  <1>8. Moves(w, s, h)
    BY <1>2, <1>3 DEF Moves, Busy, payoutVars, holdVars
  <1>a. /\ \A v \in Handlers \ {w} : at'[v] = at[v]
        /\ h \notin disturbed /\ h \notin disturbed'
    BY <1>8, MovesApart
  <1>r. /\ remaining'[k] = remaining[k] - t.todo[k]
        /\ \A g \in Grants \ {k} : remaining'[g] = remaining[g]
    BY <1>1, <1>t
  <1>10. SlotOK(s)'
    <2>1. s.pc = "allocate" => \A g \in Grants : s.todo[g] > 0 => alloc[h][g] = 0
      BY <1>5, <1>c
    <2> QED BY <1>2, <1>3, <1>5, <2>1 DEF SlotOK, payoutVars, holdVars
  <1>11. h \in Payouts => PayoutOK(h)'
    BY <1>2, <1>5 DEF PayoutOK, payoutVars, holdVars
  <1>12. CalmInv'
    BY <1>2, <1>5, <1>8, <1>10, <1>11, CalmMove DEF holdVars
  <1>13. CreditsConserved'
    <2>1. \A g \in Grants : Flight(w, g) = IF g = k THEN t.todo[k] ELSE 0
      BY <1>2, <1>7 DEF Flight, Undrained, Restored, IsNext, Oldest
    <2>2. \A g \in Grants : Flight(w, g)' = 0
      BY <1>b, <1>3 DEF Flight, Undrained, Restored
    <2>3. \A g \in Grants : Held(h, g)' = Held(h, g)
      BY <1>2 DEF Held, holdVars
    <2>4. \A g \in Grants :
              remaining'[g] + Held(h, g)' - Flight(w, g)' =
                 remaining[g] + Held(h, g) - Flight(w, g)
      <3> SUFFICES ASSUME NEW g \in Grants
                   PROVE  remaining'[g] + Held(h, g)' - Flight(w, g)' =
                             remaining[g] + Held(h, g) - Flight(w, g)
        OBVIOUS
      <3>2. Held(h, g) \in Int /\ remaining[g] \in Int
        BY <1>5, <1>t, HeldTypes DEF HeldTyped
      <3>3. t.todo[k] \in Int
        BY <1>7
      <3> QED BY <1>r, <2>1, <2>2, <2>3, <3>2, <3>3
    <2> QED BY <1>2, <1>5, <1>8, <1>12, <2>4, ConservedMove
  <1>14. BankStep
    <2>1. /\ SumFunction(remaining) \in Int /\ SumFunction(remaining') \in Int
          /\ SumFunction(remaining') = SumFunction(remaining) - t.todo[k]
      <3>1. SumFunction(remaining') = SumFunction(remaining) + (remaining'[k] - remaining[k])
            /\ SumFunction(remaining) \in Int /\ SumFunction(remaining') \in Int
        BY <1>r, <1>t, GrantsFinite, SumChanges
      <3>2. remaining[k] \in Int /\ t.todo[k] \in Int
        BY <1>t, <1>7
      <3> QED BY <1>r, <3>1, <3>2
    <2>2. /\ SumFunction(t.todo) \in Int /\ SumFunction(s.todo) \in Int
          /\ SumFunction(s.todo) = SumFunction(t.todo) - t.todo[k]
      <3>1. t.todo \in [Grants -> Int] /\ s.todo \in [Grants -> Int]
        BY <1>3, <1>7
      <3>2. /\ SumFunction(s.todo) = SumFunction(t.todo) + (s.todo[k] - t.todo[k])
            /\ SumFunction(t.todo) \in Int /\ SumFunction(s.todo) \in Int
        BY <1>c, <3>1, GrantsFinite, SumChanges
      <3> QED BY <1>c, <1>7, <3>2
    <2>3. s.pc # "allocate" => SumFunction(s.todo) = 0
      <3>1. s.pc # "allocate" => s.todo = Nothing
        BY <1>3, <1>7 DEF Nothing
      <3> QED BY <3>1, NothingSums
    <2>4. Float(w) = SumFunction(t.todo) /\ Float(w)' = SumFunction(s.todo)
      BY <1>2, <1>3, <1>b, <2>2, <2>3 DEF Float, ToDrain, RestoredSoFar, Pending
    <2>5. t.todo[k] \in Int
      BY <1>7
    <2>6. FreeBalance' = FreeBalance
      <3>1. FreeBalance' = FreeBalance + (SumFunction(remaining') - SumFunction(remaining))
                               - (Float(w)' - Float(w)) /\ FreeBalance \in Int
        BY <1>5, <1>8, <1>12, BankMove
      <3> QED BY <2>1, <2>2, <2>4, <2>5, <3>1
    <2>7. \A g \in Grants : HoldCredits(h, g)' = HoldCredits(h, g)
      <3>1. CreditsKnown' /\ CreditsKnown
        BY <1>12, CreditsOf, CreditsOfNext
      <3> SUFFICES ASSUME NEW g \in Grants
                   PROVE  HoldCredits(h, g)' = HoldCredits(h, g)
        OBVIOUS
      <3>2. Pending(w) /\ at[w].hold = h
        BY <1>2 DEF Pending
      <3>3. HoldCredits(h, g) = IF t.todo[g] > 0 THEN t.todo[g] ELSE alloc[h][g]
        BY <1>a, <1>5, <3>1, <3>2 DEF CreditsKnown
      <3>4. CASE s.pc = "allocate"
        <4>1. Pending(w)' /\ at'[w].hold = h /\ at'[w].todo[g] = s.todo[g]
          BY <1>3, <1>b, <3>4 DEF Pending
        <4>2. HoldCredits(h, g)' =
                 IF at'[w].todo[g] > 0 THEN at'[w].todo[g] ELSE alloc'[h][g]
          BY <1>a, <1>5, <3>1, <4>1 DEF CreditsKnown
        <4> QED BY <1>2, <1>5, <1>7, <1>c, <3>3, <4>1, <4>2 DEF holdVars
      <3>5. CASE s.pc # "allocate"
        <4>1. \A v \in Handlers : Pending(v)' => at'[v].hold # h
          <5>1. \A v \in Handlers \ {w} : at'[v] = at[v] /\ (Busy(v) => at[v].hold # h)
            BY <1>8, MovesApart
          <5> QED BY <1>3, <1>b, <3>5, <5>1 DEF Pending, Busy
        <4>2. HoldCredits(h, g)' = alloc'[h][g]
          BY <1>a, <1>5, <3>1, <4>1 DEF CreditsKnown
        <4> QED BY <1>2, <1>3, <1>5, <1>7, <3>3, <3>5, <4>2 DEF holdVars
      <3> QED BY <3>4, <3>5
    <2>8. HoldAmount(h)' = HoldAmount(h)
      BY <2>7 DEF HoldAmount
    <2>9. Stage(h)' = Stage(h)
      BY <1>2 DEF Stage, holdVars
    <2> QED BY <1>2, <1>5, <1>8, <1>12, <2>6, <2>8, <2>9, BankMove, BankStutters
  <1> QED BY <1>12, <1>13, <1>14 DEF Calmly

LEMMA CalmRestore ==
    ASSUME Finite, TypeInv, TypeInv', RowsInv, RowsInv', CalmInv, CreditsConserved,
           Apart, Apart', Grows, NEW w \in Handlers, Clean(w), RestoreGrant(w)
    PROVE  Calmly
  <1> PICK t : t = at[w]
    OBVIOUS
  <1> PICK h : h = t.hold
    OBVIOUS
  <1>t. /\ t \in HandlerState /\ at \in [Handlers -> HandlerState]
        /\ alloc \in [Holds -> [Grants -> Nat]]
        /\ remaining \in [Grants -> Int] /\ remaining' \in [Grants -> Int]
    BY DEF TypeInv, TypeOK
  <1>1. PICK k \in Grants :
          /\ t.todo[k] > 0
          /\ remaining' = [remaining EXCEPT ![k] = @ + t.todo[k]]
          /\ at' = [at EXCEPT ![w].todo[k] = 0]
    BY DEF RestoreGrant
  <1>2. /\ t.pc = "restore" /\ UNCHANGED <<count, issued, holdVars, payoutVars>>
    BY DEF RestoreGrant
  <1>7. t.todo \in [Grants -> Nat] /\ t.todo[k] \in Int
    BY <1>t DEF HandlerState
  <1> PICK s : s = [t EXCEPT !.todo = [t.todo EXCEPT ![k] = 0]]
    OBVIOUS
  <1>3. /\ s.pc = "restore" /\ s.hold = h /\ s.job = t.job
        /\ s.todo = [t.todo EXCEPT ![k] = 0]
        /\ at' = [at EXCEPT ![w] = s] /\ at'[w] = s
    BY <1>1, <1>2, <1>t DEF HandlerState
  <1>c. s.todo[k] = 0 /\ \A g \in Grants \ {k} : s.todo[g] = t.todo[g]
    BY <1>3, <1>7
  <1>4. SlotOK(t)
    BY SlotKnown
  <1>5. h \in Holds /\ row[h] = "reserved"
    BY <1>2, <1>4 DEF SlotOK
  <1>8. Moves(w, s, h)
    BY <1>2, <1>3 DEF Moves, Busy, payoutVars, holdVars
  <1>a. /\ \A v \in Handlers \ {w} : at'[v] = at[v] /\ (Busy(v) => at[v].hold # h)
        /\ h \notin disturbed /\ h \notin disturbed'
    BY <1>8, MovesApart
  <1>r. /\ remaining'[k] = remaining[k] + t.todo[k]
        /\ \A g \in Grants \ {k} : remaining'[g] = remaining[g]
    BY <1>1, <1>t
  <1>10. SlotOK(s)'
    BY <1>2, <1>3, <1>4 DEF SlotOK, payoutVars, holdVars
  <1>11. h \in Payouts => PayoutOK(h)'
    <2>1. Busy(w)' /\ at'[w].hold = h
      BY <1>3 DEF Busy
    <2> QED BY <1>2, <1>a, <2>1, PayoutKept DEF payoutVars, holdVars
  <1>12. CalmInv'
    BY <1>2, <1>5, <1>8, <1>10, <1>11, CalmMove DEF holdVars
  <1>13. CreditsConserved'
    <2>1. \A g \in Grants : Flight(w, g) = alloc[h][g] - t.todo[g]
      BY <1>2, <1>5, <1>7, <1>t DEF Flight, Undrained, Restored
    <2>2. \A g \in Grants : Flight(w, g)' = alloc[h][g] - s.todo[g]
      <3> SUFFICES ASSUME NEW g \in Grants
                   PROVE  Flight(w, g)' = alloc[h][g] - s.todo[g]
        OBVIOUS
      <3>1. Restored(w, g)' = alloc[h][g] - s.todo[g]
        BY <1>2, <1>3 DEF Restored, holdVars
      <3>2. Undrained(w, g)' = 0
        BY <1>3 DEF Undrained
      <3>3. alloc[h][g] \in Int /\ s.todo[g] \in Int
        BY <1>3, <1>5, <1>7, <1>t
      <3> QED BY <3>1, <3>2, <3>3 DEF Flight
    <2>3. \A g \in Grants : Held(h, g)' = Held(h, g)
      BY <1>2 DEF Held, holdVars
    <2>4. \A g \in Grants :
              remaining'[g] + Held(h, g)' - Flight(w, g)' =
                 remaining[g] + Held(h, g) - Flight(w, g)
      <3> SUFFICES ASSUME NEW g \in Grants
                   PROVE  remaining'[g] + Held(h, g)' - Flight(w, g)' =
                             remaining[g] + Held(h, g) - Flight(w, g)
        OBVIOUS
      <3>2. Held(h, g) \in Int /\ remaining[g] \in Int /\ alloc[h][g] \in Int
        BY <1>5, <1>t, HeldTypes DEF HeldTyped
      <3>3. t.todo[g] \in Int
        BY <1>7
      <3> QED BY <1>r, <1>c, <2>1, <2>2, <2>3, <3>2, <3>3
    <2> QED BY <1>2, <1>5, <1>8, <1>12, <2>4, ConservedMove
  <1>14. BankStep
    <2>1. /\ SumFunction(remaining) \in Int /\ SumFunction(remaining') \in Int
          /\ SumFunction(remaining') = SumFunction(remaining) + t.todo[k]
      <3>1. SumFunction(remaining') = SumFunction(remaining) + (remaining'[k] - remaining[k])
            /\ SumFunction(remaining) \in Int /\ SumFunction(remaining') \in Int
        BY <1>r, <1>t, GrantsFinite, SumChanges
      <3>2. remaining[k] \in Int
        BY <1>t
      <3> QED BY <1>r, <1>7, <3>1, <3>2
    <2>2. /\ SumFunction(t.todo) \in Int /\ SumFunction(s.todo) \in Int
          /\ SumFunction(s.todo) = SumFunction(t.todo) - t.todo[k]
      <3>1. t.todo \in [Grants -> Int] /\ s.todo \in [Grants -> Int]
        BY <1>3, <1>7
      <3>2. /\ SumFunction(s.todo) = SumFunction(t.todo) + (s.todo[k] - t.todo[k])
            /\ SumFunction(t.todo) \in Int /\ SumFunction(s.todo) \in Int
        BY <1>c, <3>1, GrantsFinite, SumChanges
      <3> QED BY <1>c, <1>7, <3>2
    <2>3. SumFunction(alloc[h]) \in Int
      BY <1>t, <1>5, GrantsFinite, SumOfFunction, SumIsInteger
    <2>4. /\ Float(w) = SumFunction(alloc[h]) - SumFunction(t.todo)
          /\ Float(w)' = SumFunction(alloc[h]) - SumFunction(s.todo)
      <3>1. RestoredSoFar(w) = SumFunction(alloc[h]) - SumFunction(t.todo) /\ ToDrain(w) = 0
        BY <1>2 DEF RestoredSoFar, ToDrain, Pending
      <3>2. RestoredSoFar(w)' = SumFunction(alloc[h]) - SumFunction(s.todo) /\ ToDrain(w)' = 0
        BY <1>2, <1>3 DEF RestoredSoFar, ToDrain, Pending, holdVars
      <3> QED BY <2>2, <2>3, <3>1, <3>2 DEF Float
    <2>6. FreeBalance' = FreeBalance
      <3>1. FreeBalance' = FreeBalance + (SumFunction(remaining') - SumFunction(remaining))
                               - (Float(w)' - Float(w)) /\ FreeBalance \in Int
        BY <1>5, <1>8, <1>12, BankMove
      <3> QED BY <1>7, <2>1, <2>2, <2>3, <2>4, <3>1
    <2>7. \A g \in Grants : HoldCredits(h, g)' = HoldCredits(h, g)
      <3>1. CreditsKnown' /\ CreditsKnown
        BY <1>12, CreditsOf, CreditsOfNext
      <3>2. \A v \in Handlers : Pending(v) => at[v].hold # h
        BY <1>2, <1>a DEF Pending, Busy
      <3>3. \A v \in Handlers : Pending(v)' => at'[v].hold # h
        BY <1>3, <1>a DEF Pending, Busy
      <3> QED BY <1>a, <1>2, <1>5, <3>1, <3>2, <3>3 DEF CreditsKnown, holdVars
    <2>8. HoldAmount(h)' = HoldAmount(h)
      BY <2>7 DEF HoldAmount
    <2>9. Stage(h)' = Stage(h)
      BY <1>2 DEF Stage, holdVars
    <2> QED BY <1>2, <1>5, <1>8, <1>12, <2>6, <2>8, <2>9, BankMove, BankStutters
  <1> QED BY <1>12, <1>13, <1>14 DEF Calmly

LEMMA CalmRelease ==
    ASSUME Finite, TypeInv, TypeInv', RowsInv, RowsInv', CalmInv, CreditsConserved,
           Apart, Apart', Grows, NEW w \in Handlers, Clean(w), FinishRelease(w)
    PROVE  Calmly
  <1> PICK t : t = at[w]
    OBVIOUS
  <1> PICK h : h = t.hold
    OBVIOUS
  <1>t. /\ t \in HandlerState /\ at \in [Handlers -> HandlerState]
        /\ alloc \in [Holds -> [Grants -> Nat]] /\ row \in [Holds -> RowStatus]
        /\ remaining \in [Grants -> Int]
    BY DEF TypeInv, TypeOK
  <1>2. /\ t.pc = "restore" /\ t.todo = Nothing
        /\ row' = [row EXCEPT ![h] = "released"]
        /\ IF t.job = "release" THEN Return(w) ELSE Goto(w, "close")
        /\ UNCHANGED <<grantVars, alloc, payoutVars>>
    BY DEF FinishRelease
  <1>3. PICK s : /\ at' = [at EXCEPT ![w] = s] /\ s.todo = Nothing
                 /\ \/ t.job = "release" /\ s.pc = "idle"
                    \/ t.job # "release" /\ s.pc = "close" /\ s.hold = h
    <2>1. CASE t.job = "release"
      <3>1. Idle.pc = "idle" /\ Idle.todo = Nothing /\ at' = [at EXCEPT ![w] = Idle]
        BY <1>2, <2>1 DEF Return, Idle
      <3> QED BY <2>1, <3>1
    <2>2. CASE t.job # "release"
      <3> PICK s : s = [t EXCEPT !.pc = "close"]
        OBVIOUS
      <3>1. at' = [at EXCEPT ![w] = s] /\ s.pc = "close" /\ s.hold = h /\ s.todo = Nothing
        BY <1>2, <1>t, <2>2 DEF Goto, HandlerState
      <3> QED BY <2>2, <3>1
    <2> QED BY <2>1, <2>2
  <1>b. at'[w] = s
    BY <1>3, <1>t
  <1>4. SlotOK(t)
    BY SlotKnown
  <1>5. /\ h \in Holds /\ row[h] = "reserved"
        /\ h \in Payouts => payout[h] \in {"requested", "approved"} /\ h \notin ledger
        /\ t.job = "release" <=> h \in Redemptions
    BY <1>2, <1>4 DEF SlotOK
  <1>6. row'[h] = "released" /\ \A x \in Holds \ {h} : row'[x] = row[x]
    BY <1>2, <1>5, <1>t
  <1>8. Moves(w, s, h)
    BY <1>2, <1>3, <1>6 DEF Moves, Busy, payoutVars
  <1>a. /\ \A v \in Handlers \ {w} : at'[v] = at[v] /\ (Busy(v) => at[v].hold # h)
        /\ h \notin disturbed /\ h \notin disturbed'
    BY <1>8, MovesApart
  <1>p. h \in Payouts => t.job # "release"
    BY <1>5, WalletAssumption
  <1>10. SlotOK(s)'
    <2>1. s.pc = "close" => h \in Payouts
      BY <1>3, <1>5 DEF Holds
    <2> QED BY <1>2, <1>3, <1>5, <1>6, <2>1 DEF SlotOK, payoutVars
  <1>11. h \in Payouts => PayoutOK(h)'
    <2>1. h \in Payouts => Busy(w)' /\ at'[w].hold = h
      BY <1>3, <1>b, <1>p DEF Busy
    <2> QED BY <1>2, <1>5, <1>6, <2>1 DEF PayoutOK, payoutVars
  <1>12. CalmInv'
    BY <1>2, <1>5, <1>6, <1>8, <1>10, <1>11, CalmMove
  <1>13. CreditsConserved'
    <2>1. \A g \in Grants : Flight(w, g) = alloc[h][g]
      <3> SUFFICES ASSUME NEW g \in Grants PROVE Flight(w, g) = alloc[h][g]
        OBVIOUS
      <3>1. Restored(w, g) = alloc[h][g] - 0 /\ alloc[h][g] \in Int
        BY <1>2, <1>5, <1>t DEF Restored, Nothing
      <3>2. Undrained(w, g) = 0
        BY <1>2 DEF Undrained
      <3> QED BY <3>1, <3>2 DEF Flight
    <2>2. \A g \in Grants : Flight(w, g)' = 0
      BY <1>b, <1>3 DEF Flight, Undrained, Restored
    <2>3. \A g \in Grants : Held(h, g)' = 0 /\ Held(h, g) = alloc[h][g]
      BY <1>5, <1>6 DEF Held
    <2>4. \A g \in Grants :
              remaining'[g] + Held(h, g)' - Flight(w, g)' =
                 remaining[g] + Held(h, g) - Flight(w, g)
      <3> SUFFICES ASSUME NEW g \in Grants
                   PROVE  remaining'[g] + Held(h, g)' - Flight(w, g)' =
                             remaining[g] + Held(h, g) - Flight(w, g)
        OBVIOUS
      <3>2. remaining'[g] = remaining[g] /\ remaining[g] \in Int /\ alloc[h][g] \in Int
        BY <1>2, <1>5, <1>t DEF grantVars
      <3> QED BY <2>1, <2>2, <2>3, <3>2
    <2> QED BY <1>2, <1>5, <1>8, <1>12, <2>4, ConservedMove DEF grantVars
  <1>14. BankStep
    <2>3. SumFunction(alloc[h]) \in Int
      BY <1>t, <1>5, GrantsFinite, SumOfFunction, SumIsInteger
    <2>4. Float(w) = SumFunction(alloc[h]) /\ Float(w)' = 0
      <3>1. RestoredSoFar(w) = SumFunction(alloc[h]) - 0
        BY <1>2, NothingSums DEF RestoredSoFar
      <3>2. ToDrain(w) = 0
        BY <1>2 DEF ToDrain, Pending
      <3>3. Float(w)' = 0
        BY <1>b, <1>3 DEF Float, ToDrain, RestoredSoFar, Pending
      <3> QED BY <2>3, <3>1, <3>2, <3>3 DEF Float
    <2>5. SumFunction(remaining) \in Int /\ remaining' = remaining
      BY <1>2, <1>t, GrantsFinite, SumOfFunction, SumIsInteger DEF grantVars
    <2>7. \A g \in Grants : HoldCredits(h, g)' = alloc[h][g] /\ HoldCredits(h, g) = alloc[h][g]
      <3>1. CreditsKnown' /\ CreditsKnown
        BY <1>12, CreditsOf, CreditsOfNext
      <3>2. \A v \in Handlers : Pending(v) => at[v].hold # h
        BY <1>2, <1>a DEF Pending, Busy
      <3>3. \A v \in Handlers : Pending(v)' => at'[v].hold # h
        BY <1>3, <1>b, <1>a DEF Pending, Busy
      <3> QED BY <1>a, <1>2, <1>5, <3>1, <3>2, <3>3 DEF CreditsKnown
    <2>8. HoldAmount(h)' = HoldAmount(h) /\ HoldAmount(h) = SumFunction(alloc[h])
      <3>1. [g \in Grants |-> HoldCredits(h, g)] = alloc[h]
        BY <2>7, <1>5, <1>t
      <3>2. [g \in Grants |-> HoldCredits(h, g)]' = alloc[h]
        BY <2>7, <1>5, <1>t
      <3> QED BY <3>1, <3>2 DEF HoldAmount
    <2>6. FreeBalance' = FreeBalance + HoldAmount(h)
      <3>1. FreeBalance' = FreeBalance + (SumFunction(remaining') - SumFunction(remaining))
                               - (Float(w)' - Float(w)) /\ FreeBalance \in Int
        BY <1>5, <1>8, <1>12, BankMove
      <3> QED BY <2>3, <2>4, <2>5, <2>8, <3>1
    <2>9. Stage(h) = "held" /\ Stage(h)' = "returned"
      BY <1>5, <1>6 DEF Stage
    <2> QED BY <1>2, <1>5, <1>8, <1>12, <2>6, <2>8, <2>9, BankMove, BankGivesBack DEF grantVars
  <1> QED BY <1>12, <1>13, <1>14 DEF Calmly

\* A step that changes neither the slots nor the holds keeps what they know.
LEMMA CalmElsewhere ==
    ASSUME CalmInv, Grows, UNCHANGED <<row, alloc, payout, ledger, at>>
    PROVE  CalmInv'
  <1>1. \A w \in Handlers : SlotOK(at[w]) => SlotOK(at[w])'
    BY DEF SlotOK
  <1>2. \A p \in Payouts : PayoutOK(p) => PayoutOK(p)'
    BY DEF PayoutOK, Busy
  <1> QED BY <1>1, <1>2 DEF CalmInv, Grows

LEMMA HoldsElsewhere ==
    ASSUME UNCHANGED <<row, alloc, at>>
    PROVE  /\ \A x \in Holds : Stage(x)' = Stage(x) /\ HoldAmount(x)' = HoldAmount(x)
           /\ \A w \in Handlers : Float(w)' = Float(w)
           /\ \A h \in Holds, g \in Grants : Held(h, g)' = Held(h, g)
           /\ \A w \in Handlers, g \in Grants : Flight(w, g)' = Flight(w, g)
  BY DEF Stage, HoldAmount, HoldCredits, Planned, Pending, Float, ToDrain, RestoredSoFar,
         Held, Flight, Undrained, Restored, IsNext

LEMMA SoundElsewhere ==
    ASSUME Grows, NEW g \in Grants, \A x \in disturbed : alloc'[x] = alloc[x], Sound(g)'
    PROVE  Sound(g)
  BY DEF Sound, Grows

LEMMA CalmDelta ==
    ASSUME Finite, TypeInv, TypeInv', RowsInv, CalmInv, CreditsConserved, Grows, RecordDelta
    PROVE  Calmly
  <1>1. PICK k \in Grants : Fills(k)
    BY DeltaFills
  <1>2. UNCHANGED <<row, alloc, payout, ledger, at>>
    BY <1>1 DEF Fills, holdVars, payoutVars
  <1> PICK d : d = issued'[k]
    OBVIOUS
  <1>t. d \in Int /\ d \in Deltas /\ issued \in [Grants -> Int] /\ remaining \in [Grants -> Int]
    BY <1>1 DEF TypeInv, TypeOK, Fills
  <1>3. /\ issued'[k] = d /\ remaining'[k] = d
        /\ \A g \in Grants \ {k} : issued'[g] = issued[g] /\ remaining'[g] = remaining[g]
    BY <1>1 DEF Fills
  <1>4. issued[k] = 0 /\ remaining[k] = 0
    BY <1>1 DEF RowsInv, Unissued, Fills
  <1>6. CalmInv'
    BY <1>2, CalmElsewhere
  <1>7. CreditsConserved'
    <2> SUFFICES ASSUME NEW g \in Grants, Sound(g)'
                 PROVE  issued'[g] =
                          remaining'[g] + SumFunction([x \in Holds |-> Held(x, g)])'
                          - SumFunction([v \in Handlers |-> Undrained(v, g) + Restored(v, g)])'
      BY DEF CreditsConserved
    <2> PICK H, F : /\ H = SumFunction([x \in Holds |-> Held(x, g)])
                    /\ F = SumFunction([v \in Handlers |-> Flight(v, g)])
      OBVIOUS
    <2>1. H \in Int /\ F \in Int
      BY HeldTypes, SumOfFunction, SumIsInteger DEF HeldTyped, Finite
    <2>2. /\ SumFunction([x \in Holds |-> Held(x, g)])' = H
          /\ SumFunction([v \in Handlers |-> Flight(v, g)])' = F
      BY <1>2, HoldsElsewhere
    <2>3. issued[g] = remaining[g] + H - F
      BY <1>2, SoundElsewhere DEF CreditsConserved, Flight
    <2>4. issued'[g] - issued[g] = remaining'[g] - remaining[g]
      BY <1>3, <1>4, <1>t
    <2>5. issued[g] \in Int /\ issued'[g] \in Int /\ remaining[g] \in Int /\ remaining'[g] \in Int
      BY <1>t DEF TypeInv, TypeOK
    <2>6. issued'[g] = remaining'[g] + H - F
      <3> PICK i, j, m, n : i = issued[g] /\ j = issued'[g] /\ m = remaining[g] /\ n = remaining'[g]
        OBVIOUS
      <3>1. i = m + H - F /\ j - i = n - m /\ i \in Int /\ j \in Int /\ m \in Int /\ n \in Int
        BY <2>3, <2>4, <2>5
      <3> QED BY <2>1, <3>1
    <2> QED BY <2>2, <2>6 DEF Flight
  <1>8. BankStep
    <2>1. /\ SumFunction(issued') = SumFunction(issued) + d
          /\ SumFunction(remaining') = SumFunction(remaining) + d
          /\ SumFunction(remaining) \in Int /\ SumFunction(remaining') \in Int
      <3>1. issued' \in [Grants -> Int] /\ remaining' \in [Grants -> Int]
        BY DEF TypeInv, TypeOK
      <3>2. /\ SumFunction(issued) \in Int
            /\ SumFunction(issued') = SumFunction(issued) + (issued'[k] - issued[k])
        BY <1>3, <1>t, <3>1, GrantsFinite, SumChanges
      <3>3. /\ SumFunction(remaining) \in Int /\ SumFunction(remaining') \in Int
            /\ SumFunction(remaining') = SumFunction(remaining) + (remaining'[k] - remaining[k])
        BY <1>3, <1>t, <3>1, GrantsFinite, SumChanges
      <3> QED BY <1>3, <1>4, <1>t, <3>2, <3>3
    <2>2. FreeBalance' = FreeBalance + d
      <3> PICK F : F = SumFunction([w \in Handlers |-> Float(w)])
        OBVIOUS
      <3>1. F \in Int
        BY FloatTypes, SumOfFunction, SumIsInteger DEF FloatTyped, Finite
      <3>2. SumFunction([w \in Handlers |-> Float(w)])' = F
        BY <1>2, HoldsElsewhere
      <3> QED BY <1>t, <2>1, <3>1, <3>2 DEF FreeBalance
    <2>3. \A x \in Holds : Stage(x)' = Stage(x) /\ HoldAmount(x)' = HoldAmount(x)
      BY <1>2, HoldsElsewhere
    <2>4. Bank!Issue
      BY <1>t, <2>1, <2>2, <2>3 DEF Bank!Issue
    <2> QED BY <2>4 DEF BankStep, Bank!Next
  <1> QED BY <1>6, <1>7, <1>8 DEF Calmly

LEMMA CalmInit ==
    ASSUME Finite, HistoryInit
    PROVE  CalmInv /\ CreditsConserved /\ Bank!Init
  <1>1. /\ \A w \in Handlers : at[w].pc = "idle" /\ at[w].todo = Nothing
        /\ \A h \in Holds : row[h] = "absent" /\ alloc[h] = Nothing
    BY DEF HistoryInit, Init, Idle
  <1>2. CalmInv
    <2>2. \A w \in Handlers : SlotOK(at[w])
      BY <1>1 DEF SlotOK
    <2>3. \A p \in Payouts : PayoutOK(p)
      BY <1>1, ConstantTypes DEF HistoryInit, Init, PayoutOK
    <2> QED BY <1>1, <2>2, <2>3 DEF CalmInv
  <1>3. CreditsConserved
    <2> SUFFICES ASSUME NEW g \in Grants
                 PROVE  issued[g] =
                          remaining[g] + SumFunction([x \in Holds |-> Held(x, g)])
                          - SumFunction([v \in Handlers |-> Undrained(v, g) + Restored(v, g)])
      BY DEF CreditsConserved
    <2>1. \A x \in Holds : [y \in Holds |-> Held(y, g)][x] = 0
      BY <1>1 DEF Held
    <2>2. SumFunction([x \in Holds |-> Held(x, g)]) = 0
      BY <2>1, SumOfFunction, SumOfNothing DEF Finite
    <2>3. \A v \in Handlers :
             [u \in Handlers |-> Undrained(u, g) + Restored(u, g)][v] = 0
      BY <1>1 DEF Undrained, Restored
    <2>4. SumFunction([v \in Handlers |-> Undrained(v, g) + Restored(v, g)]) = 0
      BY <2>3, SumOfFunction, SumOfNothing DEF Finite
    <2>5. issued[g] = 0 /\ remaining[g] = 0
      BY DEF HistoryInit, Init, Nothing
    <2> QED BY <2>2, <2>4, <2>5
  <1>4. Bank!Init
    <2>1. SumFunction(issued) = 0 /\ SumFunction(remaining) = 0
      BY NothingSums DEF HistoryInit, Init
    <2>2. \A v \in Handlers : [w \in Handlers |-> Float(w)][v] = 0
      BY <1>1 DEF Float, ToDrain, RestoredSoFar, Pending
    <2>3. FreeBalance = 0
      <3>1. SumFunction([w \in Handlers |-> Float(w)]) = 0
        BY <2>2, SumOfFunction, SumOfNothing DEF Finite
      <3> QED BY <2>1, <3>1 DEF FreeBalance
    <2>4. \A h \in Holds : Stage(h) = "free"
      BY <1>1 DEF Stage
    <2>5. ASSUME NEW h \in Holds PROVE HoldAmount(h) = 0
      <3>1. Apart /\ TypeInv /\ h \notin disturbed
        BY <1>1, TypeInit DEF HistoryInit, Apart, Busy
      <3>2. \A w \in Handlers : ~Pending(w)
        BY <1>1 DEF Pending
      <3>3. \A g \in Grants : HoldCredits(h, g) = 0
        BY <1>1, <1>2, <3>1, <3>2, CreditsOf DEF CreditsKnown, Nothing
      <3>4. [g \in Grants |-> HoldCredits(h, g)] = Nothing
        BY <3>3 DEF Nothing
      <3> QED BY <3>4, NothingSums DEF HoldAmount
    <2> QED BY <2>1, <2>3, <2>4, <2>5 DEF Bank!Init
  <1> QED BY <1>2, <1>3, <1>4

-----------------------------------------------------------------------------
(* Every step.                                                             *)

LEMMA CalmElse ==
    ASSUME Finite, CalmInv, CreditsConserved, Grows,
           UNCHANGED <<issued, remaining, row, alloc, payout, ledger, at>>
    PROVE  Calmly
  <1>1. CalmInv'
    BY CalmElsewhere
  <1>2. CreditsConserved'
    BY SoundElsewhere DEF CreditsConserved, Held, Undrained, Restored, IsNext
  <1>3. FreeBalance' = FreeBalance
    <2>1. \A w \in Handlers : Float(w)' = Float(w)
      BY HoldsElsewhere
    <2> QED BY <2>1 DEF FreeBalance
  <1>4. \A x \in Holds : Stage(x)' = Stage(x) /\ HoldAmount(x)' = HoldAmount(x)
    BY HoldsElsewhere
  <1> QED BY <1>1, <1>2, <1>3, <1>4, BankStutters DEF Calmly

\* A handler that dies before it wrote anything leaves nothing half done.
LEMMA CalmDeath ==
    ASSUME Finite, TypeInv, TypeInv', RowsInv, RowsInv', CalmInv, CreditsConserved,
           Apart, Apart', Grows, NEW w \in Handlers, Clean(w), Die(w), at[w].pc \notin Midway
    PROVE  Calmly
  <1> PICK t : t = at[w]
    OBVIOUS
  <1> PICK h : h = t.hold
    OBVIOUS
  <1>1. /\ t.pc \in {"list", "session", "post", "approve", "lookup"} /\ Return(w)
        /\ UNCHANGED <<grantVars, holdVars, payoutVars>>
    BY DEF Die, Midway, TypeInv, TypeOK, HandlerState, Labels
  <1>2. SlotOK(t)
    BY SlotKnown
  <1>3. h \in Payouts => h \notin Redemptions
    BY WalletAssumption
  <1>4. h \in Payouts => row[h] \in {"absent", "reserved"} /\ h \notin ledger
                         /\ payout[h] \in {"requested", "approved"}
    BY <1>1, <1>2, <1>3 DEF SlotOK
  <1>5. h \in Payouts => PayoutOK(h)'
    BY <1>1, <1>4 DEF PayoutOK, holdVars, payoutVars
  <1> QED BY <1>1, <1>5, CalmReturn DEF payoutVars

\* A move on a disturbed hold leaves the other holds alone, and touches only
\* grants that the hold took from.
LEMMA DirtyMove ==
    ASSUME Finite, TypeInv, TypeInv', RowsInv, RowsInv', CalmInv, CreditsConserved, Grows,
           NEW w \in Handlers, NEW h \in Holds, NEW s, Effect(w, s, h), h \in disturbed'
    PROVE  CalmInv' /\ CreditsConserved'
  <1>m. Moves(w, s, h)
    BY DEF Effect
  <1>t. at \in [Handlers -> HandlerState] /\ alloc \in [Holds -> [Grants -> Nat]]
        /\ disturbed \subseteq disturbed' /\ disturbed' \subseteq Holds
    BY DEF TypeInv, TypeOK, Grows
  <1>a. at'[w] = s /\ \A v \in Handlers \ {w} : at'[v] = at[v]
    BY <1>m, <1>t DEF Moves
  <1>1. CalmInv'
    <2>1. \A x \in Holds \ disturbed' : row'[x] = "absent" => alloc'[x] = Nothing
      BY <1>m, <1>t DEF Moves, CalmInv
    <2>2. ASSUME NEW v \in Handlers, at'[v].hold \notin disturbed' PROVE SlotOK(at[v])'
      <3>1. CASE v = w
        BY <1>a, <1>m, <2>2, <3>1 DEF Moves, SlotOK
      <3>2. CASE v # w
        <4> PICK t : t = at[v]
          OBVIOUS
        <4>1. at'[v] = t /\ t.hold # h /\ SlotOK(t)
          BY <1>a, <1>t, <2>2, <3>2 DEF CalmInv
        <4>2. CASE t.pc = "idle"
          BY <4>1, <4>2 DEF SlotOK
        <4>3. CASE t.pc # "idle"
          <5>1. t.hold \in Holds
            BY <4>1, <4>3 DEF SlotOK
          <5>2. row'[t.hold] = row[t.hold] /\ alloc'[t.hold] = alloc[t.hold]
            BY <1>m, <4>1, <5>1 DEF Moves
          <5>3. t.hold \in Payouts =>
                  payout'[t.hold] = payout[t.hold] /\ (t.hold \in ledger' <=> t.hold \in ledger)
            BY <1>m, <4>1 DEF Moves
          <5> QED BY <4>1, <5>2, <5>3 DEF SlotOK
        <4> QED BY <4>2, <4>3
      <3> QED BY <3>1, <3>2
    <2>3. ASSUME NEW p \in Payouts, p \notin disturbed' PROVE PayoutOK(p)'
      <3>1. /\ row'[p] = row[p] /\ payout'[p] = payout[p] /\ p # h
            /\ p \in ledger' <=> p \in ledger
        BY <1>m, <2>3, ConstantTypes DEF Moves
      <3>2. ASSUME NEW v \in Handlers, Busy(v), at[v].hold = p
            PROVE  Busy(v)' /\ at'[v].hold = p
        BY <1>a, <1>m, <3>1, <3>2 DEF Moves, Busy
      <3>3. PayoutOK(p)
        BY <1>t, <2>3 DEF CalmInv
      <3> QED BY <3>1, <3>2, <3>3 DEF PayoutOK
    <2> QED BY <2>1, <2>2, <2>3 DEF CalmInv
  <1>2. ASSUME NEW g \in Grants, Sound(g)'
        PROVE  issued'[g] =
                 remaining'[g] + SumFunction([x \in Holds |-> Held(x, g)])'
                 - SumFunction([v \in Handlers |-> Flight(v, g)])'
    <2>1. alloc'[h][g] = 0
      BY <1>2 DEF Sound
    <2>2. alloc[h][g] = 0 /\ remaining'[g] = remaining[g] /\ issued'[g] = issued[g]
      <3>1. CASE Keeps(w, s, h) \/ Plans(w, s, h)
        BY <2>1, <3>1 DEF Keeps, Plans, grantVars
      <3>2. ASSUME NEW k \in Grants, Allocates(w, s, h, k)
            PROVE  alloc[h][g] = 0 /\ remaining'[g] = remaining[g] /\ issued'[g] = issued[g]
        <4>1. g # k
          BY <2>1, <3>2 DEF Allocates, AtGrant
        <4> QED BY <2>1, <3>2, <4>1 DEF Allocates, grantVars
      <3>3. ASSUME NEW k \in Grants, Drains(w, s, h, k) \/ Restores(w, s, h, k)
            PROVE  alloc[h][g] = 0 /\ remaining'[g] = remaining[g] /\ issued'[g] = issued[g]
        <4>1. Takes(w, k) /\ Busy(w)
          BY <3>3 DEF Drains, Restores, AtGrant, TicksOff, Takes, Busy
        <4>2. alloc[h][k] > 0 /\ alloc' = alloc
          BY <1>m, <3>3, <4>1 DEF RowsInv, Moves, Drains, Restores
        <4>3. g # k
          BY <2>1, <4>2
        <4> QED BY <2>1, <3>3, <4>2, <4>3 DEF Drains, Restores
      <3> QED BY <3>1, <3>2, <3>3 DEF Effect
    <2>3. Sound(g)
      BY <1>2, <1>m, <1>t, <2>2 DEF Sound, Moves
    <2>4. \A x \in Holds : Held(x, g)' = Held(x, g)
      BY <1>m, <2>1, <2>2 DEF Held, Moves
    <2>5. ASSUME NEW v \in Handlers PROVE Flight(v, g)' = Flight(v, g)
      <3>1. ASSUME Busy(v), at[v].hold = h PROVE Flight(v, g) = 0
        <4>1. ~Takes(v, g) /\ at[v].todo[g] \in Nat
          BY <2>2, <3>1 DEF RowsInv, TypeInv, TypeOK, HandlerState
        <4>2. Undrained(v, g) = 0
          BY <4>1 DEF Undrained, IsNext, Takes, Oldest
        <4>3. Restored(v, g) = 0
          BY <2>2, <3>1, <4>1 DEF Restored, Takes
        <4> QED BY <4>2, <4>3 DEF Flight
      <3>2. ASSUME Busy(v)', at'[v].hold = h PROVE Flight(v, g)' = 0
        <4>1. ~Takes(v, g)' /\ at'[v].todo[g] \in Nat
          BY <2>1, <3>2 DEF RowsInv, TypeInv, TypeOK, HandlerState
        <4>2. Undrained(v, g)' = 0
          BY <4>1 DEF Undrained, IsNext, Takes, Oldest
        <4>3. Restored(v, g)' = 0
          BY <2>1, <3>2, <4>1 DEF Restored, Takes
        <4> QED BY <4>2, <4>3 DEF Flight
      <3>i. at[v].pc = "idle" => Flight(v, g) = 0
        BY DEF Flight, Undrained, Restored
      <3>j. at'[v].pc = "idle" => Flight(v, g)' = 0
        BY DEF Flight, Undrained, Restored
      <3>3. CASE v = w
        BY <1>a, <1>m, <3>1, <3>2, <3>3, <3>i, <3>j DEF Moves, Busy
      <3>4. CASE v # w /\ at[v].hold = h
        BY <1>a, <3>1, <3>2, <3>4, <3>i, <3>j DEF Busy
      <3>5. CASE v # w /\ at[v].hold # h
        <4>1. at'[v] = at[v]
          BY <1>a, <3>5
        <4>2. at[v].pc = "restore" => alloc'[at[v].hold] = alloc[at[v].hold]
          BY <1>m, <3>5 DEF RowsInv, Busy, Moves
        <4> QED BY <4>1, <4>2 DEF Flight, Undrained, Restored, IsNext
      <3> QED BY <3>3, <3>4, <3>5
    <2>6. issued[g] = remaining[g] + SumFunction([x \in Holds |-> Held(x, g)])
                      - SumFunction([v \in Handlers |-> Flight(v, g)])
      BY <2>3 DEF CreditsConserved, Flight
    <2>7. /\ [x \in Holds |-> Held(x, g)]' = [x \in Holds |-> Held(x, g)]
          /\ [v \in Handlers |-> Flight(v, g)]' = [v \in Handlers |-> Flight(v, g)]
      BY <2>4, <2>5
    <2> QED BY <2>2, <2>6, <2>7
  <1> QED BY <1>1, <1>2 DEF CreditsConserved, Flight

\* The holds two handlers have at once are disturbed.
MarkedInv ==
    /\ disturbed \subseteq Holds
    /\ \A h \in Holds : Shared(h) => h \in disturbed

LEMMA MarkedApart == RowsInv /\ MarkedInv => Apart
  <1> SUFFICES ASSUME RowsInv, MarkedInv, NEW v \in Handlers, NEW w \in Handlers,
                      v # w, Busy(v), Busy(w), at[v].hold = at[w].hold
               PROVE  at[v].hold \in disturbed
    BY DEF Apart
  <1>1. at[v].hold \in Holds
    BY DEF RowsInv
  <1>2. Shared(at[v].hold)
    BY DEF Shared, WorksOn
  <1> QED BY <1>1, <1>2 DEF MarkedInv

LEMMA MarkedApartNext == RowsInv' /\ MarkedInv' => Apart'
  BY MarkedApart, PTL

HistoryInv == TypeInv /\ RowsInv /\ CalmInv /\ CreditsConserved /\ MarkedInv

AroundDisturbed == \A h \in disturbed' : PassesBy(h)

LEMMA MarkedStep ==
    ASSUME HistoryInv, [HistoryNext]_historyVars
    PROVE  /\ [Next]_vars /\ TypeInv' /\ RowsInv' /\ MarkedInv' /\ Apart /\ Apart' /\ Grows
           /\ \A w \in Handlers :
                 Die(w) /\ Busy(w) /\ at[w].pc \in Midway => at[w].hold \in disturbed'
  <1>1. [Next]_vars
    BY HistoryStep
  <1>2. TypeInv' /\ RowsInv'
    BY <1>1, TypeStep, RowsStep DEF HistoryInv
  <1>3. CASE UNCHANGED historyVars
    <2>1. Grows /\ MarkedInv'
      BY <1>3 DEF HistoryInv, MarkedInv, Grows, Shared, WorksOn, Busy, historyVars, vars
    <2>2. \A w \in Handlers : ~Die(w)
      BY <1>3 DEF HistoryInv, TypeInv, TypeOK, Die, Return, Idle, historyVars, vars
    <2> QED BY <1>1, <1>2, <2>1, <2>2, MarkedApart, MarkedApartNext DEF HistoryInv
  <1>4. CASE HistoryNext
    <2>1. disturbed' = disturbed \cup {h \in Holds : Shared(h)' \/ LeftHalfDone(h)}
      BY <1>4 DEF HistoryNext
    <2>2. Grows /\ MarkedInv'
      BY <2>1 DEF HistoryInv, MarkedInv, Grows
    <2>3. ASSUME NEW w \in Handlers, Die(w), Busy(w), at[w].pc \in Midway
          PROVE  at[w].hold \in disturbed'
      <3>1. at[w].hold \in Holds
        BY <2>3 DEF HistoryInv, RowsInv
      <3>2. LeftHalfDone(at[w].hold)
        BY <2>3 DEF LeftHalfDone, WorksOn
      <3> QED BY <2>1, <3>1, <3>2
    <2> QED BY <1>1, <1>2, <2>2, <2>3, MarkedApart, MarkedApartNext DEF HistoryInv
  <1> QED BY <1>3, <1>4

\* An undisturbed hold that was settled keeps its row.
LEMMA SettledMove ==
    ASSUME TypeInv, CalmInv, Grows, NEW w \in Handlers, NEW h \in Holds, NEW s,
           Effect(w, s, h), NEW x \in Holds \ disturbed',
           row[x] \in {"posted", "sent", "released"}
    PROVE  row'[x] = row[x]
  <1>1. CASE x # h
    BY <1>1 DEF Effect, Moves
  <1>2. CASE x = h
    <2>1. at[w].pc \in {"list", "post", "lookup", "restore"} => row[h] \in {"absent", "reserved"}
      <3> SUFFICES ASSUME at[w].pc \in {"list", "post", "lookup", "restore"}
                   PROVE  row[h] \in {"absent", "reserved"}
        OBVIOUS
      <3>1. at[w].hold = h
        BY DEF Effect, Moves, Busy
      <3>2. SlotOK(at[w])
        BY <1>2, <3>1 DEF CalmInv, Grows
      <3> QED BY <3>1, <3>2 DEF SlotOK
    <2> QED BY <1>2, <2>1 DEF Effect, Keeps, Plans, Allocates, Drains, Restores
  <1> QED BY <1>1, <1>2

SettledStays ==
    \A h \in Holds \ disturbed' : row[h] \in {"posted", "sent", "released"} => row'[h] = row[h]

LEMMA EveryStep ==
    ASSUME Finite, HistoryInv, [HistoryNext]_historyVars
    PROVE  HistoryInv' /\ SettledStays /\ (AroundDisturbed => BankStep)
  <1>h. TypeInv /\ RowsInv /\ CalmInv /\ CreditsConserved
    BY DEF HistoryInv
  <1>k. /\ [Next]_vars /\ TypeInv' /\ RowsInv' /\ MarkedInv' /\ Apart /\ Apart' /\ Grows
        /\ \A w \in Handlers :
              Die(w) /\ Busy(w) /\ at[w].pc \in Midway => at[w].hold \in disturbed'
    BY MarkedStep
  <1>1. CASE UNCHANGED <<grantVars, holdVars, payoutVars, at>>
    <2>1. UNCHANGED <<issued, remaining, row, alloc, payout, ledger, at>>
      BY <1>1 DEF grantVars, holdVars, payoutVars
    <2>2. Calmly
      BY <1>h, <1>k, <2>1, CalmElse
    <2> QED BY <1>k, <2>1, <2>2 DEF Calmly, HistoryInv, SettledStays
  <1>2. CASE RecordDelta
    <2>1. Calmly
      BY <1>h, <1>k, <1>2, CalmDelta
    <2>2. row' = row
      BY <1>2 DEF RecordDelta, holdVars
    <2> QED BY <1>k, <2>1, <2>2 DEF Calmly, HistoryInv, SettledStays
  <1>3. ASSUME NEW w \in Handlers,
               \/ w \in Reservers /\ Reserving(w)
               \/ w \in Finishers /\ Finishing(w)
               \/ Advance(w) \/ Die(w)
        PROVE  HistoryInv' /\ SettledStays /\ (AroundDisturbed => BankStep)
    <2>1. PICK h \in Holds : \E s : Effect(w, s, h)
      BY <1>3, <1>h, StartsEffect, AdvanceEffect
    <2>2. PICK s : Effect(w, s, h)
      BY <2>1
    <2>3. SettledStays
      BY <1>h, <1>k, <2>2, SettledMove DEF SettledStays
    <2>4. CASE Clean(w)
      <3>1. ASSUME Advance(w) PROVE Calmly
        BY <1>h, <1>k, <2>4, <3>1, CalmQuietly, CalmReserve, CalmAllocate, CalmDrain,
           CalmRestore, CalmRelease DEF Advance
      <3>2. ASSUME Die(w) PROVE Calmly
        <4>1. at[w].pc \notin Midway
          BY <1>k, <2>4, <3>2 DEF Clean, Die, Busy
        <4> QED BY <1>h, <1>k, <2>4, <3>2, <4>1, CalmDeath
      <3>3. Calmly
        BY <1>3, <1>h, <1>k, <2>4, <3>1, <3>2, CalmReserving, CalmFinishing
      <3> QED BY <1>k, <2>3, <3>3 DEF Calmly, HistoryInv
    <2>5. CASE ~Clean(w)
      <3>1. at'[w] = s /\ Moves(w, s, h) /\ s # at[w]
        BY <1>h, <2>2 DEF Effect, Moves, TypeInv, TypeOK
      <3>2. h \in disturbed' /\ (WorksOn(w, h) \/ WorksOn(w, h)')
        BY <2>5, <3>1 DEF Clean, Moves, WorksOn, Busy
      <3>3. CalmInv' /\ CreditsConserved'
        BY <1>h, <1>k, <2>2, <3>2, DirtyMove
      <3>4. ~AroundDisturbed
        BY <3>1, <3>2 DEF AroundDisturbed, PassesBy
      <3> QED BY <1>k, <2>3, <3>3, <3>4 DEF HistoryInv
    <2> QED BY <2>4, <2>5
  <1>4. Reservers \subseteq Handlers /\ Finishers \subseteq Handlers
    BY DEF Handlers
  <1>5. CASE \/ \E h \in Redemptions : CompleteSession(h) \/ ExpireSession(h)
             \/ UNCHANGED vars
    BY <1>1, <1>5 DEF CompleteSession, ExpireSession, SettleSession, vars
  <1> QED BY <1>k, <1>2, <1>3, <1>4, <1>5 DEF Next

LEMMA HistoryStart ==
    ASSUME Finite, HistoryInit
    PROVE  HistoryInv /\ Bank!Init
  <1>1. MarkedInv
    BY DEF HistoryInit, Init, MarkedInv, Shared, WorksOn, Busy, Idle
  <1>2. TypeInv /\ RowsInv
    BY TypeInit, RowsInit DEF HistoryInit
  <1> QED BY <1>1, <1>2, CalmInit DEF HistoryInv

-----------------------------------------------------------------------------
(* What holds of the wallet, with any number of handlers that race on any  *)
(* holds and die anywhere.                                                 *)

\* Credits are conserved through every statement of every handler, grant by
\* grant, but for the grants a disturbed hold took from.
THEOREM ConservedAroundRaces ==
    ASSUME Finite
    PROVE  HistorySpec => []CreditsConserved
  <1>1. HistoryInit => HistoryInv
    BY HistoryStart
  <1>2. HistoryInv /\ [HistoryNext]_historyVars => HistoryInv'
    BY EveryStep
  <1>3. HistoryInv => CreditsConserved
    BY DEF HistoryInv
  <1> QED
    BY <1>1, <1>2, <1>3, PTL DEF HistorySpec

\* An undisturbed hold that was posted, sent or released stays so, whatever
\* webhooks, release requests and admin requests arrive late or again.
THEOREM SettlesOnce ==
    ASSUME Finite
    PROVE  HistorySpec => SettledOnce
  <1>1. HistoryInit => HistoryInv
    BY HistoryStart
  <1>2. HistoryInv /\ [HistoryNext]_historyVars => HistoryInv' /\ SettledStays
    BY EveryStep
  <1> QED
    BY <1>1, <1>2, PTL DEF HistorySpec, SettledOnce, SettledStays

\* An undisturbed payout with no handler at work on it, its reservation and the
\* ledger tell one story, though other handlers race and die around it.
THEOREM PayoutTellsOneStory ==
    ASSUME Finite
    PROVE  HistorySpec => []PayoutTablesAgree
  <1>1. HistoryInit => HistoryInv
    BY HistoryStart
  <1>2. HistoryInv /\ [HistoryNext]_historyVars => HistoryInv'
    BY EveryStep
  <1>3. HistoryInv => PayoutTablesAgree
    <2> SUFFICES ASSUME HistoryInv, NEW p \in Payouts \ disturbed,
                        \A w \in Handlers : ~WorksOn(w, p)
                 PROVE  /\ row[p] = "reserved" => payout[p] \in {"requested", "approved"}
                        /\ payout[p] = "sent" <=> row[p] = "sent"
                        /\ payout[p] \in {"failed", "cancelled"} <=> row[p] = "released"
                        /\ payout[p] = "sent" <=> p \in ledger
      BY DEF PayoutTablesAgree
    <2>1. payout[p] \in PayoutStatus
      BY DEF HistoryInv, TypeInv, TypeOK
    <2>2. PayoutOK(p)
      BY DEF HistoryInv, CalmInv
    <2>3. \A w \in Handlers : ~(Busy(w) /\ at[w].hold = p)
      BY DEF WorksOn
    <2> QED BY <2>1, <2>2, <2>3 DEF PayoutOK, PayoutStatus
  <1> QED
    BY <1>1, <1>2, <1>3, PTL DEF HistorySpec

\* The wallet is a CreditBank to every undisturbed hold: a statement of a handler
\* on one, a grant and a session are one operation of the bank or none, though
\* other holds have been disturbed.
THEOREM BankAroundRaces ==
    ASSUME Finite
    PROVE  HistorySpec => ImplementsBank
  <1>1. HistoryInit => HistoryInv /\ Bank!Init
    BY HistoryStart
  <1>2. HistoryInv /\ [HistoryNext]_historyVars
          => HistoryInv' /\ (AroundDisturbed => BankStep)
    BY EveryStep
  <1> QED
    BY <1>1, <1>2, PTL DEF HistorySpec, ImplementsBank, AroundDisturbed, BankStep
=============================================================================
