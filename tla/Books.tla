------------------------------- MODULE Books -------------------------------
(***************************************************************************)
(* The books of one tenant as the back office writes and reads them:       *)
(* manual adjustments, which post a ledger entry and then a wallet grant,  *)
(* and settlement cycles, whose opening and closing sum up what the tenant *)
(* owes its users.  Rewards are scheduled and posted meanwhile by the      *)
(* worker, in Credits.                                                     *)
(*                                                                         *)
(* A step is one statement, a ledger entry with its postings is one        *)
(* transaction.  A request may throw or die between any two.               *)
(***************************************************************************)
EXTENDS Integers, FiniteSets, FiniteSetsExt

CONSTANTS
    Users,
    Base,           \* tenant.baseCurrency
    Credit,         \* the currency of rewards
    MaxAdjustments, \* bound: adjustments admins make
    Requests,       \* what they ask for: user, currency and amount, maybe negative
    Rewarded,       \* users who have a scheduledPosting, one each
    Cycles,         \* settlementCycle rows
    Admins,         \* requests that run at once
    None

Currencies == {Base, Credit}
Adjustments == 1..MaxAdjustments
NoAdjustment == [user |-> None, currency |-> None, amount |-> 0]

VARIABLES
    accounts,   \* user_balance ledgerAccount rows, <<user, currency>>
    expenses,   \* number of tenant_reward_expense rows per currency
    wallets,    \* users with a walletAccount row
    adjustment, \* user, currency and amount of each adjustment begun
    entries,    \* adjustments whose ledger entry is posted
    grants,     \* adjustments whose walletGrant is there
    reward,     \* scheduledPosting.status of each reward
    cycle,      \* settlementCycle rows, with the figure that was stored
    desk        \* control state and locals of each request

ledgerVars == <<accounts, expenses, adjustment, entries, reward>>
walletVars == <<wallets, grants>>
vars == <<ledgerVars, walletVars, cycle, desk>>

Idle == [pc |-> "idle", id |-> None, todo |-> {}, sum |-> 0, begun |-> {}]
NoCycle == [status |-> "none", figure |-> 0]

\* Every row and local is of its type.
TypeOK ==
    /\ accounts \subseteq Users \X Currencies
    /\ expenses \in [Currencies -> Nat]
    /\ wallets \subseteq Users
    /\ \A n \in Adjustments : adjustment[n] \in Requests \cup {NoAdjustment}
    /\ entries \subseteq Adjustments /\ grants \subseteq Adjustments
    /\ reward \in [Rewarded -> {"none", "pending", "posted"}]
    /\ cycle \in [Cycles -> [status : {"none", "open", "closed"}, figure : Nat]]
    /\ desk \in [Admins ->
          [pc : {"idle", "account", "create_account", "expense", "create_expense", "entry",
                 "wallet", "create_wallet", "grant", "open", "close", "open_sum",
                 "close_sum"},
           id : Adjustments \cup Cycles \cup {None},
           todo : SUBSET (Users \X Currencies), sum : Nat,
           begun : SUBSET Adjustments]]

Init ==
    /\ accounts = {} /\ expenses = [c \in Currencies |-> 0] /\ wallets = {}
    /\ adjustment = [n \in Adjustments |-> NoAdjustment]
    /\ entries = {} /\ grants = {}
    /\ reward = [u \in Rewarded |-> "none"]
    /\ cycle = [k \in Cycles |-> NoCycle]
    /\ desk = [a \in Admins |-> Idle]

At(a, pc) == desk[a].pc = pc
Goto(a, pc) == desk' = [desk EXCEPT ![a].pc = pc]
Return(a) == desk' = [desk EXCEPT ![a] = Idle]

\* What a ledger account's postings sum up to: the tenant owes what is below 0.
Balance(account) ==
    -(SumFunctionOnSet([n \in Adjustments |-> adjustment[n].amount],
          {n \in entries : <<adjustment[n].user, adjustment[n].currency>> = account})
      + Cardinality({u \in Rewarded : reward[u] = "posted" /\ <<u, Credit>> = account}))

-----------------------------------------------------------------------------
(* createManualAdjustment.                                                 *)

Mine(a) == adjustment[desk[a].id]

CreateManualAdjustment(a, n, asked) ==
    /\ At(a, "idle")
    /\ n = 1 + Cardinality({m \in Adjustments : adjustment[m] # NoAdjustment})
    /\ adjustment' = [adjustment EXCEPT ![n] = asked]
    /\ desk' = [desk EXCEPT ![a] = [Idle EXCEPT !.pc = "account", !.id = n]]
    /\ UNCHANGED <<accounts, expenses, entries, reward, walletVars, cycle>>

\* ensureUserBalanceAccount: unique by user and currency, so the second of two
\* requests that both found nothing throws.
FindUserAccount(a) ==
    /\ At(a, "account")
    /\ Goto(a, IF <<Mine(a).user, Mine(a).currency>> \in accounts
               THEN "expense" ELSE "create_account")
    /\ UNCHANGED <<ledgerVars, walletVars, cycle>>

CreateUserAccount(a) ==
    /\ At(a, "create_account")
    /\ <<Mine(a).user, Mine(a).currency>> \notin accounts
    /\ accounts' = accounts \cup {<<Mine(a).user, Mine(a).currency>>}
    /\ Goto(a, "expense")
    /\ UNCHANGED <<expenses, adjustment, entries, reward, walletVars, cycle>>

\* ensureSystemAccount: its key holds a NULL, so nothing stops a second row.
FindExpenseAccount(a) ==
    /\ At(a, "expense")
    /\ Goto(a, IF expenses[Mine(a).currency] > 0 THEN "entry" ELSE "create_expense")
    /\ UNCHANGED <<ledgerVars, walletVars, cycle>>

CreateExpenseAccount(a) ==
    /\ At(a, "create_expense")
    /\ expenses' = [expenses EXCEPT ![Mine(a).currency] = @ + 1]
    /\ Goto(a, "entry")
    /\ UNCHANGED <<accounts, adjustment, entries, reward, walletVars, cycle>>

\* postEntry: the key is a new UUID, so nothing is ever taken for a duplicate.
PostEntry(a) ==
    /\ At(a, "entry")
    /\ entries' = entries \cup {desk[a].id}
    /\ Goto(a, "wallet")
    /\ UNCHANGED <<accounts, expenses, adjustment, reward, walletVars, cycle>>

FindWallet(a) ==
    /\ At(a, "wallet")
    /\ Goto(a, IF Mine(a).user \in wallets THEN "grant" ELSE "create_wallet")
    /\ UNCHANGED <<ledgerVars, walletVars, cycle>>

\* ensureAccount: unique by user and currency; the second of two throws.
CreateWallet(a) ==
    /\ At(a, "create_wallet") /\ Mine(a).user \notin wallets
    /\ wallets' = wallets \cup {Mine(a).user}
    /\ Goto(a, "grant")
    /\ UNCHANGED <<ledgerVars, grants, cycle>>

RecordDelta(a) ==
    /\ At(a, "grant")
    /\ grants' = grants \cup {desk[a].id}
    /\ Return(a)
    /\ UNCHANGED <<ledgerVars, wallets, cycle>>

-----------------------------------------------------------------------------
(* The worker schedules and posts rewards; scheduling makes the account.   *)

ScheduleReward(u) ==
    /\ reward[u] = "none"
    /\ reward' = [reward EXCEPT ![u] = "pending"]
    /\ accounts' = accounts \cup {<<u, Credit>>}
    /\ UNCHANGED <<expenses, adjustment, entries, walletVars, cycle, desk>>

PostReward(u) ==
    /\ reward[u] = "pending"
    /\ reward' = [reward EXCEPT ![u] = "posted"]
    /\ UNCHANGED <<accounts, expenses, adjustment, entries, walletVars, cycle, desk>>

-----------------------------------------------------------------------------
(* Settlement cycles.                                                      *)

\* Mutant of Owed: what a user owes the tenant offsets what others are owed.
NetOwed(account) == -Balance(account)

\* The part of the liability one account adds: a positive balance adds nothing.
Owed(account) == IF Balance(account) < 0 THEN -Balance(account) ELSE 0

\* computeSnapshot first lists the user_balance accounts of the cycle's currency...
StartSnapshot(a, k, pc) ==
    desk' = [desk EXCEPT ![a] = [pc |-> pc, id |-> k, sum |-> 0, begun |-> entries,
                                 todo |-> {acc \in accounts : acc[2] = Base}]]

\* openCycle refuses while a cycle is open, by a read of its own...
OpenCycle(a, k) ==
    /\ At(a, "idle") /\ cycle[k].status = "none"
    /\ \A other \in Cycles : cycle[other].status # "open"
    /\ desk' = [desk EXCEPT ![a] = [Idle EXCEPT !.pc = "open", !.id = k]]
    /\ UNCHANGED <<ledgerVars, walletVars, cycle>>

\* ...and closeCycle refuses unless the cycle was open when it was read.
CloseCycle(a, k) ==
    /\ At(a, "idle") /\ cycle[k].status = "open"
    /\ desk' = [desk EXCEPT ![a] = [Idle EXCEPT !.pc = "close", !.id = k]]
    /\ UNCHANGED <<ledgerVars, walletVars, cycle>>

ListAccounts(a) ==
    /\ desk[a].pc \in {"open", "close"}
    /\ StartSnapshot(a, desk[a].id, IF At(a, "open") THEN "open_sum" ELSE "close_sum")
    /\ UNCHANGED <<ledgerVars, walletVars, cycle>>

\* ...then sums them up, one query for each...
SumAccount(a, account) ==
    /\ desk[a].pc \in {"open_sum", "close_sum"}
    /\ account \in desk[a].todo
    /\ desk' = [desk EXCEPT ![a].todo = @ \ {account}, ![a].sum = @ + Owed(account)]
    /\ UNCHANGED <<ledgerVars, walletVars, cycle>>

\* ...then adds the pending rewards of its currency.  Rewards are in Credits
\* and a tenant's currency has three letters, so none ever is.
PendingOwed ==
    Cardinality({u \in Rewarded : reward[u] = "pending" /\ Credit = Base})

StoreCycle(a, pc, status) ==
    /\ At(a, pc) /\ desk[a].todo = {}
    /\ cycle' = [cycle EXCEPT ![desk[a].id] =
          [status |-> status, figure |-> desk[a].sum + PendingOwed]]
    /\ Return(a)
    /\ UNCHANGED <<ledgerVars, walletVars>>

\* create: another request may have opened one since; ids are fresh.
CreateCycle(a) ==
    /\ At(a, "open_sum") /\ cycle[desk[a].id].status = "none"
    /\ StoreCycle(a, "open_sum", "open")

\* update by id, whatever the status is by now.
UpdateCycle(a) == StoreCycle(a, "close_sum", "closed")

-----------------------------------------------------------------------------
\* A request throws, also on losing a race for a unique row, or dies.  Nothing
\* is undone: an entry may stay without its grant.
Throw(a) ==
    /\ ~At(a, "idle")
    /\ Return(a)
    /\ UNCHANGED <<ledgerVars, walletVars, cycle>>

Next ==
    \/ \E u \in Rewarded : ScheduleReward(u) \/ PostReward(u)
    \/ \E a \in Admins :
          \/ \E n \in Adjustments, asked \in Requests : CreateManualAdjustment(a, n, asked)
          \/ FindUserAccount(a) \/ CreateUserAccount(a)
          \/ FindExpenseAccount(a) \/ CreateExpenseAccount(a)
          \/ PostEntry(a) \/ FindWallet(a) \/ CreateWallet(a) \/ RecordDelta(a)
          \/ \E k \in Cycles : OpenCycle(a, k) \/ CloseCycle(a, k)
          \/ ListAccounts(a) \/ \E account \in accounts : SumAccount(a, account)
          \/ CreateCycle(a) \/ UpdateCycle(a)
          \/ Throw(a)

Spec == Init /\ [][Next]_vars

-----------------------------------------------------------------------------
(* Properties.                                                             *)

\* What the tenant owes in its currency, user by user.
Liability ==
    SumFunctionOnSet([u \in Users |-> Max({0, -Balance(<<u, Base>>)})], Users)

\* A cycle is stored with what the tenant owed its users at that moment, unless
\* an adjustment was posted while the figures were read: a user in debt does
\* not lower what others are owed, and nobody is counted twice.
StoresLiability ==
    \A a \in Admins :
        /\ CreateCycle(a) \/ UpdateCycle(a)
        /\ desk[a].begun = entries
        => cycle'[desk[a].id].figure = Liability
CycleIsOwed == [][StoresLiability]_vars
=============================================================================
