------------------------------ MODULE KapookTx ------------------------------
(***************************************************************************)
(* The transactions of Kapook, statement by statement.  A request runs its *)
(* statements one after the other; each takes the row locks PostgreSQL     *)
(* takes for it under READ COMMITTED (SELECT ... FOR UPDATE, UPDATE, and   *)
(* the key-share lock on a referenced row behind every INSERT), waits for  *)
(* them if need be, and may find that the request must be refused.  What a *)
(* request writes becomes visible when it commits; locks are held until    *)
(* then.  A request may fail at any point and then leaves nothing behind,  *)
(* and the database breaks a deadlock by failing one of its members.       *)
(*                                                                         *)
(* Two reads escape the locks, because the code sends them past the        *)
(* transaction: the look-up of an active goal before CreateGoal inserts,   *)
(* and the goal SettleMaturedHolding reads (the mode "read" below).        *)
(*                                                                         *)
(* Draw days, retired products and the clock are Kapook's subject and      *)
(* stand still here.                                                       *)
(***************************************************************************)
EXTENDS Integers, Sequences, FiniteSets

CONSTANTS
    Session,           \* requests the server works on at once
    User, Product, GoalId, HoldingId, NoGoal, Rules, Amount, StartingBalance,
    MaxWithdrawals,    \* bound: withdrawals per goal
    Operation          \* the operations customers and the bank ask for

VARIABLES
    balance,     \* of the account <<kind, owner>>
    accepted,    \* users who accepted the kapook terms
    goals,       \* committed rows of kapook.kapook_goals
    holdings,    \* committed rows of salak.holdings
    tx           \* the transaction each session is in

vars == <<balance, accepted, goals, holdings, tx>>

Account == {"savings", "kapook", "salak"} \X User

Goal == [owner : User, product : Product, goalAmount : Nat,
         savingAmount : Nat, salakAmount : Nat, bought : Nat,
         isActive : BOOLEAN, reached : BOOLEAN,
         fees : Seq(BOOLEAN)]          \* its withdrawals: was a fee charged?

Holding == [owner : User, product : Product, amount : Nat,
            goal : GoalId \cup {NoGoal}, settled : BOOLEAN]

(***************************************************************************)
(* The committed rows are a state of Kapook: one product catalogue, one    *)
(* moment, no draw day.                                                    *)
(***************************************************************************)
AsGoal(row) ==
    [owner |-> row.owner, product |-> row.product, goalAmount |-> row.goalAmount,
     savingAmount |-> row.savingAmount, salakAmount |-> row.salakAmount,
     bought |-> row.bought, isActive |-> row.isActive,
     goalReachedAt |-> IF row.reached THEN 0 ELSE -1,
     deferredUntil |-> -1, attempts |-> 0, createdAt |-> 0,
     withdrawals |-> [i \in 1..Len(row.fees) |-> [at |-> 0, withFee |-> row.fees[i]]]]

AsHolding(row) ==
    [owner |-> row.owner, product |-> row.product, amount |-> row.amount,
     units |-> row.amount \div Rules[row.product].unit,
     goal |-> row.goal, settled |-> row.settled]

K == INSTANCE Kapook WITH
        savings <- [u \in User |-> balance[<<"savings", u>>]],
        kapook  <- [u \in User |-> balance[<<"kapook", u>>]],
        salak   <- [u \in User |-> balance[<<"salak", u>>]],
        bank    <- [u \in User |-> StartingBalance - balance[<<"savings", u>>]
                        - balance[<<"kapook", u>>] - balance[<<"salak", u>>]],
        goals    <- [g \in DOMAIN goals |-> AsGoal(goals[g])],
        holdings <- [h \in DOMAIN holdings |-> AsHolding(holdings[h])],
        productActive <- [p \in Product |-> TRUE],
        now <- 0, DrawDay <- {}, DayLength <- 1, Countdown <- 0, Year <- 1,
        SearchLimit <- 0, MaxNow <- 0, MaxAttempts <- 0

ASSUME RulesAssumption == Rules \in [Product -> K!RuleSet]
ASSUME NameAssumption == NoGoal \notin GoalId /\ "idle" \notin Operation
ASSUME AmountAssumption == Amount \subseteq Int /\ StartingBalance \in Nat
ASSUME BoundAssumption == IsFiniteSet(Session) /\ MaxWithdrawals \in Nat

-----------------------------------------------------------------------------
(***************************************************************************)
(* Statements and locks.                                                   *)
(***************************************************************************)
Idle == [op |-> "idle", done |-> 0]

Transaction ==
    [op : Operation, user : User, product : Product, goal : GoalId \cup {NoGoal},
     holding : HoldingId \cup {NoGoal}, amount : Nat,
     done : Nat,                       \* statements that have run
     seen : Goal \cup {Idle}]          \* the goal row as it was read

TypeOK ==
    /\ balance \in [Account -> Nat]
    /\ accepted \subseteq User
    /\ DOMAIN goals \subseteq GoalId /\ goals \in [DOMAIN goals -> Goal]
    /\ DOMAIN holdings \subseteq HoldingId
    /\ holdings \in [DOMAIN holdings -> Holding]
    /\ tx \in [Session -> Transaction \cup {Idle}]

Busy(s) == tx[s] # Idle

Available(goal) == goal.savingAmount - goal.salakAmount

ActiveGoals(u) == {g \in DOMAIN goals : goals[g].owner = u /\ goals[g].isActive}

(* What a statement does to its row: lock it and read it, overwrite a      *)
(* column, reference it by a foreign key, or read it without a lock.       *)
Update(row) == [row |-> row, mode |-> "update"]
Write(row)  == [row |-> row, mode |-> "write"]
Share(row)  == [row |-> row, mode |-> "share"]
Read(row)   == [row |-> row, mode |-> "read"]

(***************************************************************************)
(* Faults.  Each replaces the definition below whose name it starts with.  *)
(***************************************************************************)
DepositStatements_DebitFirst(t) ==         \* debits before it locks the goal
    <<Update(<<"savings", t.user>>), Update(<<"goal", t.goal>>),
      Update(<<"kapook", t.user>>)>>

WithdrawStatements_CountFirst(t) ==        \* reads and counts without a lock
    <<Read(<<"goal", t.goal>>), Update(<<"kapook", t.user>>),
      Update(<<"savings", t.user>>), Write(<<"goal", t.goal>>)>>

SettleStatements_GoalFirst(t) ==           \* reads the goal before the debit
    IF t.goal = NoGoal
    THEN <<Update(<<"holding", t.holding>>), Update(<<"salak", t.user>>),
           Update(<<"savings", t.user>>)>>
    ELSE <<Update(<<"holding", t.holding>>), Read(<<"goal", t.goal>>),
           Update(<<"salak", t.user>>), Update(<<"savings", t.user>>),
           Write(<<"goal", t.goal>>), Share(<<"kapook", t.user>>)>>

Purchase(funding, t) ==        \* mintAndSettle
    <<Update(<<funding, t.user>>), Update(<<"tickets", t.product>>),
      Share(<<"salak", t.user>>), Update(<<"salak", t.user>>)>>

DepositStatements(t) ==
    <<Update(<<"goal", t.goal>>), Update(<<"kapook", t.user>>),
      Update(<<"savings", t.user>>)>>

WithdrawStatements(t) ==
    <<Update(<<"goal", t.goal>>), Update(<<"kapook", t.user>>),
      Update(<<"savings", t.user>>)>>

BuyFromGoalStatements(t) ==
    <<Update(<<"goal", t.goal>>)>> \o Purchase("kapook", t)

SettleStatements(t) ==
    <<Update(<<"holding", t.holding>>), Update(<<"salak", t.user>>),
      Update(<<"savings", t.user>>)>>
    \o IF t.goal = NoGoal THEN <<>>
       ELSE <<Read(<<"goal", t.goal>>), Write(<<"goal", t.goal>>),
              Share(<<"kapook", t.user>>)>>

Statements(t) ==
    CASE t.op = "CreateGoal"           -> <<Share(<<"kapook", t.user>>)>>
      [] t.op = "Deposit"              -> DepositStatements(t)
      [] t.op = "Withdraw"             -> WithdrawStatements(t)
      [] t.op = "BuyFromGoal"          -> BuyFromGoalStatements(t)
      [] t.op = "BuySalak"             -> Purchase("savings", t)
      [] t.op = "SettleMaturedHolding" -> SettleStatements(t)
      [] OTHER                         -> <<>>

Remaining(t) == t.done < Len(Statements(t))

Conflict(st1, st2) ==
    /\ st1.row = st2.row
    /\ "read" \notin {st1.mode, st2.mode}
    /\ {st1.mode, st2.mode} # {"share"}

(* The sessions whose locks the next statement of s has to wait for.       *)
WaitsFor(s) ==
    {o \in Session \ {s} :
        /\ Remaining(tx[s])
        /\ \E i \in 1..tx[o].done :
              Conflict(Statements(tx[s])[tx[s].done + 1], Statements(tx[o])[i])}

(* The row a statement's Debit draws on.                                   *)
Debited(t) ==
    CASE t.op \in {"Deposit", "BuySalak"}      -> <<"savings", t.user>>
      [] t.op \in {"Withdraw", "BuyFromGoal"}  -> <<"kapook", t.user>>
      [] t.op = "SettleMaturedHolding"         -> <<"salak", t.user>>
      [] OTHER                                 -> <<"goal", t.goal>>

Covers(account, a) == balance[account] >= a

(* What is asked of the goal once its row is locked and read again.        *)
GoalAccepts(t, goal) ==
    /\ goal.isActive
    /\ t.op = "Deposit" => goal.savingAmount + t.amount <= goal.goalAmount
    /\ t.op = "Withdraw" =>
          /\ t.amount <= Available(goal)
          /\ goal.reached => t.amount = Available(goal)
    /\ t.op = "BuyFromGoal" =>
          /\ Available(goal) >= Rules[goal.product].min
          /\ K!ValidatePurchase(goal.product, t.amount)
          /\ t.amount <= Available(goal)

(* Whether the request survives the statement st.                          *)
Accepts(t, st) ==
    /\ st = Update(<<"goal", t.goal>>) => GoalAccepts(t, goals[t.goal])
    /\ st = Update(<<"holding", t.holding>>) => ~ holdings[t.holding].settled
    /\ st = Update(Debited(t)) =>
          /\ Covers(st.row, t.amount)
          /\ t.op \in {"BuyFromGoal", "BuySalak"} => K!Units(t.product, t.amount) > 0

AfterStatement(t, st) ==
    IF st \in {Update(<<"goal", t.goal>>), Read(<<"goal", t.goal>>)}
    THEN [t EXCEPT !.done = t.done + 1, !.seen = goals[t.goal]]
    ELSE [t EXCEPT !.done = t.done + 1]

-----------------------------------------------------------------------------
(***************************************************************************)
(* Requests.  Identifiers are drawn when the request begins; nothing       *)
(* depends on the moment a uuid is made.                                   *)
(***************************************************************************)
InFlight(op) == {s \in Session : tx[s].op = op}

FreshGoal == GoalId \ (DOMAIN goals \cup {tx[s].goal : s \in InFlight("CreateGoal")})

FreshHolding ==
    HoldingId \ (DOMAIN holdings \cup
        {tx[s].holding : s \in InFlight("BuySalak") \cup InFlight("BuyFromGoal")})

Begin(s, op, u, p, g, h, a) ==
    /\ tx[s] = Idle
    /\ op \in Operation
    /\ tx' = [tx EXCEPT ![s] =
                 [op |-> op, user |-> u, product |-> p, goal |-> g, holding |-> h,
                  amount |-> a, done |-> 0, seen |-> Idle]]
    /\ UNCHANGED <<balance, accepted, goals, holdings>>

BeginCreateGoal(s) ==
    \E u \in User, p \in Product, a \in Amount, g \in FreshGoal :
        /\ u \in accepted
        /\ ActiveGoals(u) = {}
        /\ K!ValidatePurchase(p, a)
        /\ Begin(s, "CreateGoal", u, p, g, NoGoal, a)

BeginDeposit(s) ==
    \E u \in User, a \in Amount : \E g \in ActiveGoals(u) :
        /\ a > 0
        /\ Begin(s, "Deposit", u, goals[g].product, g, NoGoal, a)

BeginWithdraw(s) ==
    \E u \in User, a \in Amount : \E g \in ActiveGoals(u) :
        /\ a > 0
        /\ Len(goals[g].fees) + Cardinality(InFlight("Withdraw")) < MaxWithdrawals
        /\ Begin(s, "Withdraw", u, goals[g].product, g, NoGoal, a)

BeginBuyFromGoal(s) ==
    \E u \in User, a \in Amount, h \in FreshHolding : \E g \in ActiveGoals(u) :
        /\ a > 0
        /\ Begin(s, "BuyFromGoal", u, goals[g].product, g, h, a)

BeginBuySalak(s) ==
    \E u \in User, p \in Product, a \in Amount, h \in FreshHolding :
        /\ K!ValidatePurchase(p, a)
        /\ Begin(s, "BuySalak", u, p, NoGoal, h, a)

BeginSettleMaturedHolding(s) ==
    \E h \in DOMAIN holdings :
        Begin(s, "SettleMaturedHolding", holdings[h].owner, holdings[h].product,
              holdings[h].goal, h, holdings[h].amount)

RunStatement(s) ==
    LET t  == tx[s]
        st == Statements(t)[t.done + 1]
    IN  /\ Remaining(t)
        /\ WaitsFor(s) = {}
        /\ tx' = [tx EXCEPT ![s] = IF Accepts(t, st) THEN AfterStatement(t, st)
                                       ELSE Idle]
        /\ UNCHANGED <<balance, accepted, goals, holdings>>

-----------------------------------------------------------------------------
(***************************************************************************)
(* Commits: the columns each request wrote, from what it had read.         *)
(***************************************************************************)
Finished(s, op) == tx[s].op = op /\ ~ Remaining(tx[s])

Move(from, to, debit, credit) ==
    balance' = [balance EXCEPT ![from] = balance[from] - debit,
                               ![to] = balance[to] + credit]

End(s) == tx' = [tx EXCEPT ![s] = Idle]

Mint(t) ==
    holdings' = [h \in DOMAIN holdings \cup {t.holding} |->
                   IF h = t.holding
                   THEN [owner |-> t.user, product |-> t.product, amount |-> t.amount,
                         goal |-> t.goal, settled |-> FALSE]
                   ELSE holdings[h]]

(* The partial unique index on active goals lets one of them in.           *)
IndexAdmits(u) == ActiveGoals(u) = {}

CommitCreateGoal(s) ==
    LET t == tx[s]
    IN  /\ Finished(s, "CreateGoal")
        /\ goals' = IF IndexAdmits(t.user)
                    THEN [g \in DOMAIN goals \cup {t.goal} |->
                            IF g = t.goal
                            THEN [owner |-> t.user, product |-> t.product,
                                  goalAmount |-> t.amount, savingAmount |-> 0,
                                  salakAmount |-> 0, bought |-> 0, isActive |-> TRUE,
                                  reached |-> FALSE, fees |-> <<>>]
                            ELSE goals[g]]
                    ELSE goals
        /\ End(s)
        /\ UNCHANGED <<balance, accepted, holdings>>

CommitDeposit(s) ==
    LET t == tx[s]
        newSaving == t.seen.savingAmount + t.amount
        reached == t.seen.reached \/ newSaving = t.seen.goalAmount
    IN  /\ Finished(s, "Deposit")
        /\ Move(<<"savings", t.user>>, <<"kapook", t.user>>, t.amount, t.amount)
        /\ goals' = [goals EXCEPT ![t.goal] =
                       [goals[t.goal] EXCEPT !.savingAmount = newSaving,
                                             !.reached = reached]]
        /\ End(s)
        /\ UNCHANGED <<accepted, holdings>>

(* The allowance is counted right after the goal is locked.                *)
CommitWithdraw(s) ==
    LET t == tx[s]
        charged == Len(t.seen.fees) >= K!freeWithdrawalsPerWindow
    IN  /\ Finished(s, "Withdraw")
        /\ Move(<<"kapook", t.user>>, <<"savings", t.user>>,
                t.amount, K!netCredited(t.amount, charged))
        /\ goals' = [goals EXCEPT ![t.goal] =
                       [goals[t.goal] EXCEPT
                          !.savingAmount = t.seen.savingAmount - t.amount,
                          !.isActive = ~ t.seen.reached,
                          !.fees = Append(goals[t.goal].fees, charged)]]
        /\ End(s)
        /\ UNCHANGED <<accepted, holdings>>

CommitBuyFromGoal(s) ==
    LET t == tx[s]
        newSalak == t.seen.salakAmount + t.amount
    IN  /\ Finished(s, "BuyFromGoal")
        /\ Move(<<"kapook", t.user>>, <<"salak", t.user>>, t.amount, t.amount)
        /\ goals' = [goals EXCEPT ![t.goal] =
                       [goals[t.goal] EXCEPT
                          !.salakAmount = newSalak,
                          !.bought = goals[t.goal].bought + t.amount,
                          !.isActive = newSalak < t.seen.goalAmount]]
        /\ Mint(t)
        /\ End(s)
        /\ UNCHANGED accepted

CommitBuySalak(s) ==
    LET t == tx[s]
    IN  /\ Finished(s, "BuySalak")
        /\ Move(<<"savings", t.user>>, <<"salak", t.user>>, t.amount, t.amount)
        /\ Mint(t)
        /\ End(s)
        /\ UNCHANGED <<accepted, goals>>

CommitSettleMaturedHolding(s) ==
    LET t == tx[s]
        interest == Rules[t.product].interest * (t.amount \div Rules[t.product].unit)
        newSalak == IF t.seen.salakAmount > t.amount
                    THEN t.seen.salakAmount - t.amount ELSE 0
    IN  /\ Finished(s, "SettleMaturedHolding")
        /\ Move(<<"salak", t.user>>, <<"savings", t.user>>, t.amount, t.amount + interest)
        /\ holdings' = [holdings EXCEPT ![t.holding] =
                          [holdings[t.holding] EXCEPT !.settled = TRUE]]
        /\ goals' = IF t.goal = NoGoal THEN goals
                    ELSE [goals EXCEPT ![t.goal] =
                            [goals[t.goal] EXCEPT !.salakAmount = newSalak]]
        /\ End(s)
        /\ UNCHANGED accepted

Commit(s) ==
    \/ CommitCreateGoal(s)
    \/ CommitDeposit(s)
    \/ CommitWithdraw(s)
    \/ CommitBuyFromGoal(s)
    \/ CommitBuySalak(s)
    \/ CommitSettleMaturedHolding(s)

(***************************************************************************)
(* Rollbacks.                                                              *)
(***************************************************************************)
DeadlockedSet(D) == D # {} /\ \A s \in D : WaitsFor(s) \cap D # {}

Cycle(D) == /\ DeadlockedSet(D)
            /\ \A E \in SUBSET D : DeadlockedSet(E) => E = D

Rollback(s) ==
    /\ End(s)
    /\ UNCHANGED <<balance, accepted, goals, holdings>>

(* A statement fails, the connection breaks, the server dies.              *)
Fail(s) == Busy(s) /\ Rollback(s)

(* PostgreSQL fails one transaction of every wait cycle.                   *)
BreakDeadlock(s) ==
    /\ \E D \in SUBSET Session : s \in D /\ Cycle(D)
    /\ Rollback(s)

-----------------------------------------------------------------------------
Init ==
    /\ balance = [acc \in Account |-> IF acc[1] = "savings" THEN StartingBalance ELSE 0]
    /\ accepted = {}
    /\ goals = [g \in {} |-> NoGoal]
    /\ holdings = [h \in {} |-> NoGoal]
    /\ tx = [s \in Session |-> Idle]

Accept(u) ==
    /\ accepted' = accepted \cup {u}
    /\ UNCHANGED <<balance, goals, holdings, tx>>

Request(s) ==
    \/ BeginCreateGoal(s)
    \/ BeginDeposit(s)
    \/ BeginWithdraw(s)
    \/ BeginBuyFromGoal(s)
    \/ BeginBuySalak(s)
    \/ BeginSettleMaturedHolding(s)

Next ==
    \/ \E u \in User : Accept(u)
    \/ \E s \in Session : Request(s)
    \/ \E s \in Session : RunStatement(s)
    \/ \E s \in Session : Commit(s)
    \/ \E s \in Session : Fail(s)
    \/ \E s \in Session : BreakDeadlock(s)

Spec == Init /\ [][Next]_vars

-----------------------------------------------------------------------------
(***************************************************************************)
(* Properties.                                                             *)
(***************************************************************************)

(* Between the unlocked read of the goal and the update computed from it,  *)
(* SettleMaturedHolding works with a salak amount that is still true.  The *)
(* goal row does not protect it; the lock on the customer's salak account, *)
(* which every purchase needs before it commits, does.                     *)
UnlockedReadStaysTrue ==
    \A s \in InFlight("SettleMaturedHolding") :
        tx[s].done >= 4 => tx[s].seen.salakAmount = goals[tx[s].goal].salakAmount

(* kapook_service.go, Deposit and Withdraw, and mintAndSettle take their   *)
(* locks in an order that keeps them from deadlocking with each other.     *)
(* What is left: a cycle has a settlement in it, or two purchases of       *)
(* different products paid into one salak account, which both hold the key *)
(* share of their INSERT when they ask for the row.                        *)
DeadlocksNeedSettlementOrTwoProducts ==
    \A D \in SUBSET Session :
        Cycle(D) =>
            \/ \E s \in D : tx[s].op = "SettleMaturedHolding"
            \/ \E s, o \in D :
                  /\ tx[s].user = tx[o].user
                  /\ tx[s].product # tx[o].product

(* Every interleaving of the statements looks, to anyone who reads         *)
(* committed rows, like the requests one at a time.                        *)
ImplementsKapook == K!Spec
=============================================================================
