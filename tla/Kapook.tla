------------------------------- MODULE Kapook -------------------------------
(***************************************************************************)
(* The kapook ("piggy bank") service: customers save towards a goal, turn  *)
(* the saved cash into salak (lottery bonds), and a worker buys the salak  *)
(* for them once a countdown has run out.  Every action is one committed   *)
(* database transaction of the service; a rejected request changes         *)
(* nothing and is not an action.  What happens between the statements of   *)
(* a transaction is KapookTx's subject.                                    *)
(*                                                                         *)
(* Registration gives a user exactly one savings account (flagged          *)
(* primary), one salak account and one kapook account, and there is no     *)
(* way to open another, so an account is named by its owner.  The CHECK    *)
(* constraints of the schema are not guards here: that the code never      *)
(* runs into them is what the invariants say.  The partial unique index    *)
(* on active goals is a guard, because the code leans on it.               *)
(***************************************************************************)
EXTENDS Integers, Sequences, FiniteSets

CONSTANTS
    User, Product, GoalId, HoldingId,
    NoGoal,            \* the goal of a holding bought outside the kapook
    Rules,             \* purchase rules of each product
    DrawDay,           \* pairs <<product, date>> on which purchase is closed
    Amount,            \* amounts a request may carry, in satang
    StartingBalance,   \* savings balance given at registration
    DayLength,         \* clock readings per calendar day
    Countdown,         \* KAPOOK_COUNTDOWN_DURATION
    Year,              \* length of a free-withdrawal window
    SearchLimit,       \* nextAvailableDateSearchLimit
    MaxNow,            \* bound: last clock reading
    MaxWithdrawals,    \* bound: withdrawals per goal
    MaxAttempts        \* bound: recorded worker failures per goal

Never == -1            \* a NULL timestamp or date

RuleSet == [unit : Nat \ {0}, min : Nat \ {0}, max : Nat \ {0},
            step : Nat \ {0}, interest : Nat \ {0}]

ASSUME RulesAssumption == Rules \in [Product -> RuleSet]
ASSUME IdAssumption == NoGoal \notin GoalId
ASSUME AmountAssumption == /\ Amount \subseteq Int
                           /\ StartingBalance \in Nat
ASSUME TimeAssumption == /\ DayLength \in Nat \ {0}
                         /\ Year \in Nat \ {0}
                         /\ Countdown \in Nat
                         /\ SearchLimit \in Nat
                         /\ DrawDay \subseteq Product \X Nat
ASSUME BoundAssumption == /\ MaxNow \in Nat
                          /\ MaxWithdrawals \in Nat
                          /\ MaxAttempts \in Nat

VARIABLES
    savings, kapook, salak,   \* account balances, by owner
    bank,          \* per user, unmatched ledger legs: fees kept - interest paid
    accepted,      \* users who accepted the kapook terms
    goals,         \* rows of kapook.kapook_goals, by id
    holdings,      \* rows of salak.holdings with the goal that bought each
    productActive, \* is_active of each product
    now            \* the service clock

accounts == <<savings, kapook, salak, bank>>
vars == <<savings, kapook, salak, bank, accepted, goals, holdings,
          productActive, now>>

Withdrawal == [at : Nat, withFee : BOOLEAN]

Goal == [owner : User, product : Product, goalAmount : Nat,
         savingAmount : Nat, salakAmount : Nat,
         bought : Nat,                        \* total of its buy_salak rows
         isActive : BOOLEAN, goalReachedAt : Nat \cup {Never},
         deferredUntil : Nat \cup {Never}, attempts : Nat,
         createdAt : Nat, withdrawals : Seq(Withdrawal)]

Holding == [owner : User, product : Product, amount : Nat, units : Nat,
            goal : GoalId \cup {NoGoal}, settled : BOOLEAN]

TypeOK ==
    /\ savings \in [User -> Nat]
    /\ kapook \in [User -> Nat]
    /\ salak \in [User -> Nat]
    /\ bank \in [User -> Int]
    /\ accepted \subseteq User
    /\ DOMAIN goals \subseteq GoalId /\ goals \in [DOMAIN goals -> Goal]
    /\ DOMAIN holdings \subseteq HoldingId
    /\ holdings \in [DOMAIN holdings -> Holding]
    /\ productActive \in [Product -> BOOLEAN]
    /\ now \in Nat

(***************************************************************************)
(* Reading the rows.                                                       *)
(***************************************************************************)
Insert(rows, id, row) ==
    [x \in DOMAIN rows \cup {id} |-> IF x = id THEN row ELSE rows[x]]

Active == {g \in DOMAIN goals : goals[g].isActive}

Reached(g) == goals[g].goalReachedAt # Never

AvailableBalance(g) == goals[g].savingAmount - goals[g].salakAmount

Date(t) == t \div DayLength

IsDrawDay(p, d) == <<p, d>> \in DrawDay

(* NextAvailableDate: the first date after today that is not a draw day,   *)
(* looked for among the next SearchLimit dates only.                       *)
NextAvailableDate(p, d) ==
    /\ d \in {Date(now) + i : i \in 1..SearchLimit}
    /\ ~ IsDrawDay(p, d)
    /\ \A e \in (Date(now) + 1)..(d - 1) : IsDrawDay(p, e)

Units(p, a) == a \div Rules[p].unit

Interest(h) == Rules[holdings[h].product].interest * holdings[h].units

(***************************************************************************)
(* Faults.  Each of these replaces the definition below whose name it      *)
(* starts with, to see that a run notices the slip it describes.           *)
(***************************************************************************)
ValidatePurchase_NoStep(p, a) ==          \* forgets the purchase step
    a > 0 /\ a >= Rules[p].min /\ a <= Rules[p].max

Payout_InterestTwice(h) == holdings[h].amount + 2 * Interest(h)

withdrawalAllowance_AllYears(g) ==        \* counts outside the window too
    Len(goals[g].withdrawals)

SufficientFunds_Unchecked(balance, u, a) == TRUE

WithinTarget_Old(goal, newSaving) ==      \* looks at the saving before the deposit
    goal.savingAmount <= goal.goalAmount

ReachedStamp_Cash(goal, newSaving) ==     \* compares the cash, not the saving
    IF goal.goalReachedAt = Never /\ newSaving - goal.salakAmount = goal.goalAmount
    THEN now
    ELSE goal.goalReachedAt

WithdrawalAllowed_Trim(g, a) ==           \* partial during the countdown
    a > 0 /\ a <= AvailableBalance(g)

goalCompleted_Saving(goal, newSalak) ==   \* compares with what is saved so far
    newSalak >= goal.savingAmount

Settleable_Again(h) == productActive[holdings[h].product]

SalakAfterExpiration_OnlyActive(goal, principal) ==
    IF goal.isActive THEN goal.salakAmount - principal ELSE goal.salakAmount

(***************************************************************************)
(* Purchase rules and fees.                                                *)
(***************************************************************************)
ValidatePurchase(p, a) ==
    /\ a > 0
    /\ a >= Rules[p].min
    /\ a <= Rules[p].max
    /\ a % Rules[p].step = 0

Payout(h) == holdings[h].amount + Interest(h)

freeWithdrawalsPerWindow == 2

(* 2 % of the amount, rounded half away from zero to whole satang.         *)
computeWithdrawalFee(a, charged) == IF charged THEN (2 * a + 50) \div 100 ELSE 0

netCredited(a, charged) == a - computeWithdrawalFee(a, charged)

(* Debit refuses to overdraw an account.                                   *)
SufficientFunds(balance, u, a) == balance[u] >= a

(* Withdrawals already made in the anniversary window containing now.      *)
WindowOf(g, t) == (t - goals[g].createdAt) \div Year

withdrawalAllowance(g) ==
    Cardinality({i \in 1..Len(goals[g].withdrawals) :
                   WindowOf(g, goals[g].withdrawals[i].at) = WindowOf(g, now)})

-----------------------------------------------------------------------------
Init ==
    /\ savings = [u \in User |-> StartingBalance]
    /\ kapook = [u \in User |-> 0]
    /\ salak = [u \in User |-> 0]
    /\ bank = [u \in User |-> 0]
    /\ accepted = {}
    /\ goals = [g \in {} |-> NoGoal]
    /\ holdings = [h \in {} |-> NoGoal]
    /\ productActive = [p \in Product |-> TRUE]
    /\ now = 0

Accept(u) ==
    /\ accepted' = accepted \cup {u}
    /\ UNCHANGED <<accounts, goals, holdings, productActive, now>>

CreateGoal(u, p, a, g) ==
    /\ u \in accepted
    /\ \A old \in Active : goals[old].owner # u
    /\ productActive[p]
    /\ ValidatePurchase(p, a)
    /\ g \notin DOMAIN goals
    /\ goals' = Insert(goals, g,
                  [owner |-> u, product |-> p, goalAmount |-> a,
                   savingAmount |-> 0, salakAmount |-> 0, bought |-> 0,
                   isActive |-> TRUE, goalReachedAt |-> Never,
                   deferredUntil |-> Never, attempts |-> 0,
                   createdAt |-> now, withdrawals |-> <<>>])
    /\ UNCHANGED <<accounts, accepted, holdings, productActive, now>>

WithinTarget(goal, newSaving) == newSaving <= goal.goalAmount

(* The deposit that brings savingAmount up to goalAmount starts the        *)
(* countdown.                                                              *)
ReachedStamp(goal, newSaving) ==
    IF goal.goalReachedAt = Never /\ newSaving = goal.goalAmount
    THEN now
    ELSE goal.goalReachedAt

Deposit(g, a) ==
    LET goal == goals[g]
        u == goal.owner
        newSaving == goal.savingAmount + a
    IN  /\ a > 0
        /\ WithinTarget(goal, newSaving)
        /\ SufficientFunds(savings, u, a)
        /\ savings' = [savings EXCEPT ![u] = @ - a]
        /\ kapook' = [kapook EXCEPT ![u] = @ + a]
        /\ goals' = [goals EXCEPT ![g] =
                       [goal EXCEPT !.savingAmount = newSaving,
                                    !.goalReachedAt = ReachedStamp(goal, newSaving)]]
        /\ UNCHANGED <<salak, bank, accepted, holdings, productActive, now>>

(* Any part of the available balance until the target is reached; after    *)
(* that all of it or nothing, and the goal closes.                         *)
WithdrawalAllowed(g, a) ==
    /\ a > 0
    /\ a <= AvailableBalance(g)
    /\ Reached(g) => a = AvailableBalance(g)

Withdraw(g, a) ==
    LET goal == goals[g]
        u == goal.owner
        charged == withdrawalAllowance(g) >= freeWithdrawalsPerWindow
    IN  /\ WithdrawalAllowed(g, a)
        /\ SufficientFunds(kapook, u, a)
        /\ Len(goal.withdrawals) < MaxWithdrawals
        /\ kapook' = [kapook EXCEPT ![u] = @ - a]
        /\ savings' = [savings EXCEPT ![u] = @ + netCredited(a, charged)]
        /\ bank' = [bank EXCEPT ![u] = @ + computeWithdrawalFee(a, charged)]
        /\ goals' = [goals EXCEPT ![g] =
                       [goal EXCEPT !.savingAmount = goal.savingAmount - a,
                                    !.isActive = ~ Reached(g),
                                    !.withdrawals =
                                       Append(goal.withdrawals,
                                              [at |-> now, withFee |-> charged])]]
        /\ UNCHANGED <<salak, accepted, holdings, productActive, now>>

MintHolding(h, u, p, a, g) ==
    /\ Units(p, a) > 0
    /\ h \notin DOMAIN holdings
    /\ holdings' = Insert(holdings, h,
                     [owner |-> u, product |-> p, amount |-> a,
                      units |-> Units(p, a), goal |-> g, settled |-> FALSE])

goalCompleted(goal, newSalak) == newSalak >= goal.goalAmount

(* What buyFromGoalCore accepts, the insufficient-funds check of the debit *)
(* and the draw-day guard aside.                                           *)
PurchaseAllowed(g, a) ==
    LET p == goals[g].product
    IN  /\ productActive[p]
        /\ AvailableBalance(g) >= Rules[p].min
        /\ ValidatePurchase(p, a)
        /\ a <= AvailableBalance(g)

buyFromGoalCore(g, a, h) ==
    LET goal == goals[g]
        u == goal.owner
        p == goal.product
        newSalak == goal.salakAmount + a
    IN  /\ PurchaseAllowed(g, a)
        /\ ~ IsDrawDay(p, Date(now))
        /\ SufficientFunds(kapook, u, a)
        /\ MintHolding(h, u, p, a, g)
        /\ kapook' = [kapook EXCEPT ![u] = @ - a]
        /\ salak' = [salak EXCEPT ![u] = @ + a]
        /\ goals' = [goals EXCEPT ![g] =
                       [goal EXCEPT !.salakAmount = newSalak,
                                    !.bought = goal.bought + a,
                                    !.isActive = ~ goalCompleted(goal, newSalak),
                                    !.deferredUntil = Never,
                                    !.attempts = 0]]
        /\ UNCHANGED <<savings, bank, accepted, productActive, now>>

BuyFromGoal(g, a, h) == buyFromGoalCore(g, a, h)

BuySalak(u, p, a, h) ==
    /\ productActive[p]
    /\ ValidatePurchase(p, a)
    /\ ~ IsDrawDay(p, Date(now))
    /\ SufficientFunds(savings, u, a)
    /\ MintHolding(h, u, p, a, NoGoal)
    /\ savings' = [savings EXCEPT ![u] = @ - a]
    /\ salak' = [salak EXCEPT ![u] = @ + a]
    /\ UNCHANGED <<kapook, bank, accepted, goals, productActive, now>>

(* Principal and interest go to the primary account, whatever the date.    *)
(* A kapook holding also takes its principal off its goal, active or not.  *)
Settleable(h) ==
    /\ ~ holdings[h].settled
    /\ productActive[holdings[h].product]

SalakAfterExpiration(goal, principal) ==
    IF goal.salakAmount > principal THEN goal.salakAmount - principal ELSE 0

SettleMaturedHolding(h) ==
    LET row == holdings[h]
        u == row.owner
    IN  /\ Settleable(h)
        /\ SufficientFunds(salak, u, row.amount)
        /\ salak' = [salak EXCEPT ![u] = @ - row.amount]
        /\ savings' = [savings EXCEPT ![u] = @ + Payout(h)]
        /\ bank' = [bank EXCEPT ![u] = @ - Interest(h)]
        /\ holdings' = [holdings EXCEPT ![h] = [row EXCEPT !.settled = TRUE]]
        /\ goals' = IF row.goal = NoGoal THEN goals
                    ELSE [goals EXCEPT ![row.goal] =
                            [goals[row.goal] EXCEPT !.salakAmount =
                               SalakAfterExpiration(goals[row.goal], row.amount)]]
        /\ UNCHANGED <<kapook, accepted, productActive, now>>

-----------------------------------------------------------------------------
(***************************************************************************)
(* The worker, one claimed goal at a time.  Claiming order and batches are *)
(* AutoPurchaseWorker's subject.                                           *)
(***************************************************************************)
Due(g) ==
    /\ goals[g].isActive
    /\ Reached(g)
    /\ goals[g].goalReachedAt <= now - Countdown
    /\ goals[g].deferredUntil = Never \/ goals[g].deferredUntil <= Date(now)

AutoPurchase(g, h) ==
    /\ Due(g)
    /\ buyFromGoalCore(g, AvailableBalance(g), h)

(* The purchase reaches the draw-day guard, before any money is looked at. *)
BlockedByDrawDay(g) ==
    /\ PurchaseAllowed(g, AvailableBalance(g))
    /\ IsDrawDay(goals[g].product, Date(now))

DeferAutoPurchase(g) ==
    /\ Due(g)
    /\ BlockedByDrawDay(g)
    /\ \E d \in {Date(now) + i : i \in 1..SearchLimit} :
          /\ NextAvailableDate(goals[g].product, d)
          /\ goals' = [goals EXCEPT ![g] = [goals[g] EXCEPT !.deferredUntil = d]]
    /\ UNCHANGED <<accounts, accepted, holdings, productActive, now>>

PurchaseFails(g) ==
    \/ ~ PurchaseAllowed(g, AvailableBalance(g))
    \/ /\ ~ BlockedByDrawDay(g)
       /\ \/ ~ SufficientFunds(kapook, goals[g].owner, AvailableBalance(g))
          \/ Units(goals[g].product, AvailableBalance(g)) = 0
    \/ /\ BlockedByDrawDay(g)
       /\ \A i \in 1..SearchLimit : IsDrawDay(goals[g].product, Date(now) + i)

FailAutoPurchase(g) ==
    /\ Due(g)
    /\ PurchaseFails(g)
    /\ goals[g].attempts < MaxAttempts
    /\ goals' = [goals EXCEPT ![g] = [goals[g] EXCEPT !.attempts = goals[g].attempts + 1]]
    /\ UNCHANGED <<accounts, accepted, holdings, productActive, now>>

-----------------------------------------------------------------------------
UpsertProduct(p, isActive) ==
    /\ productActive' = [productActive EXCEPT ![p] = isActive]
    /\ UNCHANGED <<accounts, accepted, goals, holdings, now>>

Tick ==
    /\ now < MaxNow
    /\ now' = now + 1
    /\ UNCHANGED <<accounts, accepted, goals, holdings, productActive>>

Next ==
    \/ \E u \in User : Accept(u)
    \/ \E u \in User, p \in Product, a \in Amount, g \in GoalId : CreateGoal(u, p, a, g)
    \/ \E u \in User, p \in Product, a \in Amount, h \in HoldingId : BuySalak(u, p, a, h)
    \/ \E g \in Active, a \in Amount : Deposit(g, a)
    \/ \E g \in Active, a \in Amount : Withdraw(g, a)
    \/ \E g \in Active, a \in Amount, h \in HoldingId : BuyFromGoal(g, a, h)
    \/ \E h \in DOMAIN holdings : SettleMaturedHolding(h)
    \/ \E g \in Active, h \in HoldingId : AutoPurchase(g, h)
    \/ \E g \in Active : DeferAutoPurchase(g)
    \/ \E g \in Active : FailAutoPurchase(g)
    \/ \E p \in Product, b \in BOOLEAN : UpsertProduct(p, b)
    \/ Tick

Spec == Init /\ [][Next]_vars

-----------------------------------------------------------------------------
(***************************************************************************)
(* Properties.                                                             *)
(***************************************************************************)

(* The CHECK constraints of kapook_goals hold by what the service does,    *)
(* so no request ever fails on one: salak never exceeds the savings,       *)
(* savings never exceed the target, and the purchases made from a goal     *)
(* never exceed what was saved towards it.                                 *)
GoalChecks ==
    \A g \in DOMAIN goals :
        /\ 0 <= goals[g].salakAmount
        /\ goals[g].salakAmount <= goals[g].bought
        /\ goals[g].bought <= goals[g].savingAmount
        /\ goals[g].savingAmount <= goals[g].goalAmount

(* A kapook account holds exactly what its active goal saved and has not   *)
(* spent; without an active goal, where nothing could reach the money, it  *)
(* is empty.                                                               *)
CashBehindGoal ==
    /\ \A g \in Active :
          kapook[goals[g].owner] = goals[g].savingAmount - goals[g].bought
    /\ \A u \in User :
          (\A g \in Active : goals[g].owner # u) => kapook[u] = 0

(* The countdown of an active goal runs exactly when the goal is full: no  *)
(* withdrawal leaves a countdown running on a goal that is short, and no   *)
(* deposit fills a goal without starting one.                              *)
ReachedMeansFull ==
    \A g \in Active : Reached(g) <=> goals[g].savingAmount = goals[g].goalAmount

(* Apart from fees kept and interest paid by the bank, a user's money only *)
(* moves between the user's own accounts.                                  *)
Conservation ==
    \A u \in User : savings[u] + kapook[u] + salak[u] + bank[u] = StartingBalance

(* What the countdown promises: as long as none of the goal's holdings has *)
(* been settled and the product is sold, the worker can buy the whole      *)
(* remainder in one purchase, whatever the customer bought before.         *)
ReachedStaysPurchasable ==
    \A g \in Active :
        LET p == goals[g].product
        IN  /\ Reached(g)
            /\ goals[g].salakAmount = goals[g].bought
            /\ productActive[p]
            /\ Rules[p].min <= Rules[p].step
            => /\ PurchaseAllowed(g, AvailableBalance(g))
               /\ kapook[goals[g].owner] >= AvailableBalance(g)

(* Within one anniversary window the first two withdrawals are free and    *)
(* only the later ones carry the fee.                                      *)
FreeAllowance ==
    \A g \in DOMAIN goals :
        LET w == goals[g].withdrawals
        IN  \A i \in 1..Len(w) :
               w[i].withFee <=>
                  \E j, k \in 1..(i - 1) :
                     /\ j < k
                     /\ WindowOf(g, w[j].at) = WindowOf(g, w[i].at)
                     /\ WindowOf(g, w[k].at) = WindowOf(g, w[i].at)

(* A goal ends in one of two ways, bought out in full or emptied by a      *)
(* withdrawal during the countdown; either way no cash is left behind in   *)
(* the kapook, the goal never reopens, and its countdown is stamped once.  *)
GoalStep(g) ==
    /\ ~ goals[g].isActive =>
          /\ ~ goals'[g].isActive
          /\ goals'[g].savingAmount = goals[g].savingAmount
    /\ Reached(g) => goals'[g].goalReachedAt = goals[g].goalReachedAt
    /\ goals[g].isActive /\ ~ goals'[g].isActive =>
          /\ Reached(g)
          /\ kapook'[goals[g].owner] = 0
          /\ \/ goals'[g].salakAmount = goals[g].goalAmount
             \/ goals'[g].savingAmount = goals'[g].salakAmount

GoalEndsTwoWays == [][\A g \in DOMAIN goals : GoalStep(g)]_vars
=============================================================================
