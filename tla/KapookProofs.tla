---------------------------- MODULE KapookProofs ----------------------------
(***************************************************************************)
(* Proofs about Kapook, for every set of users, products, goals and        *)
(* amounts and every value of the bounds.                                  *)
(***************************************************************************)
EXTENDS KapookSums, SumProofs, FiniteSetTheorems, TLAPS

(* A fee is never more than the amount it is taken from.                   *)
LEMMA FeeBound ==
    ASSUME NEW a \in Nat, a > 0, NEW charged
    PROVE  /\ computeWithdrawalFee(a, charged) \in Nat
           /\ computeWithdrawalFee(a, charged) <= a
<1>1. (2 * a + 50) \div 100 \in Nat /\ (2 * a + 50) \div 100 <= a
  OBVIOUS
<1> QED BY <1>1 DEF computeWithdrawalFee

(* Dates of clock readings are natural numbers.                            *)
LEMMA DateType == ASSUME NEW t \in Nat PROVE Date(t) \in Nat
BY TimeAssumption DEF Date

(* So is the number of units an amount buys.                               *)
LEMMA UnitsType ==
    ASSUME NEW p \in Product, NEW a \in Nat
    PROVE  Units(p, a) \in Nat
<1>1. Rules[p].unit \in Nat \ {0} BY RulesAssumption DEF RuleSet
<1> QED BY <1>1 DEF Units

(* And the interest paid on a holding.                                     *)
LEMMA InterestType ==
    ASSUME TypeOK, NEW h \in DOMAIN holdings
    PROVE  Interest(h) \in Nat
<1>1. holdings[h] \in Holding BY DEF TypeOK
<1>2. holdings[h].product \in Product /\ holdings[h].units \in Nat
  BY <1>1 DEF Holding
<1>3. Rules[holdings[h].product].interest \in Nat
  BY <1>2, RulesAssumption DEF RuleSet
<1>4. ASSUME NEW x \in Nat, NEW y \in Nat PROVE x * y \in Nat OBVIOUS
<1> QED BY <1>2, <1>3, <1>4 DEF Interest

(* Replacing or adding one row of a table keeps the table well-typed.      *)
LEMMA InsertType ==
    ASSUME NEW rows, NEW Id, NEW Row, DOMAIN rows \subseteq Id,
           rows \in [DOMAIN rows -> Row], NEW id \in Id, NEW row \in Row
    PROVE  /\ DOMAIN Insert(rows, id, row) = DOMAIN rows \cup {id}
           /\ DOMAIN Insert(rows, id, row) \subseteq Id
           /\ Insert(rows, id, row) \in [DOMAIN Insert(rows, id, row) -> Row]
           /\ Insert(rows, id, row)[id] = row
           /\ \A x \in DOMAIN rows \ {id} : Insert(rows, id, row)[x] = rows[x]
BY DEF Insert

-----------------------------------------------------------------------------
(***************************************************************************)
(* The inductive invariant.  The properties alone are not inductive: what  *)
(* the cash of an account is worth to its owner follows from the one goal  *)
(* that can be active on it, and a countdown that starts with the last     *)
(* deposit from a target that is more than nothing.                        *)
(***************************************************************************)
OneActiveGoal ==
    \A g1, g2 \in Active : goals[g1].owner = goals[g2].owner => g1 = g2

PositiveTargets == \A g \in DOMAIN goals : goals[g].goalAmount > 0

IInv == /\ TypeOK
        /\ OneActiveGoal
        /\ PositiveTargets
        /\ GoalChecks
        /\ CashBehindGoal
        /\ ReachedMeansFull
        /\ Conservation

(* What GoalEndsTwoWays says of one step.                                  *)
GoalSteps == \A g \in DOMAIN goals : GoalStep(g)

(* A goal row as the type invariant describes it, field by field.          *)
LEMMA GoalFields ==
    ASSUME TypeOK, NEW g \in DOMAIN goals
    PROVE  /\ g \in GoalId
           /\ goals[g] \in Goal
           /\ goals[g].owner \in User
           /\ goals[g].product \in Product
           /\ goals[g].goalAmount \in Nat
           /\ goals[g].savingAmount \in Nat
           /\ goals[g].salakAmount \in Nat
           /\ goals[g].bought \in Nat
           /\ goals[g].isActive \in BOOLEAN
           /\ goals[g].goalReachedAt \in Nat \cup {Never}
           /\ goals[g].withdrawals \in Seq(Withdrawal)
BY DEF TypeOK, Goal

(* What a step that replaces one goal row and moves kapook cash along with *)
(* it has to keep for the goal part of the invariant to survive.           *)
LEMMA RowStep ==
    ASSUME IInv, NEW g \in DOMAIN goals, NEW row \in Goal,
           goals' = [goals EXCEPT ![g] = row],
           row.owner = goals[g].owner,
           row.goalAmount = goals[g].goalAmount,
           row.salakAmount <= row.bought,
           row.bought <= row.savingAmount,
           row.savingAmount <= row.goalAmount,
           row.isActive => goals[g].isActive,
           row.isActive =>
              (row.goalReachedAt # Never <=> row.savingAmount = row.goalAmount),
           IF goals[g].isActive
           THEN /\ kapook'[row.owner] = row.savingAmount - row.bought
                /\ ~ row.isActive => row.savingAmount = row.bought
                /\ \A v \in User \ {row.owner} : kapook'[v] = kapook[v]
           ELSE kapook' = kapook,
           ~ goals[g].isActive => row.savingAmount = goals[g].savingAmount,
           Reached(g) => row.goalReachedAt = goals[g].goalReachedAt,
           goals[g].isActive /\ ~ row.isActive =>
              /\ Reached(g)
              /\ row.salakAmount = row.goalAmount \/ row.savingAmount = row.salakAmount
    PROVE  /\ DOMAIN goals' = DOMAIN goals
           /\ goals' \in [DOMAIN goals' -> Goal]
           /\ OneActiveGoal' /\ PositiveTargets' /\ GoalChecks'
           /\ CashBehindGoal' /\ ReachedMeansFull'
           /\ GoalSteps
<1> USE DEF IInv
<1>1. /\ DOMAIN goals' = DOMAIN goals
      /\ goals'[g] = row
      /\ \A x \in DOMAIN goals \ {g} : goals'[x] = goals[x]
      /\ goals' \in [DOMAIN goals -> Goal]
  BY DEF TypeOK
<1>2. Active' \subseteq Active /\ Active \ {g} \subseteq Active'
  BY <1>1 DEF Active
<1>f. /\ row.owner \in User /\ row.goalAmount \in Nat
      /\ row.savingAmount \in Nat /\ row.salakAmount \in Nat
      /\ row.bought \in Nat
  BY DEF Goal
<1>3. OneActiveGoal' BY <1>1, <1>2 DEF OneActiveGoal, Active
<1>4. PositiveTargets' BY <1>1 DEF PositiveTargets
<1>5. GoalChecks' BY <1>1, <1>f DEF GoalChecks
<1>6. ReachedMeansFull'
  <2>1. g \in Active' => row.isActive BY <1>1 DEF Active
  <2> QED BY <1>1, <1>2, <2>1 DEF ReachedMeansFull, Reached, Active
<1>7. CashBehindGoal'
  <2>1. CASE ~ goals[g].isActive
    <3>1. Active' = Active BY <2>1, <1>1 DEF Active
    <3>2. \A x \in Active : goals'[x] = goals[x] BY <2>1, <1>1 DEF Active
    <3> QED BY <2>1, <3>1, <3>2 DEF CashBehindGoal
  <2>2. CASE goals[g].isActive
    <3>1. \A x \in Active' :
             kapook'[goals'[x].owner] = goals'[x].savingAmount - goals'[x].bought
      <4> TAKE x \in Active'
      <4>1. CASE x = g BY <4>1, <2>2, <1>1
      <4>2. CASE x # g
        <5>1. x \in Active /\ g \in Active BY <1>2, <2>2 DEF Active
        <5>2. goals[x].owner # goals[g].owner /\ goals[x].owner \in User
          BY <5>1, <4>2, GoalFields DEF OneActiveGoal, Active
        <5>3. x \in DOMAIN goals \ {g} BY <5>1, <4>2 DEF Active
        <5> QED BY <5>1, <5>2, <5>3, <2>2, <1>1 DEF CashBehindGoal
      <4> QED BY <4>1, <4>2
    <3>2. ASSUME NEW v \in User, \A x \in Active' : goals'[x].owner # v
          PROVE  kapook'[v] = 0
      <4>1. CASE v = row.owner
        <5>1. ~ row.isActive BY <4>1, <3>2, <1>1 DEF Active
        <5> QED BY <4>1, <5>1, <2>2, <1>f
      <4>2. CASE v # row.owner
        <5>1. \A x \in Active : goals[x].owner # v
          BY <4>2, <3>2, <1>1, <1>2 DEF Active
        <5> QED BY <5>1, <4>2, <2>2 DEF CashBehindGoal
      <4> QED BY <4>1, <4>2
    <3> QED BY <3>1, <3>2 DEF CashBehindGoal
  <2> QED BY <2>1, <2>2
<1>8. GoalSteps
  <2>1. ASSUME NEW x \in DOMAIN goals, x # g PROVE GoalStep(x)
    <3>1. goals'[x] = goals[x] BY <2>1, <1>1
    <3> QED BY <3>1 DEF GoalStep
  <2>2. goals[g].isActive /\ ~ row.isActive => kapook'[goals[g].owner] = 0
    BY <1>f
  <2>3. GoalStep(g)
    BY <1>1, <2>2 DEF GoalStep
  <2> QED BY <2>1, <2>3 DEF GoalSteps
<1> QED BY <1>1, <1>3, <1>4, <1>5, <1>6, <1>7, <1>8

-----------------------------------------------------------------------------
(* One lemma for each kind of step.                                        *)

(* A deposit moves cash and savingAmount together, and stamps the goal it  *)
(* fills.                                                                  *)
LEMMA DepositStep ==
    ASSUME IInv, NEW g \in Active, NEW a \in Amount, Deposit(g, a)
    PROVE  IInv' /\ GoalSteps
<1> USE DEF IInv
<1> DEFINE u == goals[g].owner
           s == goals[g].savingAmount + a
           reachedAt == ReachedStamp(goals[g], s)
           row == [goals[g] EXCEPT !.savingAmount = s, !.goalReachedAt = reachedAt]
<1>g. g \in DOMAIN goals /\ goals[g].isActive BY DEF Active
<1>f. /\ goals[g] \in Goal /\ u \in User
      /\ goals[g].savingAmount \in Nat /\ goals[g].goalAmount \in Nat
      /\ goals[g].bought \in Nat /\ goals[g].salakAmount \in Nat
  BY <1>g, GoalFields
<1>a. a \in Nat /\ a > 0 /\ goals[g].savingAmount + a <= goals[g].goalAmount
  BY AmountAssumption DEF Deposit, WithinTarget
<1>t. /\ savings' \in [User -> Nat] /\ kapook' \in [User -> Nat]
      /\ savings'[u] = savings[u] - a /\ kapook'[u] = kapook[u] + a
      /\ \A v \in User \ {u} : savings'[v] = savings[v] /\ kapook'[v] = kapook[v]
  BY <1>a, <1>f DEF TypeOK, Deposit, SufficientFunds
<1>1. ~ Reached(g) BY <1>f, <1>a DEF ReachedMeansFull
<1>2. goals' = [goals EXCEPT ![g] = row] BY DEF Deposit
<1>r. /\ reachedAt \in Nat \cup {Never}
      /\ reachedAt # Never <=> goals[g].savingAmount + a = goals[g].goalAmount
  BY <1>1, <1>g, GoalFields DEF TypeOK, Reached, Never, ReachedStamp
<1> HIDE DEF reachedAt
<1>3. /\ row \in Goal
      /\ row.owner = u /\ row.goalAmount = goals[g].goalAmount
      /\ row.salakAmount = goals[g].salakAmount /\ row.bought = goals[g].bought
      /\ row.savingAmount = s
      /\ row.isActive = goals[g].isActive
      /\ row.goalReachedAt = reachedAt
  <2>1. s \in Nat BY <1>f, <1>a
  <2> HIDE DEF s
  <2> QED BY <2>1, <1>f, <1>r DEF Goal
<1>4. row.goalReachedAt # Never <=> row.savingAmount = row.goalAmount
  BY <1>3, <1>r
<1>5. kapook'[u] = row.savingAmount - row.bought
  BY <1>t, <1>3, <1>f, <1>a DEF CashBehindGoal
<1>6. row.salakAmount <= row.bought /\ row.bought <= row.savingAmount
  BY <1>3, <1>g, <1>f, <1>a DEF GoalChecks
<1> HIDE DEF row
<1>7. /\ DOMAIN goals' = DOMAIN goals /\ goals' \in [DOMAIN goals' -> Goal]
      /\ OneActiveGoal' /\ PositiveTargets' /\ GoalChecks'
      /\ CashBehindGoal' /\ ReachedMeansFull'
      /\ GoalSteps
  BY <1>1, <1>2, <1>3, <1>4, <1>5, <1>6, <1>a, <1>g, <1>t, RowStep
<1>8. TypeOK' BY <1>7, <1>t DEF TypeOK, Deposit
<1>9. Conservation'
  BY <1>t, <1>f, <1>a, AmountAssumption DEF Conservation, Deposit, TypeOK
<1> QED BY <1>7, <1>8, <1>9

(* A withdrawal before the target leaves the goal short of it; one during  *)
(* the countdown takes everything and closes the goal.                     *)
LEMMA WithdrawStep ==
    ASSUME IInv, NEW g \in Active, NEW a \in Amount, Withdraw(g, a)
    PROVE  IInv' /\ GoalSteps
<1> USE DEF IInv
<1> DEFINE u == goals[g].owner
           charged == withdrawalAllowance(g) >= freeWithdrawalsPerWindow
           fee == computeWithdrawalFee(a, charged)
           net == netCredited(a, charged)
           entry == [at |-> now, withFee |-> charged]
           s == goals[g].savingAmount - a
           b == ~ Reached(g)
           w == Append(goals[g].withdrawals, entry)
           row == [goals[g] EXCEPT !.savingAmount = s, !.isActive = b,
                                   !.withdrawals = w]
<1>g. g \in DOMAIN goals /\ goals[g].isActive BY DEF Active
<1>f. /\ goals[g] \in Goal /\ u \in User
      /\ goals[g].savingAmount \in Nat /\ goals[g].goalAmount \in Nat
      /\ goals[g].bought \in Nat /\ goals[g].salakAmount \in Nat
      /\ goals[g].withdrawals \in Seq(Withdrawal)
  BY <1>g, GoalFields
<1>a. /\ a \in Nat /\ a > 0
      /\ a <= goals[g].savingAmount - goals[g].salakAmount
      /\ kapook[u] >= a
  BY AmountAssumption DEF Withdraw, WithdrawalAllowed, SufficientFunds, AvailableBalance
<1>all. Reached(g) => a = goals[g].savingAmount - goals[g].salakAmount
  BY DEF Withdraw, WithdrawalAllowed, AvailableBalance
<1>fee. fee \in Nat /\ fee <= a BY <1>a, FeeBound
<1>mv. /\ kapook' = [kapook EXCEPT ![u] = kapook[u] - a]
       /\ savings' = [savings EXCEPT ![u] = savings[u] + (a - fee)]
       /\ bank' = [bank EXCEPT ![u] = bank[u] + fee]
       /\ UNCHANGED <<salak, accepted, holdings, productActive, now>>
  <2>1. net = a - fee BY DEF netCredited
  <2> HIDE DEF fee
  <2>2. /\ kapook' = [kapook EXCEPT ![u] = kapook[u] - a]
        /\ savings' = [savings EXCEPT ![u] = savings[u] + net]
        /\ bank' = [bank EXCEPT ![u] = bank[u] + fee]
        /\ UNCHANGED <<salak, accepted, holdings, productActive, now>>
    BY DEF Withdraw, fee
  <2> HIDE DEF net
  <2> QED BY <2>1, <2>2
<1>2. goals' = [goals EXCEPT ![g] = row] BY DEF Withdraw
<1> HIDE DEF fee
<1>n. kapook[u] \in Nat /\ savings[u] \in Nat /\ bank[u] \in Int
  BY <1>f DEF TypeOK
<1>t. /\ savings' \in [User -> Nat] /\ kapook' \in [User -> Nat]
      /\ bank' \in [User -> Int]
      /\ savings'[u] = savings[u] + (a - fee) /\ kapook'[u] = kapook[u] - a
      /\ bank'[u] = bank[u] + fee
      /\ \A v \in User \ {u} : /\ savings'[v] = savings[v]
                               /\ kapook'[v] = kapook[v]
                               /\ bank'[v] = bank[v]
  <2>1. /\ kapook[u] - a \in Nat /\ savings[u] + (a - fee) \in Nat
        /\ bank[u] + fee \in Int
    BY <1>a, <1>fee, <1>n
  <2> QED BY <2>1, <1>f, <1>mv DEF TypeOK
<1>b. entry \in Withdrawal
  <2>1. charged \in BOOLEAN OBVIOUS
  <2> QED BY <2>1 DEF TypeOK, Withdrawal
<1> HIDE DEF charged
<1>w. w \in Seq(Withdrawal)
  BY <1>b, <1>f
<1>3. /\ row \in Goal
      /\ row.owner = u /\ row.goalAmount = goals[g].goalAmount
      /\ row.salakAmount = goals[g].salakAmount /\ row.bought = goals[g].bought
      /\ row.savingAmount = s
      /\ row.isActive = b
      /\ row.goalReachedAt = goals[g].goalReachedAt
  <2>1. s \in Nat BY <1>f, <1>a
  <2>2. b \in BOOLEAN BY DEF Reached
  <2> HIDE DEF s, b, w
  <2> QED BY <2>1, <2>2, <1>w, <1>f DEF Goal
<1> HIDE DEF row
<1>c. /\ goals[g].salakAmount <= goals[g].bought
      /\ goals[g].bought <= goals[g].savingAmount
      /\ goals[g].savingAmount <= goals[g].goalAmount
  BY <1>g DEF GoalChecks
<1>k. kapook[u] = goals[g].savingAmount - goals[g].bought
  BY DEF CashBehindGoal
<1>4. row.isActive => (row.goalReachedAt # Never <=> row.savingAmount = row.goalAmount)
  <2>1. s # goals[g].goalAmount BY <1>f, <1>a, <1>c
  <2>2. b => goals[g].goalReachedAt = Never BY DEF Reached
  <2> HIDE DEF s, b
  <2> QED BY <2>1, <2>2, <1>3
<1>5. kapook'[u] = row.savingAmount - row.bought
  BY <1>t, <1>k, <1>3, <1>f, <1>a
<1>6. row.salakAmount <= row.bought /\ row.bought <= row.savingAmount
  BY <1>3, <1>c, <1>k, <1>f, <1>a
<1>7. ~ row.isActive => row.savingAmount = row.bought
  <2> SUFFICES ASSUME Reached(g) PROVE s = goals[g].bought
    BY <1>3
  <2> QED BY <1>all, <1>c, <1>k, <1>f, <1>a
<1>e. ~ row.isActive => Reached(g) /\ row.savingAmount = row.salakAmount
  <2> SUFFICES ASSUME Reached(g) PROVE s = goals[g].salakAmount
    BY <1>3
  <2> QED BY <1>all, <1>f, <1>a
<1>8. row.savingAmount <= row.goalAmount BY <1>3, <1>c, <1>f, <1>a
<1>9. /\ DOMAIN goals' = DOMAIN goals /\ goals' \in [DOMAIN goals' -> Goal]
      /\ OneActiveGoal' /\ PositiveTargets' /\ GoalChecks'
      /\ CashBehindGoal' /\ ReachedMeansFull'
      /\ GoalSteps
  BY <1>2, <1>3, <1>4, <1>5, <1>6, <1>7, <1>8, <1>e, <1>g, <1>t, RowStep
<1>10. TypeOK' BY <1>9, <1>t, <1>mv DEF TypeOK
<1>11. Conservation'
  <2> SUFFICES ASSUME NEW v \in User
               PROVE  savings'[v] + kapook'[v] + salak'[v] + bank'[v] = StartingBalance
    BY DEF Conservation
  <2>1. /\ savings[v] + kapook[v] + salak[v] + bank[v] = StartingBalance
        /\ salak'[v] = salak[v]
        /\ savings[v] \in Nat /\ kapook[v] \in Nat
        /\ salak[v] \in Nat /\ bank[v] \in Int
    BY <1>mv DEF Conservation, TypeOK
  <2>2. CASE v = u
    <3>1. /\ savings'[v] = savings[v] + (a - fee) /\ kapook'[v] = kapook[v] - a
          /\ bank'[v] = bank[v] + fee
      BY <2>2, <1>t
    <3> HIDE DEF u
    <3> QED BY <3>1, <2>1, <1>a, <1>fee
  <2>3. CASE v # u BY <2>1, <2>3, <1>t
  <2> QED BY <2>2, <2>3
<1> QED BY <1>9, <1>10, <1>11

(* A holding minted within the rules is a well-typed row.                  *)
LEMMA MintType ==
    ASSUME TypeOK, NEW h \in HoldingId, NEW u \in User, NEW p \in Product,
           NEW a \in Nat, NEW g \in GoalId \cup {NoGoal}, MintHolding(h, u, p, a, g)
    PROVE  /\ DOMAIN holdings' \subseteq HoldingId
           /\ holdings' \in [DOMAIN holdings' -> Holding]
<1> DEFINE n == Units(p, a)
           row == [owner |-> u, product |-> p, amount |-> a, units |-> n,
                   goal |-> g, settled |-> FALSE]
<1>1. n \in Nat BY UnitsType
<1>2. holdings' = Insert(holdings, h, row) BY DEF MintHolding
<1> HIDE DEF n
<1>3. row \in Holding BY <1>1 DEF Holding
<1>4. /\ DOMAIN holdings \subseteq HoldingId
      /\ holdings \in [DOMAIN holdings -> Holding]
  BY DEF TypeOK
<1> HIDE DEF row
<1>5. /\ DOMAIN Insert(holdings, h, row) \subseteq HoldingId
      /\ Insert(holdings, h, row) \in [DOMAIN Insert(holdings, h, row) -> Holding]
  BY <1>3, <1>4, InsertType
<1> QED BY <1>2, <1>5

(* A purchase from a goal, by the customer or by the worker, spends cash   *)
(* the goal has and closes the goal only when the target is bought in full.*)
LEMMA PurchaseStep ==
    ASSUME IInv, NEW g \in Active, NEW a \in Int, NEW h \in HoldingId,
           buyFromGoalCore(g, a, h)
    PROVE  IInv' /\ GoalSteps
<1> USE DEF IInv
<1> DEFINE u == goals[g].owner
           p == goals[g].product
           s == goals[g].salakAmount + a
           b == goals[g].bought + a
           act == ~ goalCompleted(goals[g], s)
           row == [goals[g] EXCEPT !.salakAmount = s, !.bought = b,
                                   !.isActive = act, !.deferredUntil = Never,
                                   !.attempts = 0]
<1>g. g \in DOMAIN goals /\ goals[g].isActive BY DEF Active
<1>f. /\ goals[g] \in Goal /\ u \in User /\ p \in Product /\ g \in GoalId
      /\ goals[g].savingAmount \in Nat /\ goals[g].goalAmount \in Nat
      /\ goals[g].bought \in Nat /\ goals[g].salakAmount \in Nat
  BY <1>g, GoalFields
<1>a. /\ a \in Nat /\ a > 0
      /\ a <= goals[g].savingAmount - goals[g].salakAmount
      /\ kapook[u] >= a
  BY DEF buyFromGoalCore, PurchaseAllowed, ValidatePurchase, AvailableBalance,
         SufficientFunds
<1>mv. /\ kapook' = [kapook EXCEPT ![u] = kapook[u] - a]
       /\ salak' = [salak EXCEPT ![u] = salak[u] + a]
       /\ MintHolding(h, u, p, a, g)
       /\ UNCHANGED <<savings, bank, accepted, productActive, now>>
  BY DEF buyFromGoalCore
<1>2. goals' = [goals EXCEPT ![g] = row] BY DEF buyFromGoalCore
<1>n. kapook[u] \in Nat /\ salak[u] \in Nat BY <1>f DEF TypeOK
<1>t. /\ salak' \in [User -> Nat] /\ kapook' \in [User -> Nat]
      /\ salak'[u] = salak[u] + a /\ kapook'[u] = kapook[u] - a
      /\ \A v \in User \ {u} : salak'[v] = salak[v] /\ kapook'[v] = kapook[v]
  BY <1>a, <1>f, <1>n, <1>mv DEF TypeOK
<1>3. /\ row \in Goal
      /\ row.owner = u /\ row.goalAmount = goals[g].goalAmount
      /\ row.salakAmount = s /\ row.bought = b
      /\ row.savingAmount = goals[g].savingAmount
      /\ row.isActive = act
      /\ row.goalReachedAt = goals[g].goalReachedAt
  <2>1. s \in Nat /\ b \in Nat BY <1>f, <1>a
  <2>2. act \in BOOLEAN BY DEF goalCompleted
  <2> HIDE DEF s, b, act
  <2> QED BY <2>1, <2>2, <1>f DEF Goal
<1> HIDE DEF row
<1>c. /\ goals[g].salakAmount <= goals[g].bought
      /\ goals[g].bought <= goals[g].savingAmount
      /\ goals[g].savingAmount <= goals[g].goalAmount
      /\ kapook[u] = goals[g].savingAmount - goals[g].bought
  BY <1>g DEF GoalChecks, CashBehindGoal
<1>4. goals[g].goalReachedAt # Never <=> goals[g].savingAmount = goals[g].goalAmount
  BY DEF ReachedMeansFull, Reached
<1>5. kapook'[u] = row.savingAmount - row.bought BY <1>t, <1>3, <1>c, <1>f, <1>a
<1>6. row.salakAmount <= row.bought /\ row.bought <= row.savingAmount
  BY <1>3, <1>c, <1>f, <1>a
<1>7. ~ row.isActive => row.savingAmount = row.bought
  <2> SUFFICES ASSUME ~ act PROVE goals[g].savingAmount = b
    BY <1>3
  <2>1. s >= goals[g].goalAmount BY DEF goalCompleted
  <2> QED BY <2>1, <1>c, <1>f, <1>a
<1>e. ~ row.isActive => Reached(g) /\ row.salakAmount = row.goalAmount
  <2> SUFFICES ASSUME ~ act
               PROVE  goals[g].savingAmount = goals[g].goalAmount /\ s = goals[g].goalAmount
    BY <1>3, <1>4 DEF Reached
  <2>1. s >= goals[g].goalAmount BY DEF goalCompleted
  <2> QED BY <2>1, <1>c, <1>f, <1>a
<1>8. /\ row.savingAmount <= row.goalAmount
      /\ row.goalReachedAt # Never <=> row.savingAmount = row.goalAmount
  BY <1>3, <1>4, <1>c
<1>9. /\ DOMAIN goals' = DOMAIN goals /\ goals' \in [DOMAIN goals' -> Goal]
      /\ OneActiveGoal' /\ PositiveTargets' /\ GoalChecks'
      /\ CashBehindGoal' /\ ReachedMeansFull'
      /\ GoalSteps
  BY <1>2, <1>3, <1>5, <1>6, <1>7, <1>8, <1>e, <1>g, <1>t, RowStep
<1>10. /\ DOMAIN holdings' \subseteq HoldingId
       /\ holdings' \in [DOMAIN holdings' -> Holding]
  BY <1>mv, <1>f, <1>a, MintType
<1>11. TypeOK' BY <1>9, <1>10, <1>t, <1>mv DEF TypeOK
<1>12. Conservation'
  <2> SUFFICES ASSUME NEW v \in User
               PROVE  savings'[v] + kapook'[v] + salak'[v] + bank'[v] = StartingBalance
    BY DEF Conservation
  <2>1. /\ savings[v] + kapook[v] + salak[v] + bank[v] = StartingBalance
        /\ savings'[v] = savings[v] /\ bank'[v] = bank[v]
        /\ savings[v] \in Nat /\ kapook[v] \in Nat
        /\ salak[v] \in Nat /\ bank[v] \in Int
    BY <1>mv DEF Conservation, TypeOK
  <2>2. CASE v = u
    <3>1. salak'[v] = salak[v] + a /\ kapook'[v] = kapook[v] - a
      BY <2>2, <1>t
    <3> HIDE DEF u
    <3> QED BY <3>1, <2>1, <1>a
  <2>3. CASE v # u BY <2>1, <2>3, <1>t
  <2> QED BY <2>2, <2>3
<1> QED BY <1>9, <1>11, <1>12

(* A step that touches neither a goal nor the cash in a kapook leaves the  *)
(* goal part of the invariant alone.                                       *)
LEMMA SameGoals ==
    ASSUME IInv, goals' = goals, kapook' = kapook
    PROVE  /\ OneActiveGoal' /\ PositiveTargets' /\ GoalChecks'
           /\ CashBehindGoal' /\ ReachedMeansFull'
           /\ GoalSteps
BY DEF IInv, OneActiveGoal, PositiveTargets, GoalChecks, CashBehindGoal,
       ReachedMeansFull, Active, Reached, GoalSteps, GoalStep

(* A purchase from savings does not concern the kapook at all.             *)
LEMMA BuySalakStep ==
    ASSUME IInv, NEW u \in User, NEW p \in Product, NEW a \in Amount,
           NEW h \in HoldingId, BuySalak(u, p, a, h)
    PROVE  IInv' /\ GoalSteps
<1> USE DEF IInv
<1>a. a \in Nat /\ a > 0 /\ savings[u] >= a
  BY AmountAssumption DEF BuySalak, ValidatePurchase, SufficientFunds
<1>mv. /\ savings' = [savings EXCEPT ![u] = savings[u] - a]
       /\ salak' = [salak EXCEPT ![u] = salak[u] + a]
       /\ MintHolding(h, u, p, a, NoGoal)
       /\ UNCHANGED <<kapook, bank, accepted, goals, productActive, now>>
  BY DEF BuySalak
<1>n. savings[u] \in Nat /\ salak[u] \in Nat BY DEF TypeOK
<1>t. /\ salak' \in [User -> Nat] /\ savings' \in [User -> Nat]
      /\ salak'[u] = salak[u] + a /\ savings'[u] = savings[u] - a
      /\ \A v \in User \ {u} : salak'[v] = salak[v] /\ savings'[v] = savings[v]
  BY <1>a, <1>n, <1>mv DEF TypeOK
<1>1. /\ DOMAIN holdings' \subseteq HoldingId
      /\ holdings' \in [DOMAIN holdings' -> Holding]
  BY <1>mv, <1>a, MintType
<1>2. TypeOK' BY <1>1, <1>t, <1>mv DEF TypeOK
<1>3. Conservation'
  <2> SUFFICES ASSUME NEW v \in User
               PROVE  savings'[v] + kapook'[v] + salak'[v] + bank'[v] = StartingBalance
    BY DEF Conservation
  <2>1. /\ savings[v] + kapook[v] + salak[v] + bank[v] = StartingBalance
        /\ kapook'[v] = kapook[v] /\ bank'[v] = bank[v]
        /\ savings[v] \in Nat /\ kapook[v] \in Nat
        /\ salak[v] \in Nat /\ bank[v] \in Int
    BY <1>mv DEF Conservation, TypeOK
  <2>2. CASE v = u
    <3>1. salak'[v] = salak[v] + a /\ savings'[v] = savings[v] - a
      BY <2>2, <1>t
    <3> QED BY <3>1, <2>1, <1>a
  <2>3. CASE v # u BY <2>1, <2>3, <1>t
  <2> QED BY <2>2, <2>3
<1> QED BY <1>2, <1>3, <1>mv, SameGoals

(* A new goal starts empty beside an empty kapook account.                 *)
LEMMA CreateGoalStep ==
    ASSUME IInv, NEW u \in User, NEW p \in Product, NEW a \in Amount,
           NEW g \in GoalId, CreateGoal(u, p, a, g)
    PROVE  IInv' /\ GoalSteps
<1> USE DEF IInv
<1> DEFINE row == [owner |-> u, product |-> p, goalAmount |-> a,
                   savingAmount |-> 0, salakAmount |-> 0, bought |-> 0,
                   isActive |-> TRUE, goalReachedAt |-> Never,
                   deferredUntil |-> Never, attempts |-> 0,
                   createdAt |-> now, withdrawals |-> <<>>]
<1>a. a \in Nat /\ a > 0
  BY AmountAssumption DEF CreateGoal, ValidatePurchase
<1>1. /\ goals' = Insert(goals, g, row)
      /\ g \notin DOMAIN goals
      /\ \A x \in Active : goals[x].owner # u
      /\ UNCHANGED <<accounts, accepted, holdings, productActive, now>>
  BY DEF CreateGoal
<1>2. /\ row \in Goal /\ row.owner = u /\ row.goalAmount = a
      /\ row.savingAmount = 0 /\ row.salakAmount = 0 /\ row.bought = 0
      /\ row.isActive /\ row.goalReachedAt = Never
  <2>1. <<>> \in Seq(Withdrawal) OBVIOUS
  <2> QED BY <2>1, <1>a DEF Goal, TypeOK
<1> HIDE DEF row
<1>3. /\ DOMAIN goals' = DOMAIN goals \cup {g}
      /\ DOMAIN goals' \subseteq GoalId
      /\ goals' \in [DOMAIN goals' -> Goal]
      /\ goals'[g] = row
      /\ \A x \in DOMAIN goals : goals'[x] = goals[x]
  <2> DEFINE new == Insert(goals, g, row)
  <2>t. DOMAIN goals \subseteq GoalId /\ goals \in [DOMAIN goals -> Goal]
    BY DEF TypeOK
  <2>1. /\ DOMAIN new = DOMAIN goals \cup {g}
        /\ DOMAIN new \subseteq GoalId
        /\ new \in [DOMAIN new -> Goal]
        /\ new[g] = row
        /\ \A x \in DOMAIN goals \ {g} : new[x] = goals[x]
    BY <2>t, <1>2 DEF Insert
  <2>2. goals' = new /\ g \notin DOMAIN goals BY <1>1
  <2> HIDE DEF new
  <2> QED BY <2>1, <2>2
<1>4. Active' = Active \cup {g} /\ g \notin Active
  BY <1>3, <1>2, <1>1 DEF Active
<1>5. \A x \in Active : x \in DOMAIN goals /\ goals'[x] = goals[x]
  BY <1>3 DEF Active
<1>6. TypeOK' BY <1>3, <1>1 DEF TypeOK, accounts
<1>7. OneActiveGoal' BY <1>1, <1>2, <1>3, <1>4, <1>5 DEF OneActiveGoal
<1>8. PositiveTargets' BY <1>2, <1>3, <1>a DEF PositiveTargets
<1>9. GoalChecks' BY <1>2, <1>3, <1>a DEF GoalChecks
<1>10. ReachedMeansFull'
  BY <1>2, <1>3, <1>4, <1>5, <1>a DEF ReachedMeansFull, Reached
<1>11. CashBehindGoal'
  <2>1. kapook' = kapook BY <1>1 DEF accounts
  <2>2. kapook[u] = 0 BY <1>1 DEF CashBehindGoal
  <2> QED BY <2>1, <2>2, <1>2, <1>3, <1>4, <1>5 DEF CashBehindGoal
<1>12. Conservation' BY <1>1 DEF Conservation, accounts
<1>13. GoalSteps BY <1>3 DEF GoalSteps, GoalStep
<1> QED BY <1>6, <1>7, <1>8, <1>9, <1>10, <1>11, <1>12, <1>13

(* A settlement moves principal and interest to the savings account; of    *)
(* the goal it changes salakAmount only, and only downwards.               *)
LEMMA SettleStep ==
    ASSUME IInv, NEW h \in DOMAIN holdings, SettleMaturedHolding(h)
    PROVE  IInv' /\ GoalSteps
<1> USE DEF IInv
<1> DEFINE hold == holdings[h]
           u == hold.owner
           k == hold.goal
           i == Interest(h)
<1>f. hold \in Holding /\ u \in User /\ hold.amount \in Nat /\ i \in Nat
  BY InterestType DEF TypeOK, Holding
<1>mv. /\ salak[u] >= hold.amount
       /\ salak' = [salak EXCEPT ![u] = salak[u] - hold.amount]
       /\ savings' = [savings EXCEPT ![u] = savings[u] + (hold.amount + i)]
       /\ bank' = [bank EXCEPT ![u] = bank[u] - i]
       /\ holdings' = [holdings EXCEPT ![h] = [hold EXCEPT !.settled = TRUE]]
       /\ UNCHANGED <<kapook, accepted, productActive, now>>
  BY DEF SettleMaturedHolding, SufficientFunds, Payout
<1>gs. \/ goals' = goals
       \/ goals' = [goals EXCEPT ![k] =
                      [goals[k] EXCEPT !.salakAmount =
                         SalakAfterExpiration(goals[k], hold.amount)]]
  BY DEF SettleMaturedHolding
<1> HIDE DEF i
<1>n. savings[u] \in Nat /\ salak[u] \in Nat /\ bank[u] \in Int
  BY <1>f DEF TypeOK
<1>t. /\ salak' \in [User -> Nat] /\ savings' \in [User -> Nat]
      /\ bank' \in [User -> Int]
      /\ salak'[u] = salak[u] - hold.amount
      /\ savings'[u] = savings[u] + hold.amount + i
      /\ bank'[u] = bank[u] - i
      /\ \A v \in User \ {u} : /\ salak'[v] = salak[v]
                               /\ savings'[v] = savings[v]
                               /\ bank'[v] = bank[v]
  <2>1. /\ salak[u] - hold.amount \in Nat /\ savings[u] + hold.amount + i \in Nat
        /\ bank[u] - i \in Int
    BY <1>f, <1>n, <1>mv
  <2> QED BY <2>1, <1>f, <1>mv DEF TypeOK
<1>1. /\ DOMAIN holdings' \subseteq HoldingId
      /\ holdings' \in [DOMAIN holdings' -> Holding]
  <2>1. [hold EXCEPT !.settled = TRUE] \in Holding BY <1>f DEF Holding
  <2> QED BY <2>1, <1>mv DEF TypeOK
<1>2. /\ DOMAIN goals' = DOMAIN goals /\ goals' \in [DOMAIN goals' -> Goal]
      /\ OneActiveGoal' /\ PositiveTargets' /\ GoalChecks'
      /\ CashBehindGoal' /\ ReachedMeansFull'
      /\ GoalSteps
  <2>1. CASE goals' = goals \/ k \notin DOMAIN goals
    <3>1. goals' = goals BY <2>1, <1>gs DEF TypeOK
    <3> QED BY <3>1, <1>mv, SameGoals DEF TypeOK
  <2>2. CASE goals' # goals /\ k \in DOMAIN goals
    <3> DEFINE s == SalakAfterExpiration(goals[k], hold.amount)
               row == [goals[k] EXCEPT !.salakAmount = s]
    <3>1. goals' = [goals EXCEPT ![k] = row] BY <2>2, <1>gs
    <3>f. /\ goals[k] \in Goal /\ goals[k].salakAmount \in Nat
          /\ goals[k].bought \in Nat /\ goals[k].savingAmount \in Nat
          /\ goals[k].goalAmount \in Nat /\ goals[k].owner \in User
      BY <2>2, GoalFields
    <3>s. s \in Nat /\ s <= goals[k].salakAmount
      BY <3>f, <1>f DEF SalakAfterExpiration
    <3> HIDE DEF s
    <3>2. /\ row \in Goal /\ row.salakAmount = s
          /\ row.owner = goals[k].owner /\ row.goalAmount = goals[k].goalAmount
          /\ row.savingAmount = goals[k].savingAmount
          /\ row.bought = goals[k].bought /\ row.isActive = goals[k].isActive
          /\ row.goalReachedAt = goals[k].goalReachedAt
      BY <3>f, <3>s DEF Goal
    <3> HIDE DEF row
    <3>3. /\ row.salakAmount <= row.bought /\ row.bought <= row.savingAmount
          /\ row.savingAmount <= row.goalAmount
      BY <3>2, <3>s, <3>f, <2>2 DEF GoalChecks
    <3>4. row.isActive =>
            (row.goalReachedAt # Never <=> row.savingAmount = row.goalAmount)
      BY <3>2, <2>2 DEF ReachedMeansFull, Reached, Active
    <3>5. goals[k].isActive =>
            kapook[row.owner] = row.savingAmount - row.bought
      BY <3>2, <2>2 DEF CashBehindGoal, Active
    <3>6. kapook' = kapook BY <1>mv
    <3> QED BY <2>2, <3>1, <3>2, <3>3, <3>4, <3>5, <3>6, RowStep
  <2> QED BY <2>1, <2>2
<1>3. TypeOK' BY <1>1, <1>2, <1>t, <1>mv DEF TypeOK
<1>4. Conservation'
  <2> SUFFICES ASSUME NEW v \in User
               PROVE  savings'[v] + kapook'[v] + salak'[v] + bank'[v] = StartingBalance
    BY DEF Conservation
  <2>1. /\ savings[v] + kapook[v] + salak[v] + bank[v] = StartingBalance
        /\ kapook'[v] = kapook[v]
        /\ savings[v] \in Nat /\ kapook[v] \in Nat
        /\ salak[v] \in Nat /\ bank[v] \in Int
    BY <1>mv DEF Conservation, TypeOK
  <2>2. CASE v = u
    <3>1. /\ salak'[v] = salak[v] - hold.amount /\ bank'[v] = bank[v] - i
          /\ savings'[v] = savings[v] + hold.amount + i
      BY <2>2, <1>t
    <3> HIDE DEF u
    <3> QED BY <3>1, <2>1, <1>f
  <2>3. CASE v # u BY <2>1, <2>3, <1>t
  <2> QED BY <2>2, <2>3
<1> QED BY <1>2, <1>3, <1>4

(* Deferring a purchase or recording a failure changes no money and none   *)
(* of the amounts of the goal.                                             *)
LEMMA WorkerBookkeepingStep ==
    ASSUME IInv, NEW g \in Active, DeferAutoPurchase(g) \/ FailAutoPurchase(g)
    PROVE  IInv' /\ GoalSteps
<1> USE DEF IInv
<1>g. g \in DOMAIN goals /\ goals[g].isActive BY DEF Active
<1>f. goals[g] \in Goal /\ goals[g].attempts \in Nat
  BY <1>g DEF TypeOK, Goal
<1>u. UNCHANGED <<accounts, accepted, holdings, productActive, now>>
  BY DEF DeferAutoPurchase, FailAutoPurchase
<1>1. \E row \in Goal :
         /\ goals' = [goals EXCEPT ![g] = row]
         /\ row.owner = goals[g].owner /\ row.goalAmount = goals[g].goalAmount
         /\ row.savingAmount = goals[g].savingAmount
         /\ row.salakAmount = goals[g].salakAmount
         /\ row.bought = goals[g].bought /\ row.isActive = goals[g].isActive
         /\ row.goalReachedAt = goals[g].goalReachedAt
  <2>1. CASE DeferAutoPurchase(g)
    <3>1. PICK d \in {Date(now) + i : i \in 1..SearchLimit} :
             goals' = [goals EXCEPT ![g] = [goals[g] EXCEPT !.deferredUntil = d]]
      BY <2>1 DEF DeferAutoPurchase
    <3>2. d \in Nat
      <4>1. Date(now) \in Nat BY DateType DEF TypeOK
      <4> QED BY <4>1, <3>1, TimeAssumption
    <3> DEFINE row == [goals[g] EXCEPT !.deferredUntil = d]
    <3>3. /\ row \in Goal
          /\ row.owner = goals[g].owner /\ row.goalAmount = goals[g].goalAmount
          /\ row.savingAmount = goals[g].savingAmount
          /\ row.salakAmount = goals[g].salakAmount
          /\ row.bought = goals[g].bought /\ row.isActive = goals[g].isActive
          /\ row.goalReachedAt = goals[g].goalReachedAt
      BY <3>2, <1>f DEF Goal
    <3>4. goals' = [goals EXCEPT ![g] = row] BY <3>1
    <3> HIDE DEF row
    <3> QED BY <3>3, <3>4
  <2>2. CASE FailAutoPurchase(g)
    <3> DEFINE n == goals[g].attempts + 1
               row == [goals[g] EXCEPT !.attempts = n]
    <3>1. goals' = [goals EXCEPT ![g] = row] BY <2>2 DEF FailAutoPurchase
    <3>2. n \in Nat BY <1>f
    <3> HIDE DEF n
    <3>3. /\ row \in Goal
          /\ row.owner = goals[g].owner /\ row.goalAmount = goals[g].goalAmount
          /\ row.savingAmount = goals[g].savingAmount
          /\ row.salakAmount = goals[g].salakAmount
          /\ row.bought = goals[g].bought /\ row.isActive = goals[g].isActive
          /\ row.goalReachedAt = goals[g].goalReachedAt
      BY <3>2, <1>f DEF Goal
    <3> HIDE DEF row
    <3> QED BY <3>1, <3>3
  <2> QED BY <2>1, <2>2
<1>2. PICK row \in Goal :
         /\ goals' = [goals EXCEPT ![g] = row]
         /\ row.owner = goals[g].owner /\ row.goalAmount = goals[g].goalAmount
         /\ row.savingAmount = goals[g].savingAmount
         /\ row.salakAmount = goals[g].salakAmount
         /\ row.bought = goals[g].bought /\ row.isActive = goals[g].isActive
         /\ row.goalReachedAt = goals[g].goalReachedAt
  BY <1>1
<1>3. /\ row.salakAmount <= row.bought /\ row.bought <= row.savingAmount
      /\ row.savingAmount <= row.goalAmount
      /\ kapook[row.owner] = row.savingAmount - row.bought
      /\ row.goalReachedAt # Never <=> row.savingAmount = row.goalAmount
      /\ row.isActive
  BY <1>2, <1>g DEF GoalChecks, CashBehindGoal, ReachedMeansFull, Reached
<1>4. kapook' = kapook BY <1>u DEF accounts
<1>5. /\ DOMAIN goals' = DOMAIN goals /\ goals' \in [DOMAIN goals' -> Goal]
      /\ OneActiveGoal' /\ PositiveTargets' /\ GoalChecks'
      /\ CashBehindGoal' /\ ReachedMeansFull'
      /\ GoalSteps
  BY <1>2, <1>3, <1>4, <1>g, RowStep
<1>6. TypeOK' BY <1>5, <1>u DEF TypeOK, accounts
<1>7. Conservation' BY <1>u DEF Conservation, accounts
<1> QED BY <1>5, <1>6, <1>7

(* The database right after registration satisfies the invariant.          *)
LEMMA InitInvariant == Init => IInv
<1> SUFFICES ASSUME Init PROVE IInv
  OBVIOUS
<1>1. DOMAIN goals = {} /\ DOMAIN holdings = {} /\ Active = {}
  BY DEF Init, Active
<1>2. TypeOK BY <1>1, AmountAssumption DEF Init, TypeOK
<1>3. OneActiveGoal /\ PositiveTargets /\ GoalChecks /\ ReachedMeansFull
  BY <1>1 DEF OneActiveGoal, PositiveTargets, GoalChecks, ReachedMeansFull
<1>4. CashBehindGoal BY <1>1 DEF Init, CashBehindGoal
<1>5. Conservation BY AmountAssumption DEF Init, Conservation
<1> QED BY <1>2, <1>3, <1>4, <1>5 DEF IInv

(* Every step of the service or of the worker keeps the invariant and      *)
(* respects the life cycle of every goal.                                  *)
LEMMA StepInvariant == IInv /\ [Next]_vars => IInv' /\ GoalSteps
<1> SUFFICES ASSUME IInv, [Next]_vars PROVE IInv' /\ GoalSteps
  OBVIOUS
<1> USE DEF IInv
<1>1. ASSUME NEW u \in User, Accept(u) PROVE IInv' /\ GoalSteps
  <2>1. /\ goals' = goals /\ kapook' = kapook /\ savings' = savings
        /\ salak' = salak /\ bank' = bank /\ accepted' = accepted \cup {u}
        /\ UNCHANGED <<holdings, productActive, now>>
    BY <1>1 DEF Accept, accounts
  <2>2. TypeOK' BY <2>1 DEF TypeOK
  <2>3. Conservation' BY <2>1 DEF Conservation
  <2> QED BY <2>1, <2>2, <2>3, SameGoals
<1>2. ASSUME NEW p \in Product, NEW b \in BOOLEAN, UpsertProduct(p, b)
      PROVE  IInv' /\ GoalSteps
  <2>1. /\ goals' = goals /\ kapook' = kapook /\ savings' = savings
        /\ salak' = salak /\ bank' = bank
        /\ productActive' = [productActive EXCEPT ![p] = b]
        /\ UNCHANGED <<accepted, holdings, now>>
    BY <1>2 DEF UpsertProduct, accounts
  <2>2. TypeOK' BY <2>1 DEF TypeOK
  <2>3. Conservation' BY <2>1 DEF Conservation
  <2> QED BY <2>1, <2>2, <2>3, SameGoals
<1>3. ASSUME Tick \/ UNCHANGED vars PROVE IInv' /\ GoalSteps
  <2>1. /\ goals' = goals /\ kapook' = kapook /\ savings' = savings
        /\ salak' = salak /\ bank' = bank /\ (now' = now + 1 \/ now' = now)
        /\ UNCHANGED <<accepted, holdings, productActive>>
    BY <1>3 DEF Tick, vars, accounts
  <2>2. TypeOK' BY <2>1 DEF TypeOK
  <2>3. Conservation' BY <2>1 DEF Conservation
  <2> QED BY <2>1, <2>2, <2>3, SameGoals
<1>4. ASSUME NEW g \in Active, NEW h \in HoldingId, AutoPurchase(g, h)
      PROVE  IInv' /\ GoalSteps
  <2>1. g \in DOMAIN goals BY DEF Active
  <2>2. AvailableBalance(g) \in Int BY <2>1, GoalFields DEF AvailableBalance
  <2> QED BY <1>4, <2>2, PurchaseStep DEF AutoPurchase
<1>5. ASSUME NEW g \in Active, NEW a \in Amount, NEW h \in HoldingId, BuyFromGoal(g, a, h)
      PROVE  IInv' /\ GoalSteps
  BY <1>5, AmountAssumption, PurchaseStep DEF BuyFromGoal
<1>6. CASE \E u \in User, p \in Product, a \in Amount, g \in GoalId : CreateGoal(u, p, a, g)
  BY <1>6, CreateGoalStep
<1>7. CASE \E u \in User, p \in Product, a \in Amount, h \in HoldingId : BuySalak(u, p, a, h)
  BY <1>7, BuySalakStep
<1>8. CASE \E g \in Active, a \in Amount : Deposit(g, a)
  BY <1>8, DepositStep
<1>9. CASE \E g \in Active, a \in Amount : Withdraw(g, a)
  BY <1>9, WithdrawStep
<1>10. CASE \E h \in DOMAIN holdings : SettleMaturedHolding(h)
  BY <1>10, SettleStep
<1>11. CASE \E g \in Active : DeferAutoPurchase(g) \/ FailAutoPurchase(g)
  BY <1>11, WorkerBookkeepingStep
<1> QED BY <1>1, <1>2, <1>3, <1>4, <1>5, <1>6, <1>7, <1>8, <1>9, <1>10, <1>11 DEF Next

-----------------------------------------------------------------------------
(***************************************************************************)
(* The second invariant: what a goal was created for, how it may be        *)
(* bought, and which of its withdrawals paid a fee.  Targets and purchases *)
(* are multiples of the purchase step, so what is left to buy is one too;  *)
(* an active goal still has something to buy; and a withdrawal was charged *)
(* exactly when two earlier ones fell into the same year.                  *)
(***************************************************************************)
SoldInSteps ==
    \A g \in DOMAIN goals :
        /\ ValidatePurchase(goals[g].product, goals[g].goalAmount)
        /\ goals[g].bought % Rules[goals[g].product].step = 0

ShortOfTarget == \A g \in Active : goals[g].salakAmount < goals[g].goalAmount

PurchaseInv == SoldInSteps /\ ShortOfTarget /\ FreeAllowance

(* Sums and differences of multiples of a step are multiples of it.        *)
LEMMA MultipleOfStep ==
    ASSUME NEW d \in Nat \ {0}, NEW m \in Nat, NEW n \in Nat, m % d = 0, n % d = 0
    PROVE  /\ (m + n) % d = 0
           /\ (m - n) % d = 0
<1> DEFINE q == m \div d
           r == n \div d
<1>1. q \in Int /\ r \in Int OBVIOUS
<1>2. m = d * q /\ n = d * r
  <2>1. m = d * (m \div d) + (m % d) OBVIOUS
  <2>2. n = d * (n \div d) + (n % d) OBVIOUS
  <2>3. d * q \in Int /\ d * r \in Int BY <1>1
  <2> HIDE DEF q, r
  <2> QED BY <2>1, <2>2, <2>3 DEF q, r
<1> HIDE DEF q, r
<1>3. ASSUME NEW z \in Int PROVE (d * z) % d = 0 OBVIOUS
<1>4. q + r \in Int /\ q - r \in Int BY <1>1
<1>5. m + n = d * (q + r) /\ m - n = d * (q - r) BY <1>1, <1>2
<1>6. (d * (q + r)) % d = 0 /\ (d * (q - r)) % d = 0 BY <1>3, <1>4
<1> QED BY <1>5, <1>6

(* A positive multiple of a step is at least one step.                     *)
LEMMA MultipleIsAStep ==
    ASSUME NEW d \in Nat \ {0}, NEW m \in Nat, m % d = 0, m > 0
    PROVE  m >= d
OBVIOUS

(* Two of n positions are in S exactly when S counts two.                  *)
LEMMA TwoOfThem ==
    ASSUME NEW n \in Nat, NEW S \in SUBSET (1..n)
    PROVE  Cardinality(S) >= 2 <=> \E j, k \in 1..n : j < k /\ j \in S /\ k \in S
<1>1. IsFiniteSet(S) /\ Cardinality(S) \in Nat
  <2>1. IsFiniteSet(1..n) BY FS_Interval
  <2>2. IsFiniteSet(S) BY <2>1, FS_Subset
  <2> QED BY <2>2, FS_CardinalityType
<1>2. ASSUME NEW j \in S, NEW k \in S, j # k PROVE Cardinality(S) >= 2
  <2>1. Cardinality(S \ {j}) = Cardinality(S) - 1 /\ IsFiniteSet(S \ {j})
    BY <1>1, FS_RemoveElement
  <2>2. Cardinality(S \ {j}) # 0 BY <1>2, <2>1, FS_EmptySet
  <2>3. Cardinality(S \ {j}) \in Nat BY <2>1, FS_CardinalityType
  <2> QED BY <2>1, <2>2, <2>3, <1>1
<1>3. ASSUME Cardinality(S) >= 2 PROVE \E j, k \in S : j # k
  <2>1. S # {} BY <1>3, <1>1, FS_EmptySet
  <2>2. PICK j \in S : TRUE BY <2>1
  <2>3. S # {j} BY <1>3, FS_Singleton
  <2> QED BY <2>2, <2>3
<1> QED BY <1>2, <1>3

(* The fee question a withdrawal answers is the one FreeAllowance asks of  *)
(* its own row.                                                            *)
LEMMA AllowanceCounts ==
    ASSUME TypeOK, NEW g \in DOMAIN goals
    PROVE  LET w == goals[g].withdrawals
           IN  withdrawalAllowance(g) >= freeWithdrawalsPerWindow <=>
                 \E j, k \in 1..Len(w) :
                    /\ j < k
                    /\ WindowOf(g, w[j].at) = WindowOf(g, now)
                    /\ WindowOf(g, w[k].at) = WindowOf(g, now)
<1> DEFINE w == goals[g].withdrawals
           S == {i \in 1..Len(w) : WindowOf(g, w[i].at) = WindowOf(g, now)}
<1>1. Len(w) \in Nat BY GoalFields
<1>2. S \in SUBSET (1..Len(w)) OBVIOUS
<1>3. Cardinality(S) >= 2 <=> \E j, k \in 1..Len(w) : j < k /\ j \in S /\ k \in S
  <2> HIDE DEF S, w
  <2> QED BY <1>1, <1>2, TwoOfThem
<1> QED BY <1>3 DEF withdrawalAllowance, freeWithdrawalsPerWindow

(* What a step that replaces one goal row has to keep.                     *)
LEMMA RowKeepsTerms ==
    ASSUME IInv, PurchaseInv, NEW g \in DOMAIN goals, NEW row \in Goal,
           goals' = [goals EXCEPT ![g] = row],
           row.product = goals[g].product,
           row.goalAmount = goals[g].goalAmount,
           row.createdAt = goals[g].createdAt,
           row.bought % Rules[row.product].step = 0,
           row.isActive => row.salakAmount < row.goalAmount,
           \/ row.withdrawals = goals[g].withdrawals
           \/ row.withdrawals =
                Append(goals[g].withdrawals,
                       [at |-> now, withFee |-> withdrawalAllowance(g)
                                                  >= freeWithdrawalsPerWindow])
    PROVE  PurchaseInv'
<1> USE DEF IInv
<1>1. /\ DOMAIN goals' = DOMAIN goals
      /\ goals'[g] = row
      /\ \A x \in DOMAIN goals \ {g} : goals'[x] = goals[x]
  BY DEF TypeOK
<1>2. SoldInSteps' BY <1>1 DEF PurchaseInv, SoldInSteps, ValidatePurchase
<1>3. ShortOfTarget' BY <1>1 DEF PurchaseInv, ShortOfTarget, Active
<1>4. FreeAllowance'
  <2> DEFINE Fair(w, c, i) ==
               w[i].withFee <=>
                 \E j, k \in 1..(i - 1) :
                    /\ j < k
                    /\ (w[j].at - c) \div Year = (w[i].at - c) \div Year
                    /\ (w[k].at - c) \div Year = (w[i].at - c) \div Year
  <2>1. \A x \in DOMAIN goals : \A i \in 1..Len(goals[x].withdrawals) :
           Fair(goals[x].withdrawals, goals[x].createdAt, i)
    BY DEF PurchaseInv, FreeAllowance, WindowOf
  <2>2. \A i \in 1..Len(row.withdrawals) : Fair(row.withdrawals, row.createdAt, i)
    <3>1. CASE row.withdrawals = goals[g].withdrawals
      <4> HIDE DEF Fair
      <4> QED BY <3>1, <2>1
    <3>2. CASE row.withdrawals # goals[g].withdrawals
      <4> DEFINE old == goals[g].withdrawals
                 n == Len(old)
                 c == row.createdAt
                 charged == withdrawalAllowance(g) >= freeWithdrawalsPerWindow
                 new == Append(old, [at |-> now, withFee |-> charged])
      <4>1. old \in Seq(Withdrawal) /\ n \in Nat /\ charged \in BOOLEAN
        BY GoalFields
      <4>2. charged <=>
              \E j, k \in 1..n :
                 /\ j < k
                 /\ (old[j].at - c) \div Year = (now - c) \div Year
                 /\ (old[k].at - c) \div Year = (now - c) \div Year
        BY AllowanceCounts DEF WindowOf
      <4> HIDE DEF charged
      <4>3. /\ Len(new) = n + 1
            /\ \A i \in 1..n : new[i] = old[i]
            /\ new[n + 1].at = now /\ new[n + 1].withFee = charged
        BY <4>1
      <4> HIDE DEF new, n
      <4>4. \A i \in 1..n : Fair(old, c, i) 
        <5>1. \A i \in 1..Len(old) : Fair(old, goals[g].createdAt, i)
          <6> HIDE DEF Fair
          <6> QED BY <2>1
        <5> QED BY <5>1 DEF n
      <4>5. ASSUME NEW i \in 1..n PROVE Fair(new, c, i)
        <5>1. \A j \in 1..(i - 1) : new[j] = old[j] BY <4>1, <4>3
        <5>2. new[i] = old[i] /\ Fair(old, c, i) BY <4>3, <4>4
        <5>3. ASSUME NEW j \in 1..(i - 1), NEW k \in 1..(i - 1)
              PROVE  new[j].at = old[j].at /\ new[k].at = old[k].at
          BY <5>1
        <5> HIDE DEF c, old
        <5> QED BY <5>2, <5>3
      <4>6. Fair(new, c, n + 1)
        <5>1. (n + 1) - 1 = n BY <4>1
        <5> QED BY <5>1, <4>2, <4>3
      <4>7. \A i \in 1..(n + 1) : i \in 1..n \/ i = n + 1 BY <4>1
      <4>8. row.withdrawals = new BY <3>2 DEF new, charged
      <4> HIDE DEF Fair
      <4> QED BY <4>3, <4>5, <4>6, <4>7, <4>8
    <3> QED BY <3>1, <3>2
  <2>3. \A x \in DOMAIN goals : \A i \in 1..Len(goals'[x].withdrawals) :
           Fair(goals'[x].withdrawals, goals'[x].createdAt, i)
    <3> HIDE DEF Fair
    <3> QED BY <1>1, <2>1, <2>2
  <2> QED BY <1>1, <2>3 DEF FreeAllowance, WindowOf
<1> QED BY <1>2, <1>3, <1>4 DEF PurchaseInv

(* No step sells a goal out of its steps, leaves a bought-out goal active  *)
(* or charges the wrong withdrawal.                                        *)
LEMMA PurchaseInvStep == IInv /\ PurchaseInv /\ [Next]_vars => PurchaseInv'
<1> SUFFICES ASSUME IInv, PurchaseInv, [Next]_vars PROVE PurchaseInv'
  OBVIOUS
<1> USE DEF IInv
<1>same. ASSUME goals' = goals PROVE PurchaseInv'
  BY <1>same DEF PurchaseInv, SoldInSteps, ShortOfTarget, FreeAllowance,
                 ValidatePurchase, WindowOf, Active
<1>row. ASSUME NEW g \in DOMAIN goals
        PROVE  /\ goals[g] \in Goal
               /\ goals[g].bought % Rules[goals[g].product].step = 0
               /\ goals[g].isActive => goals[g].salakAmount < goals[g].goalAmount
  BY GoalFields DEF PurchaseInv, SoldInSteps, ShortOfTarget, Active
<1>1. CASE \E u \in User, p \in Product, a \in Amount, h \in HoldingId : BuySalak(u, p, a, h)
  BY <1>1, <1>same DEF BuySalak
<1>2. CASE \/ \E u \in User : Accept(u)
           \/ \E p \in Product, b \in BOOLEAN : UpsertProduct(p, b)
           \/ Tick
           \/ UNCHANGED vars
  BY <1>2, <1>same DEF Accept, UpsertProduct, Tick, vars
<1>3. ASSUME NEW u \in User, NEW p \in Product, NEW a \in Amount, NEW g \in GoalId,
             CreateGoal(u, p, a, g)
      PROVE  PurchaseInv'
  <2> DEFINE row == [owner |-> u, product |-> p, goalAmount |-> a,
                     savingAmount |-> 0, salakAmount |-> 0, bought |-> 0,
                     isActive |-> TRUE, goalReachedAt |-> Never,
                     deferredUntil |-> Never, attempts |-> 0,
                     createdAt |-> now, withdrawals |-> <<>>]
  <2>1. /\ DOMAIN goals' = DOMAIN goals \cup {g}
        /\ goals'[g] = row
        /\ \A x \in DOMAIN goals : goals'[x] = goals[x]
    <3>1. goals' = Insert(goals, g, row) /\ g \notin DOMAIN goals
      BY <1>3 DEF CreateGoal
    <3> HIDE DEF row
    <3> QED BY <3>1 DEF Insert
  <2>2. ValidatePurchase(p, a) /\ a \in Nat /\ a > 0
    BY <1>3, AmountAssumption DEF CreateGoal, ValidatePurchase
  <2>3. 0 % Rules[p].step = 0
    BY RulesAssumption DEF RuleSet
  <2>4. /\ row.product = p /\ row.goalAmount = a /\ row.bought = 0
        /\ row.salakAmount = 0 /\ row.withdrawals = <<>>
    OBVIOUS
  <2> HIDE DEF row
  <2>5. SoldInSteps'
    BY <2>1, <2>2, <2>3, <2>4 DEF PurchaseInv, SoldInSteps, ValidatePurchase
  <2>6. ShortOfTarget'
    BY <2>1, <2>2, <2>4 DEF PurchaseInv, ShortOfTarget, Active
  <2>7. FreeAllowance'
    <3> DEFINE Fair(w, c, i) ==
                 w[i].withFee <=>
                   \E j, k \in 1..(i - 1) :
                      /\ j < k
                      /\ (w[j].at - c) \div Year = (w[i].at - c) \div Year
                      /\ (w[k].at - c) \div Year = (w[i].at - c) \div Year
    <3>1. \A x \in DOMAIN goals : \A i \in 1..Len(goals[x].withdrawals) :
             Fair(goals[x].withdrawals, goals[x].createdAt, i)
      BY DEF PurchaseInv, FreeAllowance, WindowOf
    <3>2. Len(goals'[g].withdrawals) = 0 BY <2>1, <2>4
    <3>3. 1..0 = {} OBVIOUS
    <3>4. \A x \in DOMAIN goals' : \A i \in 1..Len(goals'[x].withdrawals) :
             Fair(goals'[x].withdrawals, goals'[x].createdAt, i)
      <4> HIDE DEF Fair
      <4> QED BY <3>1, <3>2, <3>3, <2>1
    <3> QED BY <3>4 DEF FreeAllowance, WindowOf
  <2> QED BY <2>5, <2>6, <2>7 DEF PurchaseInv
<1>4. ASSUME NEW g \in Active, NEW a \in Amount, Deposit(g, a) PROVE PurchaseInv'
  <2> DEFINE s == goals[g].savingAmount + a
             r == ReachedStamp(goals[g], s)
             row == [goals[g] EXCEPT !.savingAmount = s, !.goalReachedAt = r]
  <2>g. g \in DOMAIN goals /\ goals[g].isActive BY DEF Active
  <2>1. goals' = [goals EXCEPT ![g] = row] BY <1>4 DEF Deposit
  <2>2. s \in Nat /\ r \in Nat \cup {Never}
    <3>1. a \in Nat BY <1>4, AmountAssumption DEF Deposit
    <3> QED BY <3>1, <2>g, GoalFields DEF TypeOK, ReachedStamp
  <2> HIDE DEF s, r
  <2>3. /\ row \in Goal /\ row.product = goals[g].product
        /\ row.goalAmount = goals[g].goalAmount
        /\ row.createdAt = goals[g].createdAt /\ row.bought = goals[g].bought
        /\ row.salakAmount = goals[g].salakAmount
        /\ row.withdrawals = goals[g].withdrawals
    BY <2>2, <2>g, GoalFields DEF Goal
  <2> HIDE DEF row
  <2> QED BY <2>1, <2>3, <2>g, <1>row, RowKeepsTerms
<1>5. ASSUME NEW g \in Active, NEW a \in Amount, Withdraw(g, a) PROVE PurchaseInv'
  <2> DEFINE s == goals[g].savingAmount - a
             b == ~ Reached(g)
             charged == withdrawalAllowance(g) >= freeWithdrawalsPerWindow
             entry == [at |-> now, withFee |-> charged]
             w == Append(goals[g].withdrawals, entry)
             row == [goals[g] EXCEPT !.savingAmount = s, !.isActive = b,
                                     !.withdrawals = w]
  <2>g. g \in DOMAIN goals /\ goals[g].isActive BY DEF Active
  <2>1. goals' = [goals EXCEPT ![g] = row] BY <1>5 DEF Withdraw
  <2>2. s \in Nat /\ b \in BOOLEAN /\ w \in Seq(Withdrawal)
    <3>1. a \in Nat /\ a <= goals[g].savingAmount - goals[g].salakAmount
      BY <1>5, AmountAssumption DEF Withdraw, WithdrawalAllowed, AvailableBalance
    <3>2. s \in Nat BY <3>1, <2>g, GoalFields
    <3>3. b \in BOOLEAN BY DEF Reached
    <3>4. charged \in BOOLEAN OBVIOUS
    <3> HIDE DEF charged
    <3>5. entry \in Withdrawal BY <3>4 DEF Withdrawal, TypeOK
    <3> QED BY <3>2, <3>3, <3>5, <2>g, GoalFields
  <2> HIDE DEF s, b, w
  <2>3. /\ row \in Goal /\ row.product = goals[g].product
        /\ row.goalAmount = goals[g].goalAmount
        /\ row.createdAt = goals[g].createdAt /\ row.bought = goals[g].bought
        /\ row.salakAmount = goals[g].salakAmount
        /\ row.withdrawals = w
    BY <2>2, <2>g, GoalFields DEF Goal
  <2> HIDE DEF row
  <2> QED BY <2>1, <2>3, <2>g, <1>row, RowKeepsTerms DEF w
<1>6. ASSUME NEW g \in Active, NEW a \in Int, NEW h \in HoldingId, buyFromGoalCore(g, a, h)
      PROVE  PurchaseInv'
  <2> DEFINE s == goals[g].salakAmount + a
             b == goals[g].bought + a
             act == ~ goalCompleted(goals[g], s)
             row == [goals[g] EXCEPT !.salakAmount = s, !.bought = b,
                                     !.isActive = act, !.deferredUntil = Never,
                                     !.attempts = 0]
  <2>g. g \in DOMAIN goals /\ goals[g].isActive BY DEF Active
  <2>f. /\ goals[g] \in Goal /\ goals[g].salakAmount \in Nat
        /\ goals[g].bought \in Nat /\ goals[g].goalAmount \in Nat
        /\ goals[g].product \in Product
    BY <2>g, GoalFields
  <2>1. goals' = [goals EXCEPT ![g] = row] BY <1>6 DEF buyFromGoalCore
  <2>a. a \in Nat /\ a % Rules[goals[g].product].step = 0
    BY <1>6 DEF buyFromGoalCore, PurchaseAllowed, ValidatePurchase
  <2>2. s \in Nat /\ b \in Nat /\ act \in BOOLEAN
    BY <2>a, <2>f DEF goalCompleted
  <2>3. b % Rules[goals[g].product].step = 0
    <3>1. Rules[goals[g].product].step \in Nat \ {0}
      BY <2>f, RulesAssumption DEF RuleSet
    <3>2. goals[g].bought % Rules[goals[g].product].step = 0 BY <2>g, <1>row
    <3> QED BY <3>1, <3>2, <2>a, <2>f, MultipleOfStep
  <2>4. act => s < goals[g].goalAmount BY <2>2, <2>f DEF goalCompleted
  <2> HIDE DEF s, b, act
  <2>5. /\ row \in Goal /\ row.product = goals[g].product
        /\ row.goalAmount = goals[g].goalAmount
        /\ row.createdAt = goals[g].createdAt /\ row.bought = b
        /\ row.salakAmount = s /\ row.isActive = act
        /\ row.withdrawals = goals[g].withdrawals
    BY <2>2, <2>f DEF Goal
  <2> HIDE DEF row
  <2> QED BY <2>1, <2>3, <2>4, <2>5, <2>g, RowKeepsTerms
<1>7. ASSUME NEW h \in DOMAIN holdings, SettleMaturedHolding(h) PROVE PurchaseInv'
  <2> DEFINE k == holdings[h].goal
             s == SalakAfterExpiration(goals[k], holdings[h].amount)
             row == [goals[k] EXCEPT !.salakAmount = s]
  <2>1. goals' = goals \/ goals' = [goals EXCEPT ![k] = row]
    BY <1>7 DEF SettleMaturedHolding
  <2>2. CASE goals' = goals \/ k \notin DOMAIN goals
    <3>1. goals' = goals BY <2>1, <2>2 DEF TypeOK
    <3> QED BY <3>1, <1>same
  <2>3. CASE goals' # goals /\ k \in DOMAIN goals
    <3>f. /\ goals[k] \in Goal /\ goals[k].salakAmount \in Nat
          /\ goals[k].goalAmount \in Nat /\ holdings[h].amount \in Nat
      BY <2>3, GoalFields DEF TypeOK, Holding
    <3>1. s \in Nat /\ s <= goals[k].salakAmount BY <3>f DEF SalakAfterExpiration
    <3> HIDE DEF s
    <3>2. /\ row \in Goal /\ row.product = goals[k].product
          /\ row.goalAmount = goals[k].goalAmount
          /\ row.createdAt = goals[k].createdAt /\ row.bought = goals[k].bought
          /\ row.salakAmount = s /\ row.isActive = goals[k].isActive
          /\ row.withdrawals = goals[k].withdrawals
      BY <3>1, <3>f DEF Goal
    <3>3. row.isActive => row.salakAmount < row.goalAmount
      BY <3>1, <3>2, <3>f, <2>3, <1>row
    <3> HIDE DEF row
    <3> QED BY <2>1, <2>3, <3>2, <3>3, <1>row, RowKeepsTerms
  <2> QED BY <2>2, <2>3
<1>8. ASSUME NEW g \in Active, DeferAutoPurchase(g) \/ FailAutoPurchase(g)
      PROVE  PurchaseInv'
  <2>g. g \in DOMAIN goals /\ goals[g].isActive BY DEF Active
  <2>f. goals[g] \in Goal /\ goals[g].attempts \in Nat BY <2>g DEF TypeOK, Goal
  <2>1. CASE DeferAutoPurchase(g)
    <3>1. PICK d \in {Date(now) + i : i \in 1..SearchLimit} :
             goals' = [goals EXCEPT ![g] = [goals[g] EXCEPT !.deferredUntil = d]]
      BY <2>1 DEF DeferAutoPurchase
    <3>2. d \in Nat
      <4>1. Date(now) \in Nat BY DateType DEF TypeOK
      <4> QED BY <4>1, <3>1, TimeAssumption
    <3> DEFINE row == [goals[g] EXCEPT !.deferredUntil = d]
    <3>3. /\ row \in Goal /\ row.product = goals[g].product
          /\ row.goalAmount = goals[g].goalAmount
          /\ row.createdAt = goals[g].createdAt /\ row.bought = goals[g].bought
          /\ row.salakAmount = goals[g].salakAmount
          /\ row.withdrawals = goals[g].withdrawals
      BY <3>2, <2>f DEF Goal
    <3>4. goals' = [goals EXCEPT ![g] = row] BY <3>1
    <3> HIDE DEF row
    <3> QED BY <3>3, <3>4, <2>g, <1>row, RowKeepsTerms
  <2>2. CASE FailAutoPurchase(g)
    <3> DEFINE n == goals[g].attempts + 1
               row == [goals[g] EXCEPT !.attempts = n]
    <3>1. goals' = [goals EXCEPT ![g] = row] BY <2>2 DEF FailAutoPurchase
    <3>2. n \in Nat BY <2>f
    <3> HIDE DEF n
    <3>3. /\ row \in Goal /\ row.product = goals[g].product
          /\ row.goalAmount = goals[g].goalAmount
          /\ row.createdAt = goals[g].createdAt /\ row.bought = goals[g].bought
          /\ row.salakAmount = goals[g].salakAmount
          /\ row.withdrawals = goals[g].withdrawals
      BY <3>2, <2>f DEF Goal
    <3> HIDE DEF row
    <3> QED BY <3>1, <3>3, <2>g, <1>row, RowKeepsTerms
  <2> QED BY <1>8, <2>1, <2>2
<1>9. ASSUME NEW g \in Active, NEW h \in HoldingId, AutoPurchase(g, h) PROVE PurchaseInv'
  <2>1. g \in DOMAIN goals BY DEF Active
  <2>2. AvailableBalance(g) \in Int BY <2>1, GoalFields DEF AvailableBalance
  <2> QED BY <1>9, <2>2, <1>6 DEF AutoPurchase
<1>10. ASSUME NEW g \in Active, NEW a \in Amount, NEW h \in HoldingId, BuyFromGoal(g, a, h)
       PROVE  PurchaseInv'
  BY <1>10, <1>6, AmountAssumption DEF BuyFromGoal
<1> QED BY <1>1, <1>2, <1>3, <1>4, <1>5, <1>7, <1>8, <1>9, <1>10 DEF Next

(* The two invariants together make the remainder of a reached goal a      *)
(* purchase the rules accept and the kapook account can pay.               *)
LEMMA RemainderIsPurchasable == IInv /\ PurchaseInv => ReachedStaysPurchasable
<1> SUFFICES ASSUME IInv, PurchaseInv, NEW g \in Active, Reached(g),
                    goals[g].salakAmount = goals[g].bought,
                    productActive[goals[g].product],
                    Rules[goals[g].product].min <= Rules[goals[g].product].step
             PROVE  /\ PurchaseAllowed(g, AvailableBalance(g))
                    /\ kapook[goals[g].owner] >= AvailableBalance(g)
  BY DEF ReachedStaysPurchasable
<1> DEFINE p == goals[g].product
           target == goals[g].goalAmount
           b == goals[g].bought
<1>g. g \in DOMAIN goals BY DEF Active
<1>f. /\ p \in Product /\ target \in Nat /\ b \in Nat
      /\ goals[g].savingAmount \in Nat
  BY <1>g, GoalFields DEF IInv
<1>r. /\ Rules[p].min \in Nat /\ Rules[p].max \in Nat
      /\ Rules[p].step \in Nat \ {0}
  BY <1>f, RulesAssumption DEF RuleSet
<1>1. goals[g].savingAmount = target BY DEF IInv, ReachedMeansFull
<1>2. AvailableBalance(g) = target - b BY <1>1 DEF AvailableBalance
<1>3. b < target BY <1>g DEF PurchaseInv, ShortOfTarget
<1>4. /\ target <= Rules[p].max /\ target % Rules[p].step = 0
      /\ b % Rules[p].step = 0
  BY <1>g DEF PurchaseInv, SoldInSteps, ValidatePurchase
<1>5. kapook[goals[g].owner] = target - b BY <1>1 DEF IInv, CashBehindGoal
<1> HIDE DEF p, target, b
<1>6. (target - b) % Rules[p].step = 0 BY <1>4, <1>f, <1>r, MultipleOfStep
<1>7. target - b \in Nat /\ target - b > 0 BY <1>3, <1>f
<1>8. target - b >= Rules[p].step BY <1>6, <1>7, <1>r, MultipleIsAStep
<1>9. target - b >= Rules[p].min
  <2>1. Rules[p].min <= Rules[p].step BY DEF p
  <2> QED BY <1>8, <2>1, <1>r, <1>7
<1>10. target - b <= Rules[p].max BY <1>4, <1>r, <1>f
<1>11. ValidatePurchase(p, target - b)
  BY <1>6, <1>7, <1>9, <1>10 DEF ValidatePurchase
<1>12. PurchaseAllowed(g, target - b)
  BY <1>2, <1>7, <1>9, <1>11 DEF PurchaseAllowed, p
<1> QED BY <1>2, <1>5, <1>7, <1>12

-----------------------------------------------------------------------------
(***************************************************************************)
(* The salak accounts and the goals carry the totals of their holdings.    *)
(***************************************************************************)
SumInv ==
    /\ IsFiniteSet(DOMAIN holdings)
    /\ \A h \in DOMAIN holdings : holdings[h].goal \in DOMAIN goals \cup {NoGoal}
    /\ SalakAccountCovers
    /\ GoalSalakIsLive

(* Face values are natural numbers.                                        *)
LEMMA FaceNat ==
    ASSUME TypeOK
    PROVE  \A h \in DOMAIN holdings :
              /\ FaceValue[h] = holdings[h].amount /\ holdings[h].amount \in Nat
              /\ holdings[h].owner \in User /\ holdings[h].settled \in BOOLEAN
BY DEF FaceValue, TypeOK, Holding

(* A new holding adds its face value to the totals it belongs to.          *)
LEMMA MintAdds ==
    ASSUME TypeOK, SumInv, NEW h \in HoldingId, NEW u \in User, NEW p \in Product,
           NEW a \in Nat, NEW g \in DOMAIN goals \cup {NoGoal},
           MintHolding(h, u, p, a, g)
    PROVE  /\ IsFiniteSet(DOMAIN holdings')
           /\ \A k \in DOMAIN holdings' : holdings'[k].goal \in DOMAIN goals \cup {NoGoal}
           /\ \A v : Total(FaceValue, LiveOf(v))' =
                        (IF v = u THEN a ELSE 0) + Total(FaceValue, LiveOf(v))
           /\ \A x : Total(FaceValue, LiveFrom(x))' =
                        (IF x = g THEN a ELSE 0) + Total(FaceValue, LiveFrom(x))
<1> DEFINE row == [owner |-> u, product |-> p, amount |-> a,
                   units |-> Units(p, a), goal |-> g, settled |-> FALSE]
<1>1. /\ h \notin DOMAIN holdings /\ DOMAIN holdings' = DOMAIN holdings \cup {h}
      /\ holdings'[h] = row
      /\ \A k \in DOMAIN holdings : holdings'[k] = holdings[k]
  BY DEF MintHolding, Insert
<1>2. row.owner = u /\ row.amount = a /\ row.goal = g /\ row.settled = FALSE
  OBVIOUS
<1> HIDE DEF row
<1>3. IsFiniteSet(DOMAIN holdings') BY <1>1, FS_AddElement DEF SumInv
<1>4. \A k \in DOMAIN holdings' : holdings'[k].goal \in DOMAIN goals \cup {NoGoal}
  BY <1>1, <1>2 DEF SumInv
<1>5. /\ FaceValue'[h] = a
      /\ \A k \in DOMAIN holdings : FaceValue'[k] = FaceValue[k] /\ FaceValue[k] \in Nat
  BY <1>1, <1>2, FaceNat DEF FaceValue
<1>6. ASSUME NEW S, S \subseteq DOMAIN holdings
      PROVE  /\ Total(FaceValue', S) = Total(FaceValue, S)
             /\ Total(FaceValue, S) \in Nat
             /\ Total(FaceValue', S \cup {h}) = a + Total(FaceValue, S)
  <2>1. IsFiniteSet(S) BY <1>6, FS_Subset DEF SumInv
  <2>2. Total(FaceValue', S) = Total(FaceValue, S) BY <2>1, <1>5, <1>6, TotalSame
  <2>3. IsFiniteSet(S \cup {h}) /\ \A x \in S \cup {h} : FaceValue'[x] \in Nat
    BY <2>1, <1>5, <1>6, FS_AddElement
  <2>4. (S \cup {h}) \ {h} = S BY <1>1, <1>6
  <2>5. Total(FaceValue', S \cup {h}) = FaceValue'[h] + Total(FaceValue', (S \cup {h}) \ {h})
    BY <2>3, TotalTakes
  <2>6. Total(FaceValue, S) \in Nat BY <2>1, <1>5, <1>6, TotalType
  <2> QED BY <2>2, <2>4, <2>5, <2>6, <1>5
<1>7. ASSUME NEW v
      PROVE  Total(FaceValue', LiveOf(v)') =
                (IF v = u THEN a ELSE 0) + Total(FaceValue, LiveOf(v))
  <2>1. LiveOf(v) \subseteq DOMAIN holdings BY DEF LiveOf
  <2>2. LiveOf(v)' = IF v = u THEN LiveOf(v) \cup {h} ELSE LiveOf(v)
    BY <1>1, <1>2 DEF LiveOf
  <2> QED BY <2>1, <2>2, <1>6
<1>8. ASSUME NEW x
      PROVE  Total(FaceValue', LiveFrom(x)') =
                (IF x = g THEN a ELSE 0) + Total(FaceValue, LiveFrom(x))
  <2>1. LiveFrom(x) \subseteq DOMAIN holdings BY DEF LiveFrom
  <2>2. LiveFrom(x)' = IF x = g THEN LiveFrom(x) \cup {h} ELSE LiveFrom(x)
    BY <1>1, <1>2 DEF LiveFrom
  <2> QED BY <2>1, <2>2, <1>6
<1> QED BY <1>3, <1>4, <1>7, <1>8

(* A settlement takes it off again.                                        *)
LEMMA SettleTakes ==
    ASSUME TypeOK, SumInv, NEW h \in DOMAIN holdings, ~ holdings[h].settled,
           holdings' = [holdings EXCEPT ![h] = [holdings[h] EXCEPT !.settled = TRUE]]
    PROVE  /\ DOMAIN holdings' = DOMAIN holdings
           /\ \A k \in DOMAIN holdings : holdings'[k].goal = holdings[k].goal
           /\ \A v : Total(FaceValue, LiveOf(v)) =
                        (IF v = holdings[h].owner THEN holdings[h].amount ELSE 0)
                           + Total(FaceValue, LiveOf(v))'
           /\ \A x : Total(FaceValue, LiveFrom(x)) =
                        (IF x = holdings[h].goal THEN holdings[h].amount ELSE 0)
                           + Total(FaceValue, LiveFrom(x))'
           /\ \A x : Total(FaceValue, LiveFrom(x))' \in Nat
           /\ \A v : Total(FaceValue, LiveOf(v))' \in Nat
<1> DEFINE row == [holdings[h] EXCEPT !.settled = TRUE]
<1>1. /\ DOMAIN holdings' = DOMAIN holdings /\ holdings'[h] = row
      /\ \A k \in DOMAIN holdings \ {h} : holdings'[k] = holdings[k]
  OBVIOUS
<1>2. /\ row.owner = holdings[h].owner /\ row.amount = holdings[h].amount
      /\ row.goal = holdings[h].goal /\ row.settled = TRUE
  <2>1. holdings[h] \in Holding BY DEF TypeOK
  <2> QED BY <2>1 DEF Holding
<1> HIDE DEF row
<1>3. \A k \in DOMAIN holdings : holdings'[k].goal = holdings[k].goal
  BY <1>1, <1>2
<1>4. \A k \in DOMAIN holdings : /\ FaceValue'[k] = FaceValue[k] /\ FaceValue[k] \in Nat
                                 /\ FaceValue[k] = holdings[k].amount
  BY <1>1, <1>2, FaceNat DEF FaceValue
<1>5. ASSUME NEW S, S \subseteq DOMAIN holdings
      PROVE  /\ Total(FaceValue', S) = Total(FaceValue, S)
             /\ Total(FaceValue, S) \in Nat
             /\ h \in S => Total(FaceValue, S) =
                              holdings[h].amount + Total(FaceValue, S \ {h})
  <2>1. IsFiniteSet(S) BY <1>5, FS_Subset DEF SumInv
  <2>2. \A x \in S : FaceValue'[x] = FaceValue[x] /\ FaceValue[x] \in Nat
    BY <1>4, <1>5
  <2>3. Total(FaceValue', S) = Total(FaceValue, S) BY <2>1, <2>2, TotalSame
  <2>4. Total(FaceValue, S) \in Nat BY <2>1, <2>2, TotalType
  <2>5. h \in S => Total(FaceValue, S) = FaceValue[h] + Total(FaceValue, S \ {h})
    BY <2>1, <2>2, TotalTakes
  <2> QED BY <2>3, <2>4, <2>5, <1>4
<1>6. ASSUME NEW v
      PROVE  /\ Total(FaceValue, LiveOf(v)) =
                   (IF v = holdings[h].owner THEN holdings[h].amount ELSE 0)
                      + Total(FaceValue', LiveOf(v)')
             /\ Total(FaceValue', LiveOf(v)') \in Nat
  <2>1. LiveOf(v) \subseteq DOMAIN holdings /\ LiveOf(v) \ {h} \subseteq DOMAIN holdings
    BY DEF LiveOf
  <2>2. /\ v = holdings[h].owner => h \in LiveOf(v) /\ LiveOf(v)' = LiveOf(v) \ {h}
        /\ v # holdings[h].owner => LiveOf(v)' = LiveOf(v)
    BY <1>1, <1>2 DEF LiveOf
  <2>3. /\ Total(FaceValue', LiveOf(v)) = Total(FaceValue, LiveOf(v))
        /\ Total(FaceValue, LiveOf(v)) \in Nat
        /\ h \in LiveOf(v) => Total(FaceValue, LiveOf(v)) =
                                holdings[h].amount + Total(FaceValue, LiveOf(v) \ {h})
    BY <2>1, <1>5
  <2>4. /\ Total(FaceValue', LiveOf(v) \ {h}) = Total(FaceValue, LiveOf(v) \ {h})
        /\ Total(FaceValue, LiveOf(v) \ {h}) \in Nat
    BY <2>1, <1>5
  <2> HIDE DEF FaceValue
  <2>5. CASE v = holdings[h].owner
    <3>1. Total(FaceValue', LiveOf(v)') = Total(FaceValue, LiveOf(v) \ {h})
      BY <2>2, <2>4, <2>5
    <3> QED BY <3>1, <2>2, <2>3, <2>4, <2>5
  <2>6. CASE v # holdings[h].owner
    <3>1. Total(FaceValue', LiveOf(v)') = Total(FaceValue, LiveOf(v))
      BY <2>2, <2>3, <2>6
    <3> QED BY <3>1, <2>3, <2>6
  <2> QED BY <2>5, <2>6
<1>7. ASSUME NEW x
      PROVE  /\ Total(FaceValue, LiveFrom(x)) =
                   (IF x = holdings[h].goal THEN holdings[h].amount ELSE 0)
                      + Total(FaceValue', LiveFrom(x)')
             /\ Total(FaceValue', LiveFrom(x)') \in Nat
  <2>1. LiveFrom(x) \subseteq DOMAIN holdings /\ LiveFrom(x) \ {h} \subseteq DOMAIN holdings
    BY DEF LiveFrom
  <2>2. /\ x = holdings[h].goal => h \in LiveFrom(x) /\ LiveFrom(x)' = LiveFrom(x) \ {h}
        /\ x # holdings[h].goal => LiveFrom(x)' = LiveFrom(x)
    BY <1>1, <1>2 DEF LiveFrom
  <2>3. /\ Total(FaceValue', LiveFrom(x)) = Total(FaceValue, LiveFrom(x))
        /\ Total(FaceValue, LiveFrom(x)) \in Nat
        /\ h \in LiveFrom(x) => Total(FaceValue, LiveFrom(x)) =
                                holdings[h].amount + Total(FaceValue, LiveFrom(x) \ {h})
    BY <2>1, <1>5
  <2>4. /\ Total(FaceValue', LiveFrom(x) \ {h}) = Total(FaceValue, LiveFrom(x) \ {h})
        /\ Total(FaceValue, LiveFrom(x) \ {h}) \in Nat
    BY <2>1, <1>5
  <2> HIDE DEF FaceValue
  <2>5. CASE x = holdings[h].goal
    <3>1. Total(FaceValue', LiveFrom(x)') = Total(FaceValue, LiveFrom(x) \ {h})
      BY <2>2, <2>4, <2>5
    <3> QED BY <3>1, <2>2, <2>3, <2>4, <2>5
  <2>6. CASE x # holdings[h].goal
    <3>1. Total(FaceValue', LiveFrom(x)') = Total(FaceValue, LiveFrom(x))
      BY <2>2, <2>3, <2>6
    <3> QED BY <3>1, <2>3, <2>6
  <2> QED BY <2>5, <2>6
<1> QED BY <1>1, <1>3, <1>6, <1>7

(* Steps that leave holdings, salak accounts and the salak of every goal.  *)
LEMMA SumsStay ==
    ASSUME SumInv, holdings' = holdings, salak' = salak,
           DOMAIN goals' = DOMAIN goals,
           \A x \in DOMAIN goals : goals'[x].salakAmount = goals[x].salakAmount
    PROVE  SumInv'
<1>1. FaceValue' = FaceValue BY DEF FaceValue
<1>2. /\ \A v : LiveOf(v)' = LiveOf(v)
      /\ \A x : LiveFrom(x)' = LiveFrom(x)
  BY DEF LiveOf, LiveFrom
<1> QED BY <1>1, <1>2 DEF SumInv, SalakAccountCovers, GoalSalakIsLive

(* A purchase from a goal.                                                 *)
LEMMA BuyKeepsSums ==
    ASSUME TypeOK, SumInv, NEW g \in DOMAIN goals, NEW a \in Int, NEW h \in HoldingId,
           buyFromGoalCore(g, a, h)
    PROVE  SumInv'
<1> DEFINE u == goals[g].owner
           p == goals[g].product
           s == goals[g].salakAmount + a
           row == [goals[g] EXCEPT !.salakAmount = s, !.bought = goals[g].bought + a,
                                   !.isActive = ~ goalCompleted(goals[g], s),
                                   !.deferredUntil = Never, !.attempts = 0]
<1>1. /\ goals' = [goals EXCEPT ![g] = row]
      /\ salak' = [salak EXCEPT ![u] = salak[u] + a]
      /\ MintHolding(h, u, p, a, g)
      /\ a \in Nat
  BY DEF buyFromGoalCore, PurchaseAllowed, ValidatePurchase
<1>2. goals[g] \in Goal /\ u \in User /\ p \in Product BY GoalFields
<1>3. row.salakAmount = s BY <1>2 DEF Goal
<1> HIDE DEF row
<1>4. /\ DOMAIN goals' = DOMAIN goals /\ goals'[g].salakAmount = a + goals[g].salakAmount
      /\ \A x \in DOMAIN goals \ {g} : goals'[x] = goals[x]
      /\ salak'[u] = a + salak[u] /\ \A v \in User \ {u} : salak'[v] = salak[v]
  <2>1. goals[g].salakAmount \in Nat /\ salak[u] \in Nat BY GoalFields DEF TypeOK
  <2> QED BY <2>1, <1>1, <1>2, <1>3 DEF TypeOK
<1>5. /\ IsFiniteSet(DOMAIN holdings')
      /\ \A k \in DOMAIN holdings' : holdings'[k].goal \in DOMAIN goals \cup {NoGoal}
      /\ \A v : Total(FaceValue, LiveOf(v))' =
                   (IF v = u THEN a ELSE 0) + Total(FaceValue, LiveOf(v))
      /\ \A x : Total(FaceValue, LiveFrom(x))' =
                   (IF x = g THEN a ELSE 0) + Total(FaceValue, LiveFrom(x))
  <2> HIDE DEF u, p
  <2> QED BY <1>1, <1>2, MintAdds
<1>6. SalakAccountCovers'
  <2>1. \A v \in User : salak[v] \in Nat /\ salak[v] = Total(FaceValue, LiveOf(v))
    BY DEF TypeOK, SumInv, SalakAccountCovers
  <2>2. \A v \in User : salak'[v] = Total(FaceValue, LiveOf(v))'
    BY <2>1, <1>4, <1>5
  <2> QED BY <2>2 DEF SalakAccountCovers
<1>7. GoalSalakIsLive'
  <2>1. \A x \in DOMAIN goals : /\ goals[x].salakAmount \in Nat
                                /\ goals[x].salakAmount = Total(FaceValue, LiveFrom(x))
    BY GoalFields DEF SumInv, GoalSalakIsLive
  <2>2. \A x \in DOMAIN goals' : goals'[x].salakAmount = Total(FaceValue, LiveFrom(x))'
    BY <2>1, <1>4, <1>5
  <2> QED BY <2>2 DEF GoalSalakIsLive
<1> QED BY <1>4, <1>5, <1>6, <1>7 DEF SumInv

(* A purchase outside the kapook.                                          *)
LEMMA BuySalakKeepsSums ==
    ASSUME TypeOK, SumInv, NEW u \in User, NEW p \in Product, NEW a \in Int,
           NEW h \in HoldingId, BuySalak(u, p, a, h)
    PROVE  SumInv'
<1>1. /\ goals' = goals
      /\ salak' = [salak EXCEPT ![u] = salak[u] + a]
      /\ MintHolding(h, u, p, a, NoGoal)
      /\ a \in Nat
  BY DEF BuySalak, ValidatePurchase
<1>2. salak'[u] = a + salak[u] /\ \A v \in User \ {u} : salak'[v] = salak[v]
  <2>1. salak[u] \in Nat BY DEF TypeOK
  <2> QED BY <2>1, <1>1 DEF TypeOK
<1>3. /\ IsFiniteSet(DOMAIN holdings')
      /\ \A k \in DOMAIN holdings' : holdings'[k].goal \in DOMAIN goals \cup {NoGoal}
      /\ \A v : Total(FaceValue, LiveOf(v))' =
                   (IF v = u THEN a ELSE 0) + Total(FaceValue, LiveOf(v))
      /\ \A x : Total(FaceValue, LiveFrom(x))' =
                   (IF x = NoGoal THEN a ELSE 0) + Total(FaceValue, LiveFrom(x))
  BY <1>1, MintAdds
<1>4. SalakAccountCovers'
  <2>1. \A v \in User : salak[v] \in Nat /\ salak[v] = Total(FaceValue, LiveOf(v))
    BY DEF TypeOK, SumInv, SalakAccountCovers
  <2>2. \A v \in User : salak'[v] = Total(FaceValue, LiveOf(v))'
    BY <2>1, <1>2, <1>3
  <2> QED BY <2>2 DEF SalakAccountCovers
<1>5. GoalSalakIsLive'
  <2>1. \A x \in DOMAIN goals : /\ goals[x].salakAmount \in Nat /\ x # NoGoal
                                /\ goals[x].salakAmount = Total(FaceValue, LiveFrom(x))
    BY GoalFields, IdAssumption DEF SumInv, GoalSalakIsLive
  <2>2. \A x \in DOMAIN goals : goals[x].salakAmount = Total(FaceValue, LiveFrom(x))'
    BY <2>1, <1>3
  <2> QED BY <2>2, <1>1 DEF GoalSalakIsLive
<1> QED BY <1>1, <1>3, <1>4, <1>5 DEF SumInv

(* A settlement; the goal always holds the principal that is taken off it. *)
LEMMA SettleKeepsSums ==
    ASSUME TypeOK, SumInv, NEW h \in DOMAIN holdings, SettleMaturedHolding(h)
    PROVE  SumInv'
<1> DEFINE u == holdings[h].owner
           g == holdings[h].goal
           a == holdings[h].amount
           s == SalakAfterExpiration(goals[g], a)
           row == [goals[g] EXCEPT !.salakAmount = s]
<1>1. /\ ~ holdings[h].settled
      /\ salak' = [salak EXCEPT ![u] = salak[u] - a]
      /\ holdings' = [holdings EXCEPT ![h] = [holdings[h] EXCEPT !.settled = TRUE]]
      /\ goals' = IF g = NoGoal THEN goals ELSE [goals EXCEPT ![g] = row]
  BY DEF SettleMaturedHolding, Settleable
<1>2. u \in User /\ a \in Nat /\ g \in DOMAIN goals \cup {NoGoal}
  BY FaceNat DEF SumInv
<1>3. /\ DOMAIN holdings' = DOMAIN holdings
      /\ \A k \in DOMAIN holdings : holdings'[k].goal = holdings[k].goal
      /\ \A v : Total(FaceValue, LiveOf(v)) =
                   (IF v = u THEN a ELSE 0) + Total(FaceValue, LiveOf(v))'
      /\ \A x : Total(FaceValue, LiveFrom(x)) =
                   (IF x = g THEN a ELSE 0) + Total(FaceValue, LiveFrom(x))'
      /\ \A x : Total(FaceValue, LiveFrom(x))' \in Nat
      /\ \A v : Total(FaceValue, LiveOf(v))' \in Nat
  BY <1>1, SettleTakes
<1>4. /\ salak'[u] = salak[u] - a /\ \A v \in User \ {u} : salak'[v] = salak[v]
      /\ salak' \in [User -> Int]
  BY <1>1, <1>2 DEF TypeOK
<1>5. DOMAIN goals' = DOMAIN goals BY <1>1
<1>6. \A x \in DOMAIN goals :
         goals'[x].salakAmount = IF x = g THEN s ELSE goals[x].salakAmount
  <2>1. CASE g = NoGoal
    BY <2>1, <1>1, IdAssumption DEF TypeOK
  <2>2. CASE g # NoGoal
    <3>1. goals[g] \in Goal BY <2>2, <1>2, GoalFields
    <3>2. row.salakAmount = s BY <3>1 DEF Goal
    <3> HIDE DEF row, s
    <3> QED BY <2>2, <3>2, <1>1
  <2> QED BY <2>1, <2>2
<1> HIDE DEF row
<1>7. SalakAccountCovers'
  <2>1. \A v \in User : salak[v] \in Nat /\ salak[v] = Total(FaceValue, LiveOf(v))
    BY DEF TypeOK, SumInv, SalakAccountCovers
  <2>2. \A v \in User : salak'[v] = Total(FaceValue, LiveOf(v))'
    BY <2>1, <1>2, <1>3, <1>4
  <2> QED BY <2>2 DEF SalakAccountCovers
<1>8. GoalSalakIsLive'
  <2> SUFFICES ASSUME NEW x \in DOMAIN goals
               PROVE  goals'[x].salakAmount = Total(FaceValue, LiveFrom(x))'
    BY <1>5 DEF GoalSalakIsLive
  <2>1. /\ goals[x].salakAmount \in Nat
        /\ goals[x].salakAmount = Total(FaceValue, LiveFrom(x))
    BY GoalFields DEF SumInv, GoalSalakIsLive
  <2>2. CASE x # g BY <2>1, <2>2, <1>3, <1>6
  <2>3. CASE x = g
    <3>1. goals[g].salakAmount = a + Total(FaceValue, LiveFrom(x))'
      BY <2>1, <2>3, <1>3
    <3>2. s = Total(FaceValue, LiveFrom(x))'
      BY <3>1, <2>1, <2>3, <1>2, <1>3 DEF SalakAfterExpiration
    <3>3. goals'[x].salakAmount = s
      <4> HIDE DEF g, s
      <4> QED BY <2>3, <1>6
    <3> HIDE DEF s
    <3> QED BY <3>2, <3>3
  <2> QED BY <2>2, <2>3
<1>9. \A k \in DOMAIN holdings' : holdings'[k].goal \in DOMAIN goals' \cup {NoGoal}
  BY <1>3, <1>5 DEF SumInv
<1> QED BY <1>3, <1>7, <1>8, <1>9 DEF SumInv

(* A new goal starts with no holdings, hence with a total of zero.         *)
LEMMA CreateGoalKeepsSums ==
    ASSUME TypeOK, SumInv, NEW u \in User, NEW p \in Product, NEW a \in Amount,
           NEW g \in GoalId, CreateGoal(u, p, a, g)
    PROVE  SumInv'
<1> DEFINE row == [owner |-> u, product |-> p, goalAmount |-> a,
                   savingAmount |-> 0, salakAmount |-> 0, bought |-> 0,
                   isActive |-> TRUE, goalReachedAt |-> Never,
                   deferredUntil |-> Never, attempts |-> 0,
                   createdAt |-> now, withdrawals |-> <<>>]
<1>1. /\ g \notin DOMAIN goals /\ holdings' = holdings /\ salak' = salak
      /\ goals' = Insert(goals, g, row)
  BY DEF CreateGoal, accounts
<1>2. row.salakAmount = 0 OBVIOUS
<1> HIDE DEF row
<1>3. /\ DOMAIN goals' = DOMAIN goals \cup {g}
      /\ goals'[g].salakAmount = 0
      /\ \A x \in DOMAIN goals : goals'[x] = goals[x]
  BY <1>1, <1>2 DEF Insert
<1>4. FaceValue' = FaceValue /\ (\A v : LiveOf(v)' = LiveOf(v))
      /\ (\A x : LiveFrom(x)' = LiveFrom(x))
  BY <1>1 DEF FaceValue, LiveOf, LiveFrom
<1>5. LiveFrom(g) = {}
  <2>1. g # NoGoal BY IdAssumption
  <2> QED BY <2>1, <1>1 DEF SumInv, LiveFrom
<1>6. Total(FaceValue, LiveFrom(g)) = 0 BY <1>5, TotalEmpty
<1>7. GoalSalakIsLive'
  <2>1. \A x \in DOMAIN goals : goals[x].salakAmount = Total(FaceValue, LiveFrom(x))
    BY DEF SumInv, GoalSalakIsLive
  <2>2. \A x \in DOMAIN goals' :
           goals'[x].salakAmount = Total(FaceValue', LiveFrom(x)')
    BY <2>1, <1>3, <1>4, <1>6
  <2> QED BY <2>2 DEF GoalSalakIsLive
<1>8. SalakAccountCovers' BY <1>1, <1>4 DEF SumInv, SalakAccountCovers
<1> QED BY <1>1, <1>3, <1>7, <1>8 DEF SumInv

(* Deposits, withdrawals and the worker's bookkeeping touch other fields.  *)
LEMMA RowKeepsSums ==
    ASSUME TypeOK, SumInv, holdings' = holdings, salak' = salak,
           NEW g \in DOMAIN goals, NEW row, row.salakAmount = goals[g].salakAmount,
           goals' = [goals EXCEPT ![g] = row]
    PROVE  SumInv'
BY SumsStay

(* Every step keeps the totals.                                            *)
LEMMA SumInvStep == IInv /\ SumInv /\ [Next]_vars => SumInv'
<1> SUFFICES ASSUME IInv, SumInv, [Next]_vars PROVE SumInv'
  OBVIOUS
<1> USE DEF IInv
<1>1. CASE \/ \E u \in User : Accept(u)
           \/ \E p \in Product, b \in BOOLEAN : UpsertProduct(p, b)
           \/ Tick \/ UNCHANGED vars
  <2>1. holdings' = holdings /\ salak' = salak /\ goals' = goals
    BY <1>1 DEF Accept, UpsertProduct, Tick, vars, accounts
  <2> QED BY <2>1, SumsStay
<1>2. CASE \E u \in User, p \in Product, a \in Amount, g \in GoalId : CreateGoal(u, p, a, g)
  BY <1>2, CreateGoalKeepsSums
<1>3. CASE \E u \in User, p \in Product, a \in Amount, h \in HoldingId : BuySalak(u, p, a, h)
  BY <1>3, AmountAssumption, BuySalakKeepsSums
<1>4. ASSUME NEW g \in Active, NEW a \in Amount, Deposit(g, a) PROVE SumInv'
  <2> DEFINE row == [goals[g] EXCEPT
                       !.savingAmount = goals[g].savingAmount + a,
                       !.goalReachedAt = ReachedStamp(goals[g], goals[g].savingAmount + a)]
  <2>1. g \in DOMAIN goals BY DEF Active
  <2>2. holdings' = holdings /\ salak' = salak /\ goals' = [goals EXCEPT ![g] = row]
    BY <1>4 DEF Deposit
  <2>3. row.salakAmount = goals[g].salakAmount BY <2>1, GoalFields DEF Goal
  <2> HIDE DEF row
  <2> QED BY <2>1, <2>2, <2>3, RowKeepsSums
<1>5. ASSUME NEW g \in Active, NEW a \in Amount, Withdraw(g, a) PROVE SumInv'
  <2> DEFINE charged == withdrawalAllowance(g) >= freeWithdrawalsPerWindow
             row == [goals[g] EXCEPT
                       !.savingAmount = goals[g].savingAmount - a,
                       !.isActive = ~ Reached(g),
                       !.withdrawals = Append(goals[g].withdrawals,
                                              [at |-> now, withFee |-> charged])]
  <2>1. g \in DOMAIN goals BY DEF Active
  <2>2. holdings' = holdings /\ salak' = salak /\ goals' = [goals EXCEPT ![g] = row]
    BY <1>5 DEF Withdraw
  <2> HIDE DEF charged
  <2>3. row.salakAmount = goals[g].salakAmount BY <2>1, GoalFields DEF Goal
  <2> HIDE DEF row
  <2> QED BY <2>1, <2>2, <2>3, RowKeepsSums
<1>6. ASSUME NEW g \in Active, NEW a \in Amount, NEW h \in HoldingId, BuyFromGoal(g, a, h)
      PROVE  SumInv'
  <2>1. g \in DOMAIN goals /\ a \in Int BY AmountAssumption DEF Active
  <2> QED BY <2>1, <1>6, BuyKeepsSums DEF BuyFromGoal
<1>7. ASSUME NEW g \in Active, NEW h \in HoldingId, AutoPurchase(g, h) PROVE SumInv'
  <2>1. g \in DOMAIN goals BY DEF Active
  <2>2. AvailableBalance(g) \in Int BY <2>1, GoalFields DEF AvailableBalance
  <2> QED BY <2>1, <2>2, <1>7, BuyKeepsSums DEF AutoPurchase
<1>8. CASE \E h \in DOMAIN holdings : SettleMaturedHolding(h)
  BY <1>8, SettleKeepsSums
<1>9. ASSUME NEW g \in Active, DeferAutoPurchase(g) PROVE SumInv'
  <2>1. g \in DOMAIN goals BY DEF Active
  <2>2. PICK d : goals' = [goals EXCEPT ![g] = [goals[g] EXCEPT !.deferredUntil = d]]
    BY <1>9 DEF DeferAutoPurchase
  <2>3. holdings' = holdings /\ salak' = salak BY <1>9 DEF DeferAutoPurchase, accounts
  <2>4. [goals[g] EXCEPT !.deferredUntil = d].salakAmount = goals[g].salakAmount
    BY <2>1, GoalFields DEF Goal
  <2> QED BY <2>1, <2>2, <2>3, <2>4, RowKeepsSums
<1>10. ASSUME NEW g \in Active, FailAutoPurchase(g) PROVE SumInv'
  <2> DEFINE row == [goals[g] EXCEPT !.attempts = goals[g].attempts + 1]
  <2>1. g \in DOMAIN goals BY DEF Active
  <2>2. holdings' = holdings /\ salak' = salak /\ goals' = [goals EXCEPT ![g] = row]
    BY <1>10 DEF FailAutoPurchase, accounts
  <2>3. row.salakAmount = goals[g].salakAmount BY <2>1, GoalFields DEF Goal
  <2> HIDE DEF row
  <2> QED BY <2>1, <2>2, <2>3, RowKeepsSums
<1> QED
  BY <1>1, <1>2, <1>3, <1>4, <1>5, <1>6, <1>7, <1>8, <1>9, <1>10 DEF Next

(* A settlement never fails for money: what is on the salak account covers *)
(* every holding that is not settled.                                      *)
LEMMA LiveHoldingIsPayable ==
    ASSUME TypeOK, SumInv, NEW h \in DOMAIN holdings, ~ holdings[h].settled
    PROVE  SufficientFunds(salak, holdings[h].owner, holdings[h].amount)
<1> DEFINE u == holdings[h].owner
           S == LiveOf(u)
<1>1. h \in S /\ S \subseteq DOMAIN holdings BY DEF LiveOf
<1>2. IsFiniteSet(S) BY <1>1, FS_Subset DEF SumInv
<1>3. \A k \in S : FaceValue[k] \in Nat /\ FaceValue[h] = holdings[h].amount
  BY <1>1, FaceNat
<1> HIDE DEF S
<1>4. Total(FaceValue, S) = FaceValue[h] + Total(FaceValue, S \ {h})
  BY <1>1, <1>2, <1>3, TotalTakes
<1>5. IsFiniteSet(S \ {h}) /\ \A k \in S \ {h} : FaceValue[k] \in Nat
  BY <1>2, <1>3, FS_Subset
<1>6. Total(FaceValue, S \ {h}) \in Nat BY <1>5, TotalType
<1>7. salak[u] = Total(FaceValue, S) BY FaceNat DEF SumInv, SalakAccountCovers, S
<1>8. holdings[h].amount \in Nat BY FaceNat
<1>9. salak[u] >= holdings[h].amount BY <1>1, <1>3, <1>4, <1>6, <1>7, <1>8
<1> QED BY <1>9 DEF SufficientFunds

-----------------------------------------------------------------------------
(* The strengthened invariant holds in every reachable state.              *)
THEOREM Invariant == Spec => []IInv
BY InitInvariant, StepInvariant, PTL DEF Spec

(* Every row and balance stays well-typed; for a balance this is the       *)
(* CHECK (balance >= 0) of account.accounts.                               *)
THEOREM TypeCorrect == Spec => []TypeOK
BY Invariant, PTL DEF IInv

(* No request can run into the CHECK constraints of kapook_goals.          *)
THEOREM GoalChecksHold == Spec => []GoalChecks
BY Invariant, PTL DEF IInv

(* The cash of a kapook account is the unspent saving of its active goal.  *)
THEOREM CashIsBehindGoal == Spec => []CashBehindGoal
BY Invariant, PTL DEF IInv

(* A countdown runs exactly on the full active goals.                      *)
THEOREM CountdownMeansFull == Spec => []ReachedMeansFull
BY Invariant, PTL DEF IInv

(* No operation creates or loses a satang beyond fees and interest.        *)
THEOREM MoneyConserved == Spec => []Conservation
BY Invariant, PTL DEF IInv

(* A goal ends bought out or emptied, leaves nothing in the kapook, stays  *)
(* ended and keeps the stamp of its countdown.                             *)
THEOREM GoalLifecycle == Spec => GoalEndsTwoWays
<1>1. IInv /\ [Next]_vars => [\A g \in DOMAIN goals : GoalStep(g)]_vars
  BY StepInvariant DEF GoalSteps
<1> QED BY <1>1, Invariant, PTL DEF Spec, GoalEndsTwoWays

(* What a goal was created for, its purchases and its fees stay in order.  *)
THEOREM PurchaseInvariant == Spec => []PurchaseInv
<1>1. Init => PurchaseInv
  <2> SUFFICES ASSUME Init PROVE PurchaseInv
    OBVIOUS
  <2>1. DOMAIN goals = {} BY DEF Init
  <2> QED BY <2>1 DEF PurchaseInv, SoldInSteps, ShortOfTarget, FreeAllowance, Active
<1> QED BY <1>1, PurchaseInvStep, Invariant, PTL DEF Spec

(* As long as its holdings are unsettled and its product is sold, a goal   *)
(* whose countdown runs can be bought out in one purchase.                 *)
THEOREM CountdownKeepsItsPromise == Spec => []ReachedStaysPurchasable
BY Invariant, PurchaseInvariant, RemainderIsPurchasable, PTL

(* Two withdrawals a year are free, every later one is charged.            *)
THEOREM TwoFreeWithdrawals == Spec => []FreeAllowance
BY PurchaseInvariant, PTL DEF PurchaseInv


(* The totals of the salak accounts and of the goals hold at every moment. *)
THEOREM SumInvariant == Spec => []SumInv
<1>1. Init => SumInv
  <2> SUFFICES ASSUME Init PROVE SumInv
    OBVIOUS
  <2>1. DOMAIN holdings = {} /\ DOMAIN goals = {} /\ \A u \in User : salak[u] = 0
    BY DEF Init
  <2>2. \A u : LiveOf(u) = {} BY <2>1 DEF LiveOf
  <2>3. \A u \in User : salak[u] = Total(FaceValue, LiveOf(u))
    BY <2>1, <2>2, TotalEmpty
  <2>4. IsFiniteSet(DOMAIN holdings) BY <2>1, FS_EmptySet
  <2> QED BY <2>1, <2>3, <2>4 DEF SumInv, SalakAccountCovers, GoalSalakIsLive
<1> QED BY <1>1, SumInvStep, Invariant, PTL DEF Spec

(* A salak account holds the face value of its user's unsettled holdings.  *)
THEOREM SalakIsCovered == Spec => []SalakAccountCovers
BY SumInvariant, PTL DEF SumInv

(* A goal's salakAmount is the face value of its unsettled holdings.       *)
THEOREM GoalsCarryLiveSalak == Spec => []GoalSalakIsLive
BY SumInvariant, PTL DEF SumInv

(* The balance check of a settlement, behind its settled_at check, never   *)
(* refuses: the principal of a live holding is on the salak account.       *)
THEOREM SettlementIsFunded ==
    Spec => [](\A h \in DOMAIN holdings :
                  ~ holdings[h].settled =>
                     SufficientFunds(salak, holdings[h].owner, holdings[h].amount))
<1>1. IInv /\ SumInv =>
         \A h \in DOMAIN holdings :
            ~ holdings[h].settled =>
               SufficientFunds(salak, holdings[h].owner, holdings[h].amount)
  BY LiveHoldingIsPayable DEF IInv
<1> QED BY <1>1, Invariant, SumInvariant, PTL
=============================================================================
