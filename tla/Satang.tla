------------------------------- MODULE Satang -------------------------------
(***************************************************************************)
(* The money columns.  A request carries a decimal of any precision, the   *)
(* service computes with it as it is, and a numeric(18,2) column rounds    *)
(* what it is given to satang, half away from zero, one column at a time.  *)
(*                                                                         *)
(* Money is counted in tenths of a satang, so a stored amount is a         *)
(* multiple of ten and a request need not be.  There is one goal after the *)
(* other on one kapook account; purchases move whole units and round       *)
(* nothing, so they are left to Kapook.                                    *)
(***************************************************************************)
EXTENDS Integers

CONSTANTS
    Amount,             \* what requests ask for, in tenths of a satang
    GoalAmount,
    StartingBalance,
    MaxRequests         \* bound: deposits and withdrawals

ASSUME SatangAssumption ==
    /\ Amount \subseteq Nat
    /\ GoalAmount \in Nat /\ GoalAmount % 10 = 0
    /\ StartingBalance \in Nat /\ StartingBalance % 10 = 0
    /\ MaxRequests \in Nat

VARIABLES
    savings,     \* account.accounts.balance of the savings account
    kapook,      \* and of the kapook account
    goalRow,     \* the newest row of kapook.kapook_goals
    requests,    \* so far
    receipt      \* what the last request was told it moved, and what it cost

satangVars == <<savings, kapook, goalRow, requests, receipt>>

Goal == [saving : Nat, isActive : BOOLEAN, reached : BOOLEAN,
         withdrawals : Nat]

SatangTypeOK ==
    /\ savings \in Nat /\ savings % 10 = 0
    /\ kapook \in Nat /\ kapook % 10 = 0
    /\ goalRow \in Goal /\ goalRow.saving % 10 = 0
    /\ requests \in 0..MaxRequests
    /\ receipt \in [amount : Nat, fee : Nat]

-----------------------------------------------------------------------------
(***************************************************************************)
(* Faults.  Each replaces the definition below whose name it starts with.  *)
(***************************************************************************)
SavingAmount_Truncated(x) == 10 * (x \div 10)   \* .Truncate(2) before the update

ReachedBy_Nearly(x) == x + 10 >= GoalAmount     \* a tolerance of a satang

netCredited_Gross(a, fee) == a                  \* the fee told, but not kept

-----------------------------------------------------------------------------
Half(x) == (x + 5) \div 10

(* Assignment to a numeric(18,2) column.                                   *)
Column(x) == 10 * Half(x)

(* saving_amount is handed to its column as it was computed.               *)
SavingAmount(x) == Column(x)

Covers(balance, a) == balance - a >= 0

ReachedBy(x) == x = GoalAmount

(* Rows of the ledger and of the history must have a positive amount.      *)
Recordable(a) == Column(a) > 0

(* Two percent, rounded to satang by the service itself.                   *)
computeFee(a) == 10 * Half((a * 2) \div 100)

netCredited(a, fee) == a - fee

freeWithdrawalsPerWindow == 2

Served(a, fee) ==
    /\ requests < MaxRequests
    /\ requests' = requests + 1
    /\ receipt' = [amount |-> a, fee |-> fee]

CreateGoal ==
    /\ ~ goalRow.isActive
    /\ goalRow' = [saving |-> 0, isActive |-> TRUE, reached |-> FALSE, withdrawals |-> 0]
    /\ UNCHANGED <<savings, kapook, requests, receipt>>

Deposit(a) ==
    LET newSavingAmount == goalRow.saving + a
    IN  /\ goalRow.isActive
        /\ newSavingAmount =< GoalAmount
        /\ Covers(savings, a)
        /\ Recordable(a)
        /\ savings' = Column(savings - a)
        /\ kapook' = Column(kapook + a)
        /\ goalRow' = [goalRow EXCEPT !.saving = SavingAmount(newSavingAmount),
                                      !.reached = goalRow.reached \/ ReachedBy(newSavingAmount)]
        /\ Served(a, 0)

Withdraw(a) ==
    LET fee == IF goalRow.withdrawals >= freeWithdrawalsPerWindow THEN computeFee(a) ELSE 0
    IN  /\ goalRow.isActive
        /\ a =< goalRow.saving
        /\ goalRow.reached => a = goalRow.saving
        /\ Covers(kapook, a)
        /\ Recordable(a) /\ Recordable(netCredited(a, fee))
        /\ kapook' = Column(kapook - a)
        /\ savings' = Column(savings + netCredited(a, fee))
        /\ goalRow' = [goalRow EXCEPT !.saving = SavingAmount(goalRow.saving - a),
                                      !.isActive = ~ goalRow.reached,
                                      !.withdrawals = goalRow.withdrawals + 1]
        /\ Served(a, fee)

SatangInit ==
    /\ savings = StartingBalance
    /\ kapook = 0
    /\ goalRow = [saving |-> 0, isActive |-> TRUE, reached |-> FALSE, withdrawals |-> 0]
    /\ requests = 0
    /\ receipt = [amount |-> 0, fee |-> 0]

SatangNext ==
    \/ CreateGoal
    \/ \E a \in Amount : Deposit(a)
    \/ \E a \in Amount \cup {goalRow.saving} : Withdraw(a)
    \/ requests = MaxRequests /\ UNCHANGED satangVars

SatangSpec == SatangInit /\ [][SatangNext]_satangVars

-----------------------------------------------------------------------------
(***************************************************************************)
(* Properties.                                                             *)
(***************************************************************************)

(* However amounts are rounded, the kapook account and the goal round the  *)
(* same way: the account holds what its active goal has saved.             *)
CashBehindGoal == kapook = IF goalRow.isActive THEN goalRow.saving ELSE 0

(* kapook_service.go, Deposit: rounding never starts a countdown early.    *)
CountdownMeansFull == goalRow.isActive /\ goalRow.reached => goalRow.saving = GoalAmount

(* A transfer loses or creates at most one satang by rounding.             *)
RoundingIsBounded ==
    [][LET drift == (savings' + kapook' + receipt'.fee) - (savings + kapook)
       IN  requests' # requests => drift \in -10..10]_satangVars
=============================================================================
