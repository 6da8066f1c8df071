SPECIFICATION Spec
CONSTANTS
    Session = {s1, s2}
    User = {u1}
    Product = {p1}
    GoalId = {g1, g2}
    HoldingId = {h1, h2}
    NoGoal = NoGoal
    Rules <- MCRules
    Amount = {100, 200}
    StartingBalance = 200
    MaxWithdrawals = 3
    Operation = {"CreateGoal", "Deposit", "Withdraw", "BuyFromGoal", "BuySalak", "SettleMaturedHolding"}
SYMMETRY Symmetry
INVARIANTS
    UnlockedReadStaysTrue
    
PROPERTIES
    ImplementsKapook
