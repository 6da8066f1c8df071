SPECIFICATION Spec
CONSTANTS
    u1 = u1
    p1 = p1
    User = {u1}
    Product = {p1}
    GoalId = {g1, g2}
    HoldingId = {h1, h2}
    NoGoal = NoGoal
    Rules <- MCRules
    DrawDay <- MCDrawDay
    Amount <- MCAmount
    StartingBalance = 200
    DayLength = 1
    Countdown = 1
    Year = 2
    SearchLimit = 2
    MaxNow = 2
    MaxWithdrawals = 3
    MaxAttempts = 1
SYMMETRY Symmetry
INVARIANTS
    TypeOK
    GoalChecks
    CashBehindGoal
    ReachedMeansFull
    Conservation
    
    SalakAccountCovers
    GoalSalakIsLive
    FreeAllowance
PROPERTIES
    GoalEndsTwoWays
