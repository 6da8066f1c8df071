SPECIFICATION SatangSpec
CONSTANTS
    Amount <- MCAmount
    GoalAmount = 2000
    StartingBalance = 1990
    MaxRequests = 8
INVARIANTS
    CashBehindGoal
    CountdownMeansFull
PROPERTIES
    RoundingIsBounded
