SPECIFICATION Spec
CONSTANTS
    g1 = g1
    g2 = g2
    g3 = g3
    p1 = p1
    p2 = p2
    Replica = {w1, w2}
    Customer = {c1}
    NoTx = NoTx
    NoGoal = NoGoal
    GoalId = {g1, g2}
    Product = {p1, p2}
    productOf <- MCProductOf
    DrawDay <- MCDrawDayLater
    Countdown = 1
    claimBatchLimit = 2
    SearchLimit = 2
    MaxNow = 2
    MaxAttempts = 1
    MaxRequests = 1
    MaxAborts = 1
    MaxFailing = 1
SYMMETRY Symmetry
PROPERTIES
    ClosedOnce
    DrawDayOnlyOverMidnight
