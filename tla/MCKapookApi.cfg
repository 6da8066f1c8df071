SPECIFICATION Spec
CONSTANTS
    Device = {phone, tablet}
    Amount <- MCAmount
    GoalAmount = 200
    MinPurchase = 100
    StartingBalance = 300
    FeeRate = {2, 3}
    MaxRequests = 2
    MaxTries = 3
SYMMETRY Symmetry

    
    
PROPERTIES
    RepeatAfterEndIsRefused
    
