SPECIFICATION ImpatientSpec
CONSTANTS
    Request = {r1, r2}
    Customer = {u1, u2}
    Operation = {"Deposit", "Withdraw", "BuyFromGoal", "BuySalak", "SettleMaturedHolding"}
    PoolSize = 2

    
PROPERTIES
    RequestsEnd
