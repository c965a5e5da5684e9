SPECIFICATION Spec
CONSTANTS
    MaxPrice = 2
    Accounts = {a1, a2}
    Shapes <- OneLot
    Lifetimes <- BookLifetimes
    Policies = {"cancelBoth"}
    StopLimits = {0, 2}
    ClosedStates = {}
    Genesis = "open"
    Horizon = 1
    MaxReferences = 1
    Batches = {1}
    MaxIds = 2
    MaxOrders = 2
    MaxAccounts = 1
    MaxLevels = 1
    MaxReportEvents = 6
INVARIANT CapacityHolds
