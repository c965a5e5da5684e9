SPECIFICATION FairSpec
CONSTANTS
    MaxPrice = 3
    Accounts = {a1, a2}
    Shapes <- OneLot
    Lifetimes <- BookLifetimes
    Policies = {"cancelBoth"}
    StopLimits = {0, 2}
    ClosedStates = {"halted"}
    Genesis = "open"
    Horizon = 1
    MaxReferences = 2
    Batches = {1, 2}
    MaxIds = 2
    MaxOrders = 2
    MaxAccounts = 2
    MaxLevels = 1
    MaxReportEvents = 6
VIEW BookView
INVARIANT BookStands
PROPERTIES StopsFollowReference BacklogDrains
