SPECIFICATION VenueSpec
CONSTANTS
    a1 = a1
    a2 = a2
    MaxPrice = 2
    Accounts = {a1, a2}
    Shapes <- VenueShapes
    Lifetimes <- VenueLifetimes
    Policies = {"decrementAndCancel"}
    StopLimits = {0, 2}
    ClosedStates = {"halted"}
    Genesis = "halted"
    Horizon = 1
    MaxReferences = 2
    Batches = {2}
    MaxIds = 3
    MaxOrders = 2
    MaxAccounts = 2
    MaxLevels = 2
    MaxReportEvents = 20
    Profiles <- TwoProfiles
    Origin = 2
VIEW VenueView
INVARIANT StopsStayAdmissible
CHECK_DEADLOCK FALSE
