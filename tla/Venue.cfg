SPECIFICATION MarketSpec
CONSTANTS
    a1 = a1
    a2 = a2
    MaxPrice = 2
    Accounts = {a1, a2}
    Shapes <- VenueShapes
    Lifetimes <- VenueLifetimes
    Policies = {"decrementAndCancel"}
    StopLimits = {0, 2}
    ClosedStates = {"halted"}
    Genesis = "open"
    Horizon = 1
    MaxReferences = 2
    Batches = {2}
    MaxIds = 3
    MaxOrders = 2
    MaxAccounts = 2
    MaxLevels = 2
    MaxReportEvents = 20
    Profiles <- TwoProfiles
    Origin = 2
    Updates <- FewUpdates
    Size = 2
    MaxPublished = 4
    PublisherLevels = 1
    ReplicaLevels = 1
    MaxBatch = 2
    PageSizes = {1, 2}
    MaxDamages = 1
VIEW MarketView
INVARIANTS ShadowsMatchBook PagesGoOn ReplicaShowsPublished
PROPERTIES ReservedCoversTraded UpdatesReproduceDepth NeverGoesBack CatchesUp
CHECK_DEADLOCK FALSE
