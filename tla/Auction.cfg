SPECIFICATION VenueSpec
CONSTANTS
    a1 = a1
    a2 = a2
    MaxPrice = 3
    Quantum = 1
    MaxIds = 4
    MaxOrders = 3
    MaxLevels = 2
    Offers <- SmallOffers
    Calls <- SmallCalls
    UncrossPolicies <- SmallPolicies
    MaxAuctions = 2
    MaxCommands = 12
    TerminalCommands = 5
    MaxEvents = 15
    MaxReportEvents = 7
    Profiles <- SmallProfiles
    Origin = 1
    Requests <- SmallRequests
VIEW AuctionView
INVARIANTS IndicationIsCurrent ShadowsMatchEngine
PROPERTIES UncrossIsFair ImplementsReserve UpdatesReproduceAuction
CHECK_DEADLOCK FALSE
