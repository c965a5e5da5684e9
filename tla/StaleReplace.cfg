SPECIFICATION PreparationSpec
CONSTANTS
    a1 = a1
    MaxPrice = 1
    Quantum = 1
    MaxIds = 2
    MaxOrders = 2
    MaxLevels = 1
    Offers <- OneOffer
    Calls = {}
    UncrossPolicies = {}
    MaxAuctions = 1
    MaxCommands = 8
    TerminalCommands = 4
    MaxEvents = 10
    MaxReportEvents = 5
    Profiles <- WideProfile
    Origin = 1
CHECK_DEADLOCK FALSE
INVARIANT NeverPanics
