SPECIFICATION MatchingSpec
CONSTANTS
    MaxPrice = 2
    Accounts = {a1, a2}
    Shapes <- MatchingShapes
    Lifetimes <- MatchingLifetimes
    Policies = {"cancelAggressor", "cancelResting", "cancelBoth", "decrementAndCancel"}
    StopLimits = {0}
    ClosedStates = {}
    Genesis = "open"
    Horizon = 0
    MaxReferences = 0
    Batches = {1}
    MaxIds = 3
    MaxOrders = 3
    MaxAccounts = 2
    MaxLevels = 2
    MaxReportEvents = 12
SYMMETRY Symmetry
VIEW MatchingView
INVARIANTS PreviewsExact
PROPERTIES ExecutionIsFair ReportBounded
