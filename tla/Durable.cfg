SPECIFICATION FairSpec
CONSTANTS
    Commands = {1, 2}
    Oversized = {}
    NoFile = NoFile
    Partial = Partial
    NoBoundary = NoBoundary
    Durability = "SyncAll"
    RecoveryMode = "RepairTornTail"
    PowerFailures = TRUE
    MaxFrames = 5
    MaxCaptures = 1
    MaxCutovers = 2
    Targets = {"A", "B"}
INVARIANTS AlwaysRecoverable AnswersSurvive AcceptedCaptureCutsOver
PROPERTIES ImplementsShardLog Reopens
ACTION_CONSTRAINT InOrder
CHECK_DEADLOCK FALSE
