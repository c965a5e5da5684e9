SPECIFICATION Spec
CONSTANTS
    Commands = {1, 2}
    Oversized = {}
    NoFile = NoFile
    Partial = Partial
    NoBoundary = NoBoundary
    Durability = "SyncAll"
    RecoveryMode = "RepairTornTail"
    PowerFailures = TRUE
    MaxFrames = 5
    MaxCaptures = 1
    MaxCutovers = 2
    Targets = {"A", "B"}
INVARIANT SelectedSlotSurvives
CHECK_DEADLOCK FALSE
