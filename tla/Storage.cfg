SPECIFICATION StorageSpec
CONSTANTS
    Openers = {o1, o2, o3}
    MaxNonce = 5
    Records = {r1, r2}
    Anchors = {anchor}
    NoFile = NoFile
    NoBoundary = NoBoundary
    InitialSequence = 1
    Durability = "SyncAll"
    RecoveryMode = "RepairTornTail"
    PowerFailures = TRUE
    MaxFrames = 4
    MaxBatch = 2
    SegmentBodies = {x}
    SegmentAnchor = anchor
    SegmentFrames = 2
    MaxLogged = 4
    MaxGeneration = 3
    Nothing = Nothing
    TableKeys = {k1, k2, k3, k4}
    TableValues = {v, w}
    Hashes = {0, 7, 14}
    Maximum = 3
    Buckets = 8
    TreeKeys = {1, 2, 3, 4, 5, 6}
    TreeCapacity = 5
    x1 = x1
    x2 = x2
    x3 = x3
    BookCommands <- FewCommands
    Handles = {1, 2}
    MaxActive = 2
    CommandLimit = 4
    CommandReserve = 2
    ReportLimit = 3
    EventLimit = 7
    SelectionBuffers = 1
    MaxInstances = 2
    PayloadKinds = {"command", "report", "definition", "bookCheckpoint", "riskDefinition", "riskCheckpoint", "update", "snapshot", "record", "ledgerCheckpoint", "calendar", "anchor", "auctionCommand", "auctionReport", "auctionCheckpoint", "auctionRiskCheckpoint", "auctionUpdate", "auctionSnapshot"}
    DamagedKinds = {"record", "anchor", "definition", "riskCheckpoint"}
    DamagedBytes = {0, 1, 2, 255}
INVARIANTS LeaseHeld NoLoss OneRecordPerSequence WriterBehindVerified EveryCrashOpens TableIsMap TreeIsOrdered CancellationsHaveRoom PayloadsAreCanonical
PROPERTIES ImplementsRecordLog CommitsAreCurrent
CHECK_DEADLOCK FALSE
