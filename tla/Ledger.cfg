SPECIFICATION Spec
CONSTANTS
    Requested <- OpenedWith
    ShardCommands = {k1, k2}
    MaxFrames = 6
    MaxCheckpoints = 2
    Width = 3
    Requests <- Menu
    Limits <- SmallLimits
    MaxPrepared = 1
    None = None
    DurableRequests <- DurableMenu
    MaxSequence = 3
    MaxSnapshots = 3
SYMMETRY Symmetry
INVARIANTS LedgerIsItsRecords StorageCarriesLedger ShardComesBack OneConfiguration
PROPERTIES ClosedPeriodsStand ImplementsShardLog
CHECK_DEADLOCK FALSE
