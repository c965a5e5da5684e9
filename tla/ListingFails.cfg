SPECIFICATION SegmentedSpec
CONSTANTS
    Requested <- OpenedWith
    ShardCommands = {k1, k2}
    MaxFrames = 6
    MaxCheckpoints = 2
    Width = 3
    Requests <- Menu
    Limits <- SmallLimits
    MaxPrepared = 0
    None = None
    DurableRequests <- DurableMenu
    MaxSequence = 3
    MaxSnapshots = 2
INVARIANT OpensAgain
CHECK_DEADLOCK FALSE
