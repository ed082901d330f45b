SPECIFICATION Spec
CONSTANTS
    Block <- MCBlock
    HeapRange <- MCHeapRange
    RegionRange <- MCRegionRange
    ManualRange <- MCManualRange
    Section <- MCSection
    Launch <- MCLaunch
    Shape <- MCShape
    ContextSize = 1
    None = None
    BlockDim = 1
    MaxOp = 4
    MaxLaunch = 2
    MayFail = TRUE
INVARIANTS LaunchLeavesNothing
PROPERTIES TableExact TableAsAnnounced
\* The application stops when it has made its launches.
CHECK_DEADLOCK FALSE
