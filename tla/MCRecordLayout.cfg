SPECIFICATION LayoutSpec
CONSTANTS
    Config <- MCConfig
    GlobalHead = 101
    BlockHead = 3
    CopyFails = TRUE
INVARIANTS BlocksApart PartsApart
CHECK_DEADLOCK FALSE
