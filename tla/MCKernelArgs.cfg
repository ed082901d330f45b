SPECIFICATION MCSpec
CONSTANTS
    kHandle = kHandle
    kHost = kHost
    kDevice = kDevice
    Kernel = {kHandle, kHost, kDevice}
    Interface <- cInterface
    Layout <- cLayout
    Overflow = TRUE
    Address = {a1, a2}
    Value = {v1, v2, v3}
    Oversized = {v3}
    Stubs <- cStubs
    MayFail = {"Convert", "Memory"}
    Params = 2
    Launches = 3
    Updates = 1
    None = None
SYMMETRY cSymmetry
INVARIANTS  OffsetIsTold
CHECK_DEADLOCK FALSE
