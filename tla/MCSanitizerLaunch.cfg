SPECIFICATION Spec
CONSTANTS
    Device = {d1, d2}
    Size <- MCSize
    MaxLaunch = 3
    MayFail = TRUE
    NoDevice = NoDevice
INVARIANTS NoLeak KernelBufferStays ReportsAreFresh CheckedIsReported
CHECK_DEADLOCK FALSE
