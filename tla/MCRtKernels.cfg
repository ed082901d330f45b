SPECIFICATION MCSpec
CONSTANTS
    t1 = t1
    t2 = t2
    d1 = d1
    d2 = d2
    Thread = {t1, t2}
    Loader <- cLoader
    Device = {d1, d2}
    DeviceOf <- cDeviceOf
    Code = {c1, c2}
    Kernel = {k1, k2}
    Handle = {h1}
    Stub = {s1}
    Unseen = {}
    Again = {"same"}
    Buffer = {a1, a2}
    Todo <- cTodo
    Shared = FALSE
    Sink = {TRUE, FALSE}
    MayFail = {"Convert", "FunctionRegister", "SetDevice", "Callback", "Dump"}
    Registers = 2
    Launches <- cLaunches
    None = None
SYMMETRY cSymmetry
INVARIANTS RunsItsOwnKernel PcStartIsItsOwn DumpsItsOwnKernel
CHECK_DEADLOCK FALSE
