SPECIFICATION Spec
CONSTANTS
    t1 = t1
    t2 = t2
    d1 = d1
    d2 = d2
    Thread = {t1, t2}
    Loader <- cLoader
    Device = {d1, d2}
    DeviceOf <- cDeviceOf
    Code = {c1, c2}
    Name = {n1}
    BinHandle = {h1, h2}
    FuncHandle = {f1, f2}
    Unnamed = {}
    Kinds = {"file"}
    MayFail = {"Clone"}
    Shared = FALSE
    Loads = 2
    Launches = 2
    None = None
SYMMETRY cSymmetry
INVARIANTS RunsItsOwnKernel CountsItsOwnBlocks SavesItsOwnMemory
CHECK_DEADLOCK FALSE
