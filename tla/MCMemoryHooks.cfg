SPECIFICATION Spec
CONSTANTS
    Thread = {t1, t2}
    Device = {d1, d2}
    Virtual = {v1}
    Window = {w1, w2}
    Key = {k1, k2}
    MayFail <- cMayFail
    Calls = 2
    NoAddr = NoAddr
SYMMETRY cSymmetry
INVARIANTS ReportedOnce ToolFollowsHeap ToolFollowsShares
CHECK_DEADLOCK FALSE
