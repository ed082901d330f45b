SPECIFICATION Spec
CONSTANTS
    Json <- cJson
    JsonOrder <- cJsonOrder
    Present = {TRUE, FALSE}
    MayFail <- cMayFail
    Null = Null
    Bad = Bad
    None = None
    Absent = Absent
INVARIANTS ArgsAreTheParams SavedIsTheResult
CHECK_DEADLOCK FALSE
