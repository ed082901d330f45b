SPECIFICATION MCSpec
CONSTANTS
    Section <- cSection
    Shared <- cShared
    NoSnapshot = NoSnapshot
    Garbage = Garbage
    Configs <- cConfigs
    Rounds = 2
    SamplingRuns = 1
    Launches = 3
    MaxRuns = 14
INVARIANTS  RoundsAreMeasured BuffersReturned RoundsReadTheOriginal
PROPERTIES OneExecution
CHECK_DEADLOCK FALSE
