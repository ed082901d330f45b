SPECIFICATION Spec
CONSTANTS
    t1 = t1
    t2 = t2
    t3 = t3
    d1 = d1
    d2 = d2
    d3 = d3
    NoThread = NoThread
    NoDevice = NoDevice
    NoLaunch = NoLaunch
    Tools <- cTools
    Thread <- cThread
    Device = {d1, d2, d3}
    Main = d1
    Home = d1
    DeviceOf <- cDeviceOf
    Switches <- cSwitches
    Kind <- cKind
    Untimed = {"COLLECT_START", "PROF_FINISH"}
    KindsOf <- cKindsOf
    MaxRequest <- cMaxRequest
    MayTimeout = {"sanitizer", "profiler"}
    Launcher = {t1, t2}
    Named = {t1}
    Launches = 2
    Logs = 2
    Modes = {"files", "stream", "refused"}
INVARIANTS IdsApart OwnAnswer LogsFiled
PROPERTIES CallsEnd
CHECK_DEADLOCK FALSE
