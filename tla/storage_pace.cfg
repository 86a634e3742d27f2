CONSTANTS
    heading = heading
    none = none
    NumSensors = 2
    Type = {heading}
    AlwaysSelected = {}
    Position = none
    NoType = none
    SensorTimeout = 4
    GlobalTimeout = 3
    MaxAge = 7
    TrustedUI = TRUE
    Steady = {1}
    MaxSilence = 1
    PollPeriod = 1
    WatchPeriod = 1
SPECIFICATION TimedSpec
INVARIANTS MasterHasSlot MasterlessAtMostOnce
PROPERTIES BroadcastAgeBound SteadyMasterKept
CONSTRAINT NoRace
