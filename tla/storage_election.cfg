CONSTANTS
    heading = heading
    position = position
    none = none
    NumSensors = 2
    Type = {heading}
    AlwaysSelected = {}
    Position = position
    NoType = none
    SensorTimeout = 1
    GlobalTimeout = 0
    MaxAge = 2
    TrustedUI = FALSE
SPECIFICATION Spec
INVARIANTS CopyNotYounger
PROPERTY ImplementsElection
CHECK_DEADLOCK FALSE
