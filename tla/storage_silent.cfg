CONSTANTS
    heading = heading
    position = position
    none = none
    NumSensors = 1
    Type = {position}
    AlwaysSelected = {position}
    Position = position
    NoType = none
    SensorTimeout = 2
    GlobalTimeout = 1
    MaxAge = 3
    TrustedUI = TRUE
SPECIFICATION FairSpec
PROPERTIES SilentSourceDropped PoorMasterDeposed PollsGoOn
