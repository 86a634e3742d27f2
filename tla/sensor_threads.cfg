CONSTANTS
    NumSensors = 2
    Serial = {1}
    Tcp = {2}
    Talking = {1}
    SilenceLimit = 0
    MaxCommands = 2
SPECIFICATION FairSpec
INVARIANTS DanglingOnlyInCommand HandleKept StartUpSafe
PROPERTY LostShownDead
CHECK_DEADLOCK FALSE
