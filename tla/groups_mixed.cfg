CONSTANTS
    Talker = {1, 2}
    Kind <- Types
    NumSeq = 4
    Capacity = 7
    Lossy = FALSE
    MaxMessages = 1
SPECIFICATION AlternateSpec
PROPERTIES ContinuesItsGroup
CHECK_DEADLOCK FALSE
