CONSTANTS
    Talker = {1}
    Kind <- LongTypes
    NumSeq = 4
    Capacity = 10
    Lossy = TRUE
    MaxMessages = 4
SPECIFICATION Spec
PROPERTIES DecodedWhole IgnoredOnlyIfMissing DeafForGood
CHECK_DEADLOCK FALSE
