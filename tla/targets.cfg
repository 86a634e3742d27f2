CONSTANTS
    Ship = {1, 2, 3}
    Null = 0
    Place = {0, 1}
    Zero = 0
    NoPlace <- None
    OwnPlace = {0, 1, 99}
    Distance <- MCDistance
    Unwritten = {0, 2}
    Filters <- AllKinds
    Timeout = 0
    MaxAge = 1
    Listened = {1}
SPECIFICATION FairSpec
INVARIANTS LimitHolds NeverNull
PROPERTIES HeardShipStays StaleErased
CHECK_DEADLOCK FALSE
