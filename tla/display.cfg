CONSTANTS
    Traffics <- MCTraffics
    AlwaysSelected = {2}
    Positions = {1}
    Timeout = 1
    Period = 1
    ListTimeout = 1
    WatchPeriod = 2
    MaxAge = 5
SPECIFICATION Spec
INVARIANTS ClickableIsKnown MarksDiffer RowsAreRecent ListFollowsTable
