CONSTANTS
    MaxStarts = 2
    MaxClicks = 1
    MaxWindows = 1
    HeartbeatGrace = 0
SPECIFICATION FairSpec
INVARIANTS ForwardEnds
PROPERTIES DeletedUnderWork StartRepeatedOnlyStale StopEnds PausedWindowCloses
