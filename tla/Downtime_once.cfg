CONSTANTS
    Intervals = {i1}
    MaxDays = 1
    MaxFaults = 0
SPECIFICATION DtSpec
INVARIANT DtOncePerDate
CHECK_DEADLOCK FALSE
