CONSTANTS
    c1 = c1
    s1 = s1
    Chars = {c1}
    Wearers = {c1}
    Monitored = {s1}
    Space = space
    Threshold = 2
    FaultKinds = {"token", "dead", "esi", "anchor", "redis", "restart", "outage"}
    MaxFaults = 1
    MaxMoves = 1
SPECIFICATION FairSpec
INVARIANTS TypeOK NoFalseAlarm
PROPERTY WorldIsSeen
