CONSTANTS
    c1 = c1
    s1 = s1
    Chars = {c1}
    Wearers = {c1}
    Monitored = {s1}
    Space = space
    Threshold = 3
    FaultKinds = {}
    MaxFaults = 0
    MaxMoves = 2
SPECIFICATION Spec
INVARIANT AlertOncePerUndock
