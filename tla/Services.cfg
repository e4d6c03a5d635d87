CONSTANTS
    c1 = c1
    c2 = c2
    anchor1 = anchor1
    anchor2 = anchor2
    g1 = g1
    g2 = g2
    w1 = w1
    w2 = w2
    p1 = p1
    p2 = p2
    p3 = p3
    f1 = f1
    f2 = f2
    s1 = s1
    s2 = s2
    hull = hull
    ammo = ammo
    Keystrokes = {k1, k2}
    Empty = empty
    Nothing = nothing
    Links = {l1, l2}
    Visits = {v1, v2, v3}
    Nobody = nobody
    DevCmds = {c1, c2}
    NoCmd = nocmd
    Anchors <- MCAnchors
    Ticks = {t1, t2}
    MaxNotes = 2
    MarketWorkers = {w1, w2}
    Goods = {g1, g2}
    ListOf <- MCListOf
    Limit = 1
    LockRetries = 2
    MaxCommands = 2
    Unlocked = unlocked
    PageCap = 3
    ExtraPages = 1
    MaxPages = 4
    ShortPages = 1
    Prices = {1, 2}
    Intervals = {i1, i2}
    MaxDays = 2
    Pilots = {p1, p2, p3}
    FcCmds = {f1, f2}
    TargetOf <- MCTargetOf
    NoPilot = nopilot
    Stuff = {1, 2, 3}
    Sags = {s1, s2}
    NoSag = nosag
    StuffType <- MCStuffType
    StuffName <- MCStuffName
    Singletons = {1, 2}
    Listed2 = {3}
    RuleSets <- MCRuleSets
    NoName = noname
    MaxFaults = 2
SPECIFICATION FairSpec
INVARIANTS ServicesTypeOK AcOwnChoices WlOneLogin DbCommandKept AaWatermark McOneFetch
           SoBestPrice DtOneNotice FcSeatFilled HsPageExact
PROPERTIES AcLeavesNothing DbAnswered AaAnnounced McAllRows DtAnnounced
CHECK_DEADLOCK FALSE
