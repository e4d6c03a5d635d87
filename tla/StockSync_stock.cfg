CONSTANTS
    ship = ship
    copy = copy
    hull = hull
    print = print
    x = x
    k1 = k1
    k2 = k2
    Null = null
    Items = {ship, copy}
    Types = {hull, print}
    TypeOf <- MCTypeOf
    Copies = {copy}
    Names = {x}
    Targeted <- NamedShip
    Syncs = {k1, k2}
    BatchLen = 2
    MaxChanges = 1
    MaxFaults = 1
SPECIFICATION FairSpec
INVARIANTS TypeOK LookupExact
PROPERTIES HistoryKept Settles
CHECK_DEADLOCK FALSE
