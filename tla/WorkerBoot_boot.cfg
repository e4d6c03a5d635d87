CONSTANTS
    p1 = p1
    p2 = p2
    p3 = p3
    t1 = t1
    t2 = t2
    Procs = {p1, p2, p3}
    Tenants = {t1, t2}
    TenantOf <- MCTenantOf
    Nobody = nobody
    TTL = 2
    Attempts = 2
    Delay = 1
    MaxHold = 1
    MaxFaults = 1
SPECIFICATION FairSpec
INVARIANTS TypeOK MigrationsExclusive HoldersOwnLock OneTenantUnlessRaced
PROPERTIES BootEnds LockGoesAway
