CONSTANTS
    p1 = p1
    p2 = p2
    p3 = p3
    t1 = t1
    t2 = t2
    Procs = {p1, p2}
    Tenants = {t1}
    TenantOf <- MCTenantOf
    Nobody = nobody
    TTL = 30
    Attempts = 10
    Delay = 1
    MaxHold = 30
    MaxFaults = 0
SPECIFICATION Spec
INVARIANT MigrationsExclusive
