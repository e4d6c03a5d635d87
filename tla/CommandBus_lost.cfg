CONSTANTS
    i1 = i1
    i2 = i2
    i3 = i3
    j1 = j1
    t1 = t1
    Interactions = {i1}
    Jobs = {}
    Tenants = {t1}
    Global = global
    NoTenant = noTenant
    TenantOf <- MCTenantOf
    Market = {}
    Unknown = {}
    Announced = {}
    BatchSize = 2
    MaxFaults = 0
SPECIFICATION WarmFairSpec

PROPERTY EveryCommandAnswered
CHECK_DEADLOCK FALSE
