CONSTANTS
    i1 = i1
    i2 = i2
    i3 = i3
    j1 = j1
    t1 = t1
    Interactions = {i2}
    Jobs = {j1}
    Tenants = {t1}
    Global = global
    NoTenant = noTenant
    TenantOf <- MCTenantOf
    Market = {i2}
    Unknown = {}
    Announced = {i2, j1}
    BatchSize = 2
    MaxFaults = 2
SPECIFICATION Spec
INVARIANTS TypeOK AtMostOneExecution NothingVanishes BroadcastOnce
PROPERTY KeepsPromise
CHECK_DEADLOCK FALSE
