CONSTANTS
    i1 = i1
    i2 = i2
    i3 = i3
    j1 = j1
    t1 = t1
    Interactions = {i1, i2, i3}
    Jobs = {}
    Tenants = {t1}
    Global = global
    NoTenant = noTenant
    TenantOf <- MCTenantOf
    Market = {i2}
    Unknown = {i1}
    Announced = {}
    BatchSize = 2
    MaxFaults = 0
SPECIFICATION FairSpec

PROPERTIES AnswerIsFinal AnsweredOrLost
CHECK_DEADLOCK FALSE
