CONSTANTS
    NoTenant = NoTenant
    Tenant = {t1, t2}
    Creation = {c1, c2}
    Reload = {r1}
    MaxSize = 1
    IdleTtl = 0
    MaxTime = 1
    MaxMade = 3
    MaxConfig = 1
    MaxKeys = 0
SPECIFICATION FairSpec
PROPERTY IdleEvicted
CHECK_DEADLOCK FALSE
