CONSTANTS
    NoTenant = NoTenant
    Tenant = {t1, t2, t3}
    Creation = {c1, c2}
    Reload = {r1}
    MaxSize = 1
    IdleTtl = 0
    MaxTime = 2
    MaxMade = 4
    MaxConfig = 1
    MaxKeys = 1
SPECIFICATION FairSpec
INVARIANTS HandlersMatchPool PoolWithinSlack SingleCreation NoLeakedHandler
PROPERTY SweepEvicts
CONSTRAINT OneTrouble
CHECK_DEADLOCK FALSE
