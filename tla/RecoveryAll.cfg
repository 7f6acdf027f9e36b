SPECIFICATION Spec
CONSTANTS
    Browser = {b1, b2}
    Owner = {}
    Deployments <- Deployed
    MaxAttempts = 2
    SqMaxAttempts = 1
    LockTicks = 2
    CodeTicks = 1
    CooldownTicks = 2
    CodesPerBatch = 1
    BackupTicks = 2
    Relational = FALSE
    MaxCode = 3
    MaxTime = 3
SYMMETRY Browsers
CONSTRAINT Followed
INVARIANTS CodesUsedOnce AttemptsLimited CooldownKept
CHECK_DEADLOCK FALSE
