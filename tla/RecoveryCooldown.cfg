SPECIFICATION Spec
CONSTANTS
    Browser = {b1, b2}
    Owner = {}
    Deployments <- BackupCodesOnly
    MaxAttempts = 2
    SqMaxAttempts = 1
    LockTicks = 2
    CodeTicks = 1
    CooldownTicks = 2
    CodesPerBatch = 1
    BackupTicks = 2
    Relational = FALSE
    MaxCode = 3
    MaxTime = 3
INVARIANT RestrictedDuringCooldown
CHECK_DEADLOCK FALSE
