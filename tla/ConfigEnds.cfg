CONSTANTS
    a = a
    b = b
    c = c
    p1 = p1
    p2 = p2
    p3 = p3
    r1 = r1
    r2 = r2
    Genesis = Genesis
    Writer = {a, b, c}
    KeepCount = 2
    Proc = {p1, p2, p3}
    ProcOf <- TwoAndOneSaves
    ReloadProcOf <- ReloadsAway
    Form = {a}
    Boot = {}
    Reload = {}
    CanCrash = {p2}
    Failing = {b}
    MaxAttempts = 3
    SaveMaxAttempts = 2
    PubSub = FALSE
    HasUpdatedAt = TRUE
SPECIFICATION FairSpec
PROPERTY UpdateEnds
CHECK_DEADLOCK FALSE
INVARIANTS FormReplacesItsVersion VersionedSavesKeep
