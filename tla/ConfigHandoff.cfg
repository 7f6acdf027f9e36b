CONSTANTS
    a = a
    b = b
    c = c
    p1 = p1
    p2 = p2
    p3 = p3
    r1 = r1
    r2 = r2
    Genesis = Genesis
    Writer = {a, b, c}
    KeepCount = 2
    Proc = {p1, p2, p3}
    ProcOf <- OwnProcessSaves
    ReloadProcOf <- ReloadsAway
    Form = {}
    Boot = {c}
    Reload = {}
    CanCrash = {}
    Failing = {}
    MaxAttempts = 3
    SaveMaxAttempts = 2
    PubSub = FALSE
    HasUpdatedAt = TRUE
SPECIFICATION Spec
INVARIANTS TypeOK LoadFindsConfig ActiveIsNewest
CHECK_DEADLOCK FALSE
