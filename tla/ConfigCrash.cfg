CONSTANTS
    a = a
    b = b
    c = c
    p1 = p1
    p2 = p2
    p3 = p3
    r1 = r1
    r2 = r2
    Genesis = Genesis
    Writer = {a, b}
    KeepCount = 2
    Proc = {p1, p2, p3}
    ProcOf <- OwnProcessSaves
    ReloadProcOf <- ReloadsAway
    Form = {}
    Boot = {}
    Reload = {}
    CanCrash = {p1}
    Failing = {}
    MaxAttempts = 3
    SaveMaxAttempts = 2
    PubSub = TRUE
    HasUpdatedAt = TRUE
SPECIFICATION Spec
INVARIANT LoadFindsConfig
CHECK_DEADLOCK FALSE
