CONSTANTS
    a = a
    b = b
    c = c
    p1 = p1
    p2 = p2
    p3 = p3
    r1 = r1
    r2 = r2
    Genesis = Genesis
    Writer = {a, b, c}
    KeepCount = 4
    Proc = {p1, p2}
    ProcOf <- TwoAndOneSaves
    ReloadProcOf <- ReloadsAway
    Form = {}
    Boot = {}
    Reload = {r1, r2}
    CanCrash = {}
    Failing = {b, r1}
    MaxAttempts = 1
    SaveMaxAttempts = 1
    PubSub = TRUE
    HasUpdatedAt = TRUE
SPECIFICATION Spec
INVARIANT ToldIsInstalled
PROPERTY SavesMoveForward
CHECK_DEADLOCK FALSE
CONSTRAINT PollsAlone
