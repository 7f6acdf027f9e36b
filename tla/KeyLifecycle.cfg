CONSTANTS
    Alg = {rs256, es256}
    MaxBatch = 2
    MaxTime = 2
    Overlap = 0
    MinRotationInterval = 1
    RotationInterval = 2
    h1 = h1
    h2 = h2
    w1 = w1
    web1 = web1
    web2 = web2
    wrk = wrk
    Handler = {h1, w1}
    Proc = {web1, wrk}
    WorkerProc = {wrk}
    ProcOf <- WebAndWorker
    CanCrash = {web1, wrk}
    MaxJob = 1
    Attempts = 2
    DelayedPromotion = TRUE
    Operation = {"initialize", "admin", "api", "retireExpired", "retireKey", "cron"}
SPECIFICATION Spec
PROPERTY ImplementsLifecycle
