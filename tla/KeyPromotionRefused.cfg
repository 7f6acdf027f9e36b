CONSTANTS
    Alg = {rs256, es256}
    MaxBatch = 3
    MaxTime = 2
    Overlap = 0
    MinRotationInterval = 1
    RotationInterval = 1
    h1 = h1
    h2 = h2
    w1 = w1
    web1 = web1
    web2 = web2
    wrk = wrk
    Handler = {h1, h2}
    Proc = {web1, web2}
    WorkerProc = {}
    ProcOf <- TwoWebs
    CanCrash = {}
    MaxJob = 1
    Attempts = 2
    DelayedPromotion = TRUE
    Operation = {"admin"}
SPECIFICATION Spec
INVARIANT PromotionNeverRefused
