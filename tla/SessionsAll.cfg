CONSTANTS
    u1 = u1
    u2 = u2
    t1 = t1
    t2 = t2
    b1 = b1
    NoUser = NoUser
    User = {u1, u2}
    MfaUser = {u2}
    Tab = {t1, t2}
    Browser = {b1}
    BrowserOf <- OneBrowser
    MaxSessions = 1
    MaxAccounts = 2
    MultiAccount = TRUE
    Offers <- Deployed
    MaxSid = 3
    MaxTime = 3
SPECIFICATION Spec
INVARIANTS TypeOK LimitKept RemovedStaysOut RevocationComplete SecondFactorKept
SYMMETRY Tabs
CONSTRAINT Within
CHECK_DEADLOCK FALSE
