CONSTANTS
    p1 = p1
    p2 = p2
    r1 = r1
    r2 = r2
    Proc = {p1, p2}
    Req = {r1, r2}
    ProcOf <- OneEach
    Operations <- AnyAndSome
    NoDoc = NoDoc
    SaveMaxAttempts = 2
    Level = {1, 2}
    StartDoc <- NoneOrAll
    MaxOps <- OneAndTwo
    MaxFiles = 3
    MaxPlatform = 1
    MaxCrashes = 1
SPECIFICATION Spec
INVARIANTS CacheFresh SavesCompose LogoBacked SoloSaveSucceeds
CHECK_DEADLOCK FALSE
CONSTRAINT OneDisturbance
