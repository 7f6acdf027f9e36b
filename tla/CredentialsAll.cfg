CONSTANTS
    Req = {r1, r2}
    Number = {n1, n2}
    Areas = {"password", "phone", "mfa"}
    Relational = TRUE
    TokenLife = 1
    MaxOps = 7
    MaxTime = 3
SPECIFICATION Spec
INVARIANTS NoOldPassword ResetTokenOnce BrowserTokenUsable FlagAgrees SecretProved
SYMMETRY Symmetric
CHECK_DEADLOCK FALSE
