CONSTANTS
    Req = {r1, r2}
    Backends = {"redis", "mongo", "prisma"}
    Areas = {"grant", "account", "client"}
    MaxLife = 2
    GrantOps = 4
    AccountOps = 3
    ClientOps = 6
    MaxTime = 2
SPECIFICATION Spec
INVARIANTS GrantRevocationComplete ConsumedStays LogoutUnusable DeletedClientStays ShownSecretWorks
SYMMETRY Symmetric
CHECK_DEADLOCK FALSE
CONSTRAINT Focus
