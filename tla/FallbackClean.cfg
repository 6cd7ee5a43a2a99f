\* No faults: every interleaving of four requests of one user on one fund.
CONSTANTS
    Users = {u1}
    Funds = {f1}
    Requests = {r1, r2, r3, r4}
    Amounts = {1, 2, 3}
    Minimum <- MCMinimum
    InitialBalance = 5
    None = None
    FaultKinds = {}
    MaxHit = 0
SPECIFICATION FairSpec
INVARIANTS
    MoneyAccounted
    AuditComplete
PROPERTIES
    DoubleEntry
    BooksEventuallyBalance
    ImplementsLedger
CHECK_DEADLOCK FALSE
