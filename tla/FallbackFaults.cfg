\* Every kind of fault, hitting at most two requests of three, two users on one fund.
CONSTANTS
    Users = {u1, u2}
    Funds = {f1}
    Requests = {r1, r2, r3}
    Amounts = {1, 2, 3}
    Minimum <- MCMinimum
    InitialBalance = 5
    None = None
    FaultKinds = {"refused", "lost", "undo", "crash"}
    MaxHit = 2
SPECIFICATION Spec
INVARIANTS
    TypeOK
    NoOverdraft
    OneSubscriptionPerFund
    CancelIsFinal
    AcceptedIsReal
    DamageBounded
SYMMETRY RequestSymmetry
CHECK_DEADLOCK FALSE
