\* One database call takes effect but its reply is lost.
CONSTANTS
    Users = {u1}
    Funds = {f1}
    Requests = {r1, r2, r3}
    Amounts = {1, 2, 3}
    Minimum <- MCMinimum
    InitialBalance = 5
    None = None
    FaultKinds = {"lost"}
    MaxHit = 1
SPECIFICATION Spec
INVARIANT ReplayReconciles
SYMMETRY RequestSymmetry
CHECK_DEADLOCK FALSE
