\* One database call is refused; compensating calls all succeed.
CONSTANTS
    Users = {u1}
    Funds = {f1}
    Requests = {r1, r2, r3}
    Amounts = {1, 2, 3}
    Minimum <- MCMinimum
    InitialBalance = 5
    None = None
    FaultKinds = {"refused"}
    MaxHit = 1
SPECIFICATION Spec
INVARIANT CompensationRestores
SYMMETRY RequestSymmetry
CHECK_DEADLOCK FALSE
