\* Three requests of one user on one fund, each in any mode; one fault or
\* crash in each mode.
CONSTANTS
    Users = {u1}
    Funds = {f1}
    Requests = {r1, r2, r3}
    Amounts = {1, 2, 3}
    Minimum <- MCMinimum
    InitialBalance = 4
    None = None
    MaxFaults = 1
    FaultKinds = {"refused", "lost", "undo", "crash"}
    MaxHit = 1
SPECIFICATION MixedFairSpec
INVARIANTS
    NoLostUpdate
    MixedCancelIsFinal
    MixedDamageBounded
PROPERTIES
    MixedImplementsLedger
    MixedRequestsEnd
CHECK_DEADLOCK FALSE
