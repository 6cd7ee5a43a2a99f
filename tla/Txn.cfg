\* Three requests of one user on two funds, at most one fault.
CONSTANTS
    Users = {u1}
    Funds = {f1, f2}
    Requests = {r1, r2, r3}
    Amounts = {1, 2, 3}
    Minimum <- MCMinimum
    InitialBalance = 4
    None = None
    MaxFaults = 1
SPECIFICATION FairSpec
INVARIANTS
    ConservedAtEveryInstant
    AnswersAreTrue
    ReplayGivesState
PROPERTIES
    TransactionsEnd
    ImplementsLedger
CHECK_DEADLOCK FALSE
