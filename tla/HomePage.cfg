\* Two funds, three calls of the page and two subscriptions in all, some of
\* them held when the page is opened: enough to ask twice for the cancel of
\* one card, with the other card's in between.
CONSTANTS
    Funds = {"f1", "f2"}
    Minimum <- MCMinimum
    Amounts = {2}
    InitialBalance = 3
    None = None
    MaxCalls = 3
    MaxIds = 2
SPECIFICATION Spec
INVARIANTS
    ShownTotalIsSum
    ShownIsServer
CHECK_DEADLOCK FALSE
