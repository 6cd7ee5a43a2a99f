\* Two users sign in and out of one browser; one of them is an administrator
\* whose token a script uses as well.
CONSTANTS
    Users = {u1, u2}
    Admins = {u1}
    Tokens = {t1, t2}
    MaxRequests = 3
    None = None
SPECIFICATION Spec
INVARIANTS
    EndedIsRefused
    SignedOutStaysOut
    ContextIsOwner
SYMMETRY TokenSymmetry
CHECK_DEADLOCK FALSE
