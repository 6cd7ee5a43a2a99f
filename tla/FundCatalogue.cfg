\* Three admin requests and two runs of the seed, which race each other.
CONSTANTS
    Requests = {r1, r2, r3}
    Ids = {1, 2}
    a = a
    b = b
    Names <- MCNames
    Mandatory <- MCMandatory
    Seed = Seed
    None = None
    MaxSeeds = 2
SPECIFICATION Spec
INVARIANTS
    DeleteAnswersTrue
PROPERTIES
    StoredFundsKept
    ImplementsRegister
SYMMETRY RequestSymmetry
CHECK_DEADLOCK FALSE
