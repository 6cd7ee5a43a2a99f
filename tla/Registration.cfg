\* Two visitors with two tries each on a process that may fall once and whose
\* AWS account may be in order, in the sandbox, unverified or refused.
CONSTANTS
    mateo = mateo
    Mateo = Mateo
    ana = ana
    mobile = mobile
    office = office
    junk = junk
    Environments <- MCEnvironments
    AwsStates <- MCAwsStates
    MaxFaults = 1
    Visitors = {v1, v2}
    Spellings <- MCSpellings
    Phones <- MCPhones
    Lower <- MCLower
    E164 <- MCE164
    None = None
    MaxTries = 2
    MaxSubmits <- MCMaxSubmits
SPECIFICATION FairSpec
INVARIANTS
    VerdictHonest
    SignedInOwns
PROPERTIES
    ImplementsRegister
    ComesUp
CHECK_DEADLOCK FALSE
