\* One dispatch while its user uses the two switches twice in all.
CONSTANTS
    Dispatches = {d1}
    Provider = "aws"
    None = None
    MaxToggles = 2
SPECIFICATION Spec
INVARIANTS
    ChannelIsolation
    OptOutRespected
    SettledScreen
    TogglesIndependent
CHECK_DEADLOCK FALSE
