CONSTANTS
    Keys = {k1}
    NoConn = NoConn
    MaxUses = 2
    MaxAttempts = 2
    MaxUp = 2
    MaxDown = 1
    MaxInjected = 1
    MaxUnread = 2
    Awkward = {}
    MaxFaults = 1
SPECIFICATION MCSpec
INVARIANTS Consent OnePerKey Paired HostInOrder EofMeansAll
PROPERTY KeepsStreams
CHECK_DEADLOCK FALSE
