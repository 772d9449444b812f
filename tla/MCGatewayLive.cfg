CONSTANTS
    Keys = {k1}
    NoConn = NoConn
    MaxUses = 2
    MaxAttempts = 2
    MaxUp = 1
    MaxDown = 1
    MaxInjected = 1
    MaxUnread = 2
    Awkward = {1}
    MaxFaults = 0
    Datagrams = {d1, d2, d3}
    Addresses = {a1, a2}
    Names = {n1, n2}
    HostIP = HostIP
    Resolver = Resolver
    None = None
    Label = {l1, l2}
    MaxTokens = 4
    MaxRecords = 2
    MaxDepth = 5
    Sums <- MCSums
SPECIFICATION MCSpec
INVARIANTS AskedByName SentAsShown NamesRead RecordsRead ChecksumVerifies
PROPERTIES EverySynAnswered EndReachesClient KeysForgotten
CHECK_DEADLOCK FALSE
