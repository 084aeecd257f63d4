SPECIFICATION Spec
CONSTANTS
    NoIP = NoIP
    IPs = {a, b}
    Threads = {t1, t2}
    MaximumClients = 1
    MaximumEvents = 3
    Window = 1
    CleanupEvery = 2
    StaleAfter = 1
    RequestLimit = 2
    DenialLimit = 2
    BlockTime = 3
    MaxTime = 3
SYMMETRY Symmetry
INVARIANTS EventCountExact WithinCapacity WindowBound
PROPERTIES BlockHolds RejectionsJustified
