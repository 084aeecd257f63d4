SPECIFICATION Spec
CONSTANTS
    Files = {f1}
    MaxVersion = 2
    Threads = {t1}
    MaximumQueuedJobs = 1
    MaximumCacheEntries = 1
    SourceSize <- MCSourceSize
    CompressedSize <- MCCompressedSize
    CompressibleFiles = {f1}
    Budgets = {400, 600}
    DiskFaults = TRUE
    PinsOpenFiles = TRUE
    NoJob = NoJob
    PoorFiles = {}
INVARIANTS TypeOK RepresentationFaithful PendingExact
PROPERTIES SkipJustified ImplementsStore
