SPECIFICATION Spec
CONSTANTS
    Files = {f1, f2, f3}
    MaxVersion = 1
    Threads = {t1}
    MaximumQueuedJobs = 1
    MaximumCacheEntries = 2
    SourceSize <- MCSourceSize
    CompressedSize <- MCCompressedSize
    CompressibleFiles = {f1, f2, f3}
    Budgets = {400, 700, 2000}
    DiskFaults = FALSE
    PinsOpenFiles = FALSE
    NoJob = NoJob
    PoorFiles = {}
SYMMETRY FileSymmetry
INVARIANTS DiskWithinBudget DirectoryTidy
