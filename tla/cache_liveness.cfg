SPECIFICATION FairSpec
CONSTANTS
    Files = {f1, f2}
    MaxVersion = 1
    Threads = {t1}
    MaximumQueuedJobs = 1
    MaximumCacheEntries = 1
    SourceSize <- MCSourceSize
    CompressedSize <- MCCompressedSize
    CompressibleFiles = {f1, f2}
    Budgets = {600, 2200}
    DiskFaults = FALSE
    PinsOpenFiles = FALSE
    NoJob = NoJob
    PoorFiles = {f2}
PROPERTIES StopCompletes BuildServed JobsComplete
