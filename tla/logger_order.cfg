SPECIFICATION FairSpec
CONSTANTS
    MaxQueuedLines = 2
    KeepDays = 2
    OldDays <- MCOldDays
    OpenFaults = TRUE
    WriteFaults = TRUE
    MaxDay = 3
    MaxLines = 4
INVARIANTS TypeOK LossAccounted InOrder NoOrphanLines
PROPERTIES Retention StopReturns
