SPECIFICATION Spec
CONSTANTS
    MaxQueuedLines = 2
    KeepDays = 2
    OldDays <- MCOldDays
    OpenFaults = TRUE
    WriteFaults = TRUE
    MaxDay = 3
    MaxLines = 4
INVARIANT BadStreamIsReopened
