SPECIFICATION Spec
CONSTANTS
    Threads = {t1, t2}
    Window = 3
    MaxCount = 3
    Sizes = {1, 2}
    None = None
    MaxLag = 2
    MaxNow = 5
    MaxSupplied = 4
SYMMETRY Symmetry
INVARIANTS RingExact SnapshotRecent
