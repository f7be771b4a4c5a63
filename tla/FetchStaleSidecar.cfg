SPECIFICATION Spec
CONSTANTS
    Procs = {p1}
    Inodes = {i1, i2}
    MaxVersion = 3
    MaxFaults = 1
    DiskFaults = TRUE
    Rollback = TRUE
    ByDate = FALSE
    None = None
INVARIANTS ConfirmationIsTruthful
