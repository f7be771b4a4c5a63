SPECIFICATION Spec
CONSTANTS
    Procs = {p1}
    Inodes = {i1, i2}
    MaxVersion = 2
    MaxFaults = 1
    DiskFaults = TRUE
    Rollback = FALSE
    ByDate = FALSE
    None = None
INVARIANTS ArchiveSurvives
