SPECIFICATION Spec
CONSTANTS
    Procs = {p1}
    Inodes = {i1, i2}
    MaxVersion = 3
    MaxFaults = 2
    DiskFaults = FALSE
    Rollback = TRUE
    ByDate = FALSE
    None = None
INVARIANTS ConfirmationIsTruthful ArchiveSurvives
