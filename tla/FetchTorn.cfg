SPECIFICATION Spec
CONSTANTS
    Procs = {p1, p2}
    Inodes = {i1, i2, i3}
    MaxVersion = 2
    MaxFaults = 0
    DiskFaults = TRUE
    Rollback = FALSE
    ByDate = FALSE
    None = None
SYMMETRY Symmetry
INVARIANTS ArchiveOpens
