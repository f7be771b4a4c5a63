SPECIFICATION FairSpec
CONSTANTS
    Procs = {p1}
    Inodes = {i1, i2}
    MaxVersion = 3
    MaxFaults = 2
    DiskFaults = TRUE
    Rollback = FALSE
    ByDate = TRUE
    None = None
INVARIANTS TypeOK ArchiveOpens ValidatorsDescribeAnInstall
PROPERTIES KeepsContract Terminates Converges
