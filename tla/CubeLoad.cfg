SPECIFICATION MCCubeSpec
CONSTANTS
    Filters <- MCFilters
    Registries <- MCRegistries
    CoveredDates <- MCCovered
    MaxLoads = 1
    Registry <- MCRegistry
    Feeds = {"early", "late", "broken", "first"}
    Serves <- MCServes
    Uses <- MCUses
    Defines <- MCDefines
    Commands <- WholeCommands
    MaxDate = 3
    MaxRuns = None
    MaxChanges = 0
    MaxFaults = 1
    Overlap = FALSE
    None = None
    Torn = Torn
INVARIANTS SuccessRepairs KeysResolve ServedTablesAgree QuietLoadServes
PROPERTIES Recovers
