SPECIFICATION Spec
CONSTANTS
    Registry <- MCRegistry
    Feeds = {"early", "late"}
    Serves <- MCServes
    Uses <- MCUses
    Defines <- MCDefines
    Commands <- DefaultCommand
    MaxDate = 3
    MaxRuns = 2
    MaxChanges = 2
    MaxFaults = 0
    Overlap = FALSE
    None = None
    Torn = Torn
CHECK_DEADLOCK FALSE
INVARIANTS KeysResolve
