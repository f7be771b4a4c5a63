SPECIFICATION Spec
CONSTANTS
    Registry <- MCRegistry
    Feeds = {"early", "late", "broken", "empty"}
    Serves <- MCServes
    Uses <- MCUses
    Defines <- MCDefines
    Commands <- AnyCommands
    MaxDate = 3
    MaxRuns = 2
    MaxChanges = 1
    MaxFaults = 1
    Overlap = TRUE
    None = None
    Torn = Torn
CHECK_DEADLOCK FALSE
INVARIANTS BuildTypeOK SuccessIsComplete
PROPERTY OthersUntouched
