SPECIFICATION Spec
CONSTANTS
    Registry <- MCRegistry
    Feeds = {"early", "late"}
    Serves <- MCServes
    Uses <- MCUses
    Defines <- MCDefines
    Commands <- DefaultCommand
    MaxDate = 3
    MaxRuns = 1
    MaxChanges = 1
    MaxFaults = 0
    Overlap = TRUE
    None = None
    Torn = Torn
CHECK_DEADLOCK FALSE
INVARIANTS BuiltFeedsCoverWindow
