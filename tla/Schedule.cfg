SPECIFICATION MCSpec
CONSTANTS
    Services <- MCServices
    Trips = {"t1", "t2", "t9"}
    MaxDate = 2
    MaxRows = 2
    MaxInt = 4
    AgencyId = "agency"
    Mode = "subway"
    None = None
    Blank = Blank
    Garbled = Garbled
INVARIANTS ScheduleTypeOK EveryCallOnce SummaryAccounts CallsInOrder KeysDefined IdsAreUnique MidnightIsCrossed TimetableKept PartitionsComplete FactsJoinOnce HierarchyIsWhole
CHECK_DEADLOCK FALSE
