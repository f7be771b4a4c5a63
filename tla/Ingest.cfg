SPECIFICATION MCSpec
CONSTANTS
    MaxDate = 4
    MaxDays = 5
    MaxFaults = 1
    AgencyIds = {A, B}
    A = A
    B = B
    Given = Given
    None = None
INVARIANTS IngestTypeOK RegistryIsSound FailureLeavesPrefix FetchedArchivesAreComplete InspectedFeedsBuild DefaultWindowIsShared SharedDatesAreBuilt DaysAreCounted
CHECK_DEADLOCK FALSE
