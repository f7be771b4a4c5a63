SPECIFICATION MCSpec
CONSTANTS
    Services = {A, B}
    MaxDate = 3
    MaxSpan = 1
    MaxPatterns = 1
    MaxExceptions = 2
    None = None
INVARIANTS CalendarTypeOK RemovalsWin ViewsAgree RefusedForCause
SYMMETRY Symmetry
CHECK_DEADLOCK FALSE
