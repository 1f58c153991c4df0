SPECIFICATION Spec
CONSTANTS
    Slots = 2
    MaxTime = 0
    Disabled = 9
    MaxRunTime = 2
    MaxStations = 1
    Day = {0}
    Name = {"n1"}
    Letter = {"A", "B"}
    Count = 1
    Programs <- DailyPrograms
    ActionChanges <- DailyChanges
    Durations = {0, 1}
    None = None
INVARIANT
    DailyTotalIsSet
PROPERTY
    VerifiedAsRead
