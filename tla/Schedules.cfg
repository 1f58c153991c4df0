SPECIFICATION Spec
CONSTANTS
    Slots = 3
    MaxTime = 2
    Disabled = 9
    MaxRunTime = 2
    MaxStations = 2
    Day = {0, 1}
    Name = {"n1", "n2"}
    Letter = {"A"}
    Count = 1
    Programs <- OneProgram
    ActionChanges <- Changes
    Durations = {0, 2, 3}
    None = None
INVARIANTS
    TypeOK
    RepeatIsNoOp
PROPERTIES
    OnlyNamedChange
    StartsAsAsked
