SPECIFICATION Spec
CONSTANTS
    Flow = {f1, f2}
    Address = {"a1", "a2"}
    Pin <- Pins
    PinOf <- PinOfEach
    Malformed = "12"
    Serial = {"16707796", "unknown"}
    DefaultTime = 2
    RunTimes = {2, 3}
    User = {"owner", "guest"}
    Entity = {"number", "text"}
    Granted <- Grants
    None = None
SYMMETRY Symmetry
INVARIANTS
    TypeOK
    FlowsReadUnconfigured
    RunTimeAsAsked
PROPERTIES
    ActionFindsDevice
