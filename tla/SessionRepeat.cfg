SPECIFICATION Spec
CONSTANTS
    Script <- EditScript
    Length <- Lengths
    MaxResponse = 3
    Faults = {"repeat"}
    MaxRepeats = 2
    None = None
    Pending = Pending
CHECK_DEADLOCK FALSE
INVARIANT
    RepeatsIgnored
