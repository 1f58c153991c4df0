SPECIFICATION FairSpec
CONSTANTS
    Script <- EditScript
    Length <- Lengths
    MaxResponse = 3
    Faults = {"repeat", "late", "lost", "link", "refuse", "noise", "wrong_pin", "short"}
    MaxRepeats = 2
    None = None
    Pending = Pending
CHECK_DEADLOCK FALSE
INVARIANTS
    TypeOK
    LoginTruthful
    TrustedAnswersOwn
    ResponseBounded
    NothingRetained
PROPERTY
    SessionEnds
