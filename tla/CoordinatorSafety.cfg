SPECIFICATION Spec
CONSTANTS
    Task = {t1, t2}
    Nobody = Nobody
    Generations = 1
    Letter = {A}
    Field = {name, runtimes}
    Value = {0, 1}
    Keep = Keep
    None = None
    Requests <- AllRequests
SYMMETRY Symmetry
INVARIANTS
    TypeOK
    StatusTruthful
    AvailableDataCurrent
PROPERTIES
    VerifiedHolds
    RefusedNeverWritten
    OnlyEditsJudge
