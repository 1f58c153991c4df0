SPECIFICATION Spec
CONSTANTS
    Task = {t1, t2}
    Nobody = Nobody
    Generations = 2
    Letter = {A, B}
    Field = {runtimes}
    Value = {0, 1}
    Keep = Keep
    None = None
    Requests <- EditEachProgram
SYMMETRY Symmetry
INVARIANTS
    OneSession
PROPERTIES
    BackupBeforeOverwrite
    BackupIsCurrent
