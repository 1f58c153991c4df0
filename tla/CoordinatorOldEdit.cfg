SPECIFICATION Spec
CONSTANTS
    Task = {t1, t2, t3}
    Nobody = Nobody
    Generations = 2
    Letter = {A}
    Field = {runtimes}
    Value = {0, 1}
    Keep = Keep
    None = None
    Requests <- EditOrPoll
SYMMETRY Symmetry
INVARIANT
    OldEditFinishesFirst
