SPECIFICATION FairSpec
CONSTANTS
    Task = {t1, t2}
    Nobody = Nobody
    Generations = 1
    Letter = {A}
    Field = {"runtimes"}
    Value = {0, 1}
    Keep = Keep
    None = None
    Requests <- EditStartPoll
PROPERTIES
    ImplementsPromise
    EditConcludes
    RequestsReturn
