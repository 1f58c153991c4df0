SPECIFICATION FairSpec
CONSTANTS
    Task = {t1, t2, poller}
    Nobody = Nobody
    Poller = poller
    Station = {s1}
INVARIANTS
    TypeOK
    RefreshOwed
    ValvesTruthful
PROPERTY
    CommandsSeen
