SPECIFICATION FairSpec
CONSTANTS
    Platform = {sensor, valve, number}
    Sensor = sensor
    Setups = 2
    MaxTime = 3
INVARIANTS
    TypeOK
    EntitiesWithData
    PollingSurvives
    StatusShownWhenAvailable
PROPERTIES
    SignalNeverOlder
    EntitiesAppear
    SignalShownAtLast
