SPECIFICATION Spec
CONSTANTS
    Platform = {sensor, valve}
    Sensor = sensor
    Setups = 1
    MaxTime = 2
INVARIANT
    StatusAlwaysShown
