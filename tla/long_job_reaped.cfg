CONSTANTS
    Remote = {"h1"}
    Local = {}
    Settings = {0, 3}
    Preset <- CodePreset
    JobTimeouts = {0, 1, 5}
    MaxDelay = 0
    MaxLeases = 2
    MaxTime = 6
SPECIFICATION Spec
CHECK_DEADLOCK FALSE
INVARIANTS NotPutBackInTime
