SPECIFICATION Spec
CONSTANTS
    MaxTasks = 1
    MaxRounds = 1
    MaxVersion = 1
    MaxFaults = 0
    MaxGestures = 1
PROPERTIES GoesSilent
CHECK_DEADLOCK FALSE
