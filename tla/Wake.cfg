SPECIFICATION Spec
CONSTANTS
    MaxTasks = 2
    MaxRounds = 2
    MaxVersion = 2
    MaxFaults = 2
    MaxGestures = 3
INVARIANTS TypeOK
PROPERTIES Recovers PollsEnd ShellKept
CHECK_DEADLOCK FALSE
