SPECIFICATION Spec
CONSTANTS
    Request = {p1, p2}
    Block = {github, fetch}
    Extra = {script}
    Scalars = FALSE
    MaxFails = 1
INVARIANTS TypeOK OneWinner ConflictHonoured Delivered SettingsKept
CHECK_DEADLOCK FALSE
