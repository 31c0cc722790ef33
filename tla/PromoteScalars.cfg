SPECIFICATION Spec
CONSTANTS
    Request = {p1, p2}
    Block = {github, fetch}
    Extra = {script}
    Scalars = TRUE
    MaxFails = 0
INVARIANTS ConflictHonoured
CHECK_DEADLOCK FALSE
