SPECIFICATION Spec
CONSTANTS
    Request = {r1, r2, r3}
    skill = skill
    hook = hook
    Kind = {skill, hook}
    NoKind = NoKind
    Stored <- MCStored
PROPERTIES ReadOnlyContract
CHECK_DEADLOCK FALSE
