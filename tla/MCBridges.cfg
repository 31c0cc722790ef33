SPECIFICATION Spec
CONSTANTS
    w1 = w1
    a = a
    b = b
    web = web
    other = other
    cli = cli
    NoOne = NoOne
    Request = {web, other, cli}
    Cli = {cli}
    Windows = {w1}
    Wsl = {a, b}
    Targets <- MCTargets
    InitDeclared <- MCSome
    Files <- MCFiles
    Reconciles = FALSE
    MaxRequests = 3
    MaxEvents = 1
    MaxFails = 1
SYMMETRY MCSymmetry
INVARIANTS TypeOK FragmentIsRead ApplyDelivers RemovalDelivers
CHECK_DEADLOCK FALSE
